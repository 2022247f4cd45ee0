---------------------------- MODULE MCWalletApp ----------------------------
(* The views with something to do in them, and a version to update to. *)
EXTENDS WalletApp, TLC

MCTabs == <<"send", "history", "settings">>
MCSymmetry == Permutations(Slots)
MCVersion == [major |-> 1, minor |-> 2, patch |-> 3]
MCLatestVersions == {NoVersion, [major |-> 1, minor |-> 2, patch |-> 3], [major |-> 1, minor |-> 3, patch |-> 0],
                     [major |-> 2, minor |-> 0, patch |-> 0]}
=============================================================================
