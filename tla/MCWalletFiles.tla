--------------------------- MODULE MCWalletFiles ---------------------------
(* Processes, mnemonics, passwords and keys are interchangeable. *)
EXTENDS WalletFiles, TLC

MCSymmetry ==
    Permutations(Processes) \cup Permutations(Mnemonics)
      \cup Permutations(Passwords) \cup Permutations(CommKeys)
=============================================================================
