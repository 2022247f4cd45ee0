------------------------- MODULE WalletFilesProofs -------------------------
(***************************************************************************)
(* Proofs about the data directory of a wallet (WalletFiles): for any      *)
(* number of processes, mnemonics, passwords and crashes.                  *)
(*                                                                         *)
(* A mnemonic is lost when a file that held it is overwritten, or moved    *)
(* over the last copy.  What rules it out: the plaintext file is moved     *)
(* once, so it never overwrites its own backup; whoever writes the vault   *)
(* found none when it looked, or had moved it to the backup; and whoever   *)
(* moves it had opened it.  Two processes that act on what they found      *)
(* before the other wrote are what is left, and what the theorems except.  *)
(***************************************************************************)
EXTENDS WalletFiles, TLAPS

Files == {"vault", "vaultBak", "legacy", "legacyBak", "addresses", "comm"}

InLegacy(files, mnemonic) ==
    \E name \in {"legacy", "legacyBak"} :
      files[name].state = "whole" /\ files[name].mnemonic = mnemonic

DiskInv ==
    /\ DOMAIN disk = Files
    /\ disk.legacy.state \in {"missing", "whole"}
    /\ disk.legacyBak.state \in {"missing", "whole"}
    /\ disk.legacy.state = "missing" \/ disk.legacyBak.state = "missing"

(* What a session found when it looked, and what it goes on to. *)
SessionHolds(session) ==
    /\ session.at = "prompting" =>
         session.then \in {"exit", "start", "tui"} /\ session.seen.state = "missing"
    /\ session.at = "encrypting" =>
         session.then \in {"exit", "start", "tui", "migrate"} /\ session.seen.state = "missing"
    /\ session.at = "replacing" => session.seen.state = "whole"
    /\ session.at \in {"keying", "writing"} =>
         /\ "at" \in DOMAIN session
         /\ session.seen.state = "whole" => session.key = session.seen.key
    /\ session.at = "deriving" => session.resume.at = "up"

SessionInv ==
    /\ DOMAIN sessions = Processes
    /\ \A p \in Processes : SessionHolds(sessions[p])

FilesInv == DiskInv /\ SessionInv

(* What a step promises: the bodies of the two properties. *)
LossExplained ==
    \A m \in Mnemonics :
      Holds(disk, m) /\ ~Holds(disk', m) =>
        \/ /\ ~Holds([disk EXCEPT !.vaultBak = Missing], m)
           /\ disk.vault.state = "whole" /\ disk'.vaultBak = disk.vault
        \/ \E p \in Processes : Overtaken(p) /\ sessions'[p] # sessions[p]
KeyKept ==
    disk.comm.state = "whole" /\ disk'.comm # disk.comm =>
      \E p \in Processes :
        /\ sessions[p].at \in {"keying", "writing"} /\ sessions'[p] # sessions[p]
        /\ sessions[p].key = disk.comm.key \/ sessions[p].seen # disk.comm
Sound == FilesInv' /\ LossExplained /\ KeyKept

-----------------------------------------------------------------------------
(* Steps of a session *)

LEMMA SessionMoves ==
    ASSUME FilesInv, NEW p \in Processes, NEW next, SessionHolds(next),
           sessions' = [sessions EXCEPT ![p] = next]
    PROVE  SessionInv' /\ sessions'[p] = next
BY DEF FilesInv, SessionInv

(* With the disk as it was, nothing is lost. *)
LEMMA SessionOnly ==
    ASSUME FilesInv, UNCHANGED disk, SessionInv'
    PROVE  Sound
BY DEF Sound, FilesInv, DiskInv, LossExplained, KeyKept

LEMMA SessionStep ==
    ASSUME FilesInv, NEW p \in Processes, NEW next, SessionHolds(next),
           sessions' = [sessions EXCEPT ![p] = next], UNCHANGED disk
    PROVE  Sound
BY SessionMoves, SessionOnly

(* Sessions that have looked at nothing. *)
LEMMA PlainSessions ==
    /\ SessionHolds(Off)
    /\ \A m, w : SessionHolds(Loaded(m, w))
    /\ \A p, key : SessionHolds(Up(p, key))
BY DEF SessionHolds, Off, Loaded, Up

LEMMA AfterHolds ==
    ASSUME NEW work, work.then \in {"exit", "start", "tui", "migrate"}
    PROVE  /\ SessionHolds(After(work))
           /\ After(work).at \in {"off", "loaded", "migrating"}
BY DEF After, SessionHolds, Off, Loaded

(* The plaintext file becomes the backup, whoever moves it. *)
LEMMA LegacyMoves ==
    ASSUME FilesInv, hasLegacyMnemonic, SessionInv',
           disk' = [disk EXCEPT !.legacy = Missing, !.legacyBak = disk.legacy]
    PROVE  Sound
<1>1. /\ disk.legacy.state = "whole" /\ disk.legacyBak.state = "missing"
      /\ DOMAIN disk' = Files /\ disk'.legacyBak = disk.legacy /\ disk'.legacy.state = "missing"
      /\ disk'.vault = disk.vault /\ disk'.vaultBak = disk.vaultBak /\ disk'.comm = disk.comm
  BY DEF FilesInv, DiskInv, hasLegacyMnemonic, Missing, Files
<1>2. DiskInv'
  BY <1>1 DEF DiskInv
<1>3. LossExplained
  BY <1>1 DEF LossExplained, Holds
<1> QED
  BY <1>1, <1>2, <1>3 DEF Sound, FilesInv, KeyKept

(* A file other than those of a mnemonic is written, or torn. *)
LEMMA OtherFileWritten ==
    ASSUME FilesInv, NEW p \in Processes, NEW file \in {"addresses", "comm"}, NEW written,
           NEW next, SessionHolds(next), next # sessions[p],
           disk' = [disk EXCEPT ![file] = written],
           sessions' = [sessions EXCEPT ![p] = next],
           file = "comm" => sessions[p].at \in {"keying", "writing"}
    PROVE  Sound
<1>1. SessionInv' /\ sessions'[p] # sessions[p]
  BY SessionMoves
<1>2. /\ DOMAIN disk' = Files
      /\ \A name \in {"vault", "vaultBak", "legacy", "legacyBak"} : disk'[name] = disk[name]
  BY DEF FilesInv, DiskInv, Files
<1>3. DiskInv' /\ LossExplained
  BY <1>2 DEF FilesInv, DiskInv, LossExplained, Holds
<1>4. KeyKept
  <2>1. CASE file = "addresses"
    BY <2>1 DEF KeyKept, FilesInv, DiskInv, Files
  <2>2. CASE file = "comm"
    <3>1. /\ sessions[p].at \in {"keying", "writing"}
          /\ sessions[p].seen.state = "whole" => sessions[p].key = sessions[p].seen.key
      BY <2>2 DEF FilesInv, SessionInv, SessionHolds
    <3> QED
      BY <1>1, <3>1 DEF KeyKept
  <2> QED BY <2>1, <2>2
<1> QED
  BY <1>1, <1>3, <1>4 DEF Sound, FilesInv

-----------------------------------------------------------------------------
(* Every step is sound *)

LEMMA BecomesIsSound ==
    ASSUME FilesInv, NEW p \in Processes, NEW next, SessionHolds(next), Becomes(p, next)
    PROVE  Sound
BY SessionStep DEF Becomes

LEMMA MigrationIsSound ==
    ASSUME FilesInv, NEW p \in Processes, NEW password, migrateLegacyMnemonic(p, password)
    PROVE  Sound
<1> DEFINE next == Encrypting(disk.legacy.mnemonic, password, "migrate", disk.vault)
<1>1. disk.vault.state = "missing"
  BY DEF migrateLegacyMnemonic, hasVault
<1>2. SessionHolds(next)
  BY <1>1 DEF SessionHolds, Encrypting
<1>3. Becomes(p, next)
  BY DEF migrateLegacyMnemonic, hasVault
<1> HIDE DEF next
<1> QED
  BY <1>2, <1>3, BecomesIsSound

(* The vault is written, or torn, over none, or over one that came after the look. *)
LEMMA VaultIsSound ==
    ASSUME FilesInv, NEW p \in Processes, writeVaultFile(p)
    PROVE  Sound
<1> DEFINE work == sessions[p]
           content == Vault(work.mnemonic, work.password)
<1>1. work.at = "encrypting" /\ work.seen.state = "missing"
  BY DEF writeVaultFile, FilesInv, SessionInv, SessionHolds
<1>2. SessionHolds(After(work)) /\ After(work).at \in {"off", "loaded", "migrating"}
  BY <1>1, AfterHolds DEF FilesInv, SessionInv, SessionHolds
<1>3. PICK written \in {content, Torn}, after \in {After(work), Off} :
        /\ disk' = [disk EXCEPT !.vault = written]
        /\ sessions' = [sessions EXCEPT ![p] = after]
  BY DEF writeVaultFile, Writes
<1>4. SessionHolds(after) /\ after # work
  BY <1>1, <1>2, PlainSessions DEF Off
<1>5. SessionInv' /\ sessions'[p] # sessions[p]
  BY <1>3, <1>4, SessionMoves
<1>6. /\ DOMAIN disk' = Files
      /\ \A name \in Files \ {"vault"} : disk'[name] = disk[name]
  BY <1>3 DEF FilesInv, DiskInv, Files
<1>7. DiskInv' /\ KeyKept
  BY <1>6 DEF FilesInv, DiskInv, KeyKept, Files
<1>8. LossExplained
  <2>1. CASE Overtaken(p)
    BY <1>5, <2>1 DEF LossExplained
  <2>2. CASE ~Overtaken(p)
    <3>1. disk.vault.state = "missing"
      BY <1>1, <2>2 DEF Overtaken
    <3>2. \A m : Holds(disk, m) => Holds(disk', m)
      BY <1>6, <3>1 DEF Holds, Files
    <3> QED
      BY <3>2 DEF LossExplained
  <2> QED BY <2>1, <2>2
<1> QED
  BY <1>5, <1>7, <1>8 DEF Sound, FilesInv

LEMMA MigratedIsSound ==
    ASSUME FilesInv, NEW p \in Processes, Migrated(p)
    PROVE  Sound
<1> DEFINE next == Loaded(sessions[p].mnemonic, sessions[p].password)
<1>1. /\ hasLegacyMnemonic
      /\ disk' = [disk EXCEPT !.legacy = Missing, !.legacyBak = disk.legacy]
      /\ sessions' = [sessions EXCEPT ![p] = next]
  BY DEF Migrated, FilesInv, SessionInv
<1>2. SessionHolds(next)
  BY PlainSessions
<1> HIDE DEF next
<1> QED
  BY <1>1, <1>2, SessionMoves, LegacyMoves

LEMMA OnboardingIsSound ==
    ASSUME FilesInv, NEW p \in Processes, NEW then \in {"exit", "start", "tui"}, Onboarding(p, then)
    PROVE  Sound
<1> DEFINE next == Prompting(FALSE, then, disk.vault)
<1>1. SessionHolds(next)
  BY DEF Onboarding, hasVault, SessionHolds, Prompting
<1>2. Becomes(p, next)
  BY DEF Onboarding
<1> HIDE DEF next
<1> QED
  BY <1>1, <1>2, BecomesIsSound

LEMMA ForceIsSound ==
    ASSUME FilesInv, NEW p \in Processes, NEW password \in Passwords, initForce(p, password)
    PROVE  Sound
<1> DEFINE next == IF hasVault THEN [at |-> "replacing", seen |-> disk.vault]
                   ELSE Prompting(TRUE, "exit", disk.vault)
<1>1. sessions' = [sessions EXCEPT ![p] = next] /\ UNCHANGED disk
  BY DEF initForce
<1>2. SessionHolds(next)
  <2>1. CASE hasVault
    BY <2>1 DEF initForce, decrypts, SessionHolds
  <2>2. CASE ~hasVault
    BY <2>2 DEF hasVault, SessionHolds, Prompting
  <2> QED BY <2>1, <2>2
<1> HIDE DEF next
<1> QED
  BY <1>1, <1>2, SessionStep

(* The vault moves over its backup: the vault that was opened, or one that came after. *)
LEMMA ReplacesIsSound ==
    ASSUME FilesInv, NEW p \in Processes, Replaces(p)
    PROVE  Sound
<1> DEFINE next == Prompting(TRUE, "exit", disk'.vault)
<1>1. /\ sessions[p].at = "replacing" /\ sessions[p].seen.state = "whole"
      /\ sessions' = [sessions EXCEPT ![p] = next]
  BY DEF Replaces, FilesInv, SessionInv, SessionHolds
<1>2. /\ DOMAIN disk' = Files /\ disk'.vault = Missing /\ disk'.vaultBak = disk.vault
      /\ \A name \in {"legacy", "legacyBak", "addresses", "comm"} : disk'[name] = disk[name]
  BY DEF Replaces, VaultToBackup, FilesInv, DiskInv, Files
<1>3. SessionHolds(next) /\ next # sessions[p]
  BY <1>1, <1>2 DEF SessionHolds, Prompting, Missing
<1> HIDE DEF next
<1>4. SessionInv' /\ sessions'[p] # sessions[p]
  BY <1>1, <1>3, SessionMoves
<1>5. DiskInv' /\ KeyKept
  BY <1>2 DEF FilesInv, DiskInv, KeyKept
<1>6. LossExplained
  <2>1. CASE Overtaken(p)
    BY <1>4, <2>1 DEF LossExplained
  <2>2. CASE ~Overtaken(p)
    <3>1. disk.vault.state = "whole"
      BY <1>1, <2>2 DEF Overtaken
    <3> SUFFICES ASSUME NEW m \in Mnemonics, Holds(disk, m), ~Holds(disk', m)
                 PROVE  ~Holds([disk EXCEPT !.vaultBak = Missing], m)
      BY <1>2, <3>1 DEF LossExplained
    <3>2. ~(disk.vault.state = "whole" /\ disk.vault.mnemonic = m)
      BY <1>2 DEF Holds
    <3>3. ~InLegacy(disk, m)
      BY <1>2 DEF Holds, InLegacy
    <3> QED
      BY <3>2, <3>3 DEF Holds, InLegacy, Missing, FilesInv, DiskInv, Files
  <2> QED BY <2>1, <2>2
<1> QED
  BY <1>4, <1>5, <1>6 DEF Sound, FilesInv

LEMMA CreateIsSound ==
    ASSUME FilesInv, NEW p \in Processes, NEW mnemonic \in Mnemonics, NEW password \in Passwords,
           createOrLoadKey(p, mnemonic, password)
    PROVE  Sound
<1> DEFINE work == sessions[p]
           creating == Encrypting(mnemonic, password, work.then, work.seen)
           opened == Encrypting(disk.vault.mnemonic, password, work.then, work.seen)
<1>1. /\ SessionHolds(work) /\ work.at = "prompting"
      /\ work.then \in {"exit", "start", "tui"} /\ work.seen.state = "missing"
  BY DEF createOrLoadKey, FilesInv, SessionInv, SessionHolds
<1>2. SessionHolds(creating)
  BY <1>1 DEF SessionHolds, Encrypting
<1>3. SessionHolds(After(opened))
  <2>1. opened.then \in {"exit", "start", "tui", "migrate"}
    BY <1>1 DEF Encrypting
  <2> HIDE DEF opened
  <2> QED
    BY <2>1, AfterHolds
<1>4. \/ /\ UNCHANGED disk
         /\ \/ sessions' = [sessions EXCEPT ![p] = After(opened)]
            \/ sessions' = [sessions EXCEPT ![p] = IF work.then = "tui" THEN work ELSE Off]
            \/ sessions' = [sessions EXCEPT ![p] = creating]
      \/ /\ hasLegacyMnemonic
         /\ disk' = [disk EXCEPT !.legacy = Missing, !.legacyBak = disk.legacy]
         /\ sessions' = [sessions EXCEPT ![p] = creating]
  BY DEF createOrLoadKey, FilesInv, SessionInv
<1> HIDE DEF creating, opened, work
<1>5. PICK next \in {After(opened), work, Off, creating} :
        sessions' = [sessions EXCEPT ![p] = next]
  BY <1>4
<1>6. SessionInv'
  BY <1>1, <1>2, <1>3, <1>5, PlainSessions, SessionMoves
<1> QED
  BY <1>4, <1>6, SessionOnly, LegacyMoves

LEMMA CommKeyIsSound ==
    ASSUME FilesInv, NEW p \in Processes, loadOrCreateCommKey(p)
    PROVE  Sound
<1>1. \/ \E key : /\ disk.comm.state = "whole" => key = disk.comm.key
                  /\ sessions' = [sessions EXCEPT ![p] = Keying(p, key)]
      \/ \E key : sessions' = [sessions EXCEPT ![p] = Up(p, key)]
  BY DEF loadOrCreateCommKey, KeyIsGone
<1>2. \A key : (disk.comm.state = "whole" => key = disk.comm.key) => SessionHolds(Keying(p, key))
  BY DEF SessionHolds, Keying
<1>3. UNCHANGED disk
  BY DEF loadOrCreateCommKey
<1> QED
  BY <1>1, <1>2, <1>3, PlainSessions, SessionStep

LEMMA KeyFileIsSound ==
    ASSUME FilesInv, NEW p \in Processes, writeCommKey(p) \/ CommKeyWritten(p)
    PROVE  Sound
<1>1. CASE writeCommKey(p)
  <2> DEFINE next == [sessions[p] EXCEPT !.at = "writing"]
  <2>1. /\ sessions[p].at = "keying" /\ disk' = [disk EXCEPT !.comm = Torn]
        /\ sessions' = [sessions EXCEPT ![p] = next]
    BY <1>1 DEF writeCommKey
  <2>2. SessionHolds(sessions[p])
    BY DEF FilesInv, SessionInv
  <2>3. SessionHolds(next) /\ next # sessions[p]
    BY <2>1, <2>2 DEF SessionHolds
  <2> HIDE DEF next
  <2> QED
    BY <2>1, <2>3, OtherFileWritten
<1>2. CASE CommKeyWritten(p)
  <2> DEFINE content == Protected(sessions[p].key, sessions[p].password)
             up == Up(p, sessions[p].key)
  <2>1. sessions[p].at = "writing"
    BY <1>2 DEF CommKeyWritten
  <2>2. PICK written \in {content, Torn}, next \in {up, Off} :
          /\ disk' = [disk EXCEPT !.comm = written]
          /\ sessions' = [sessions EXCEPT ![p] = next]
    BY <1>2 DEF CommKeyWritten, Writes
  <2>3. SessionHolds(up) /\ SessionHolds(Off)
    BY PlainSessions
  <2>4. up.at = "up" /\ Off.at = "off"
    BY DEF Up, Off
  <2>5. SessionHolds(next) /\ next # sessions[p]
    BY <2>1, <2>2, <2>3, <2>4
  <2> QED
    BY <2>1, <2>2, <2>5, OtherFileWritten
<1> QED BY <1>1, <1>2

LEMMA DerivesIsSound ==
    ASSUME FilesInv, NEW p \in Processes, NEW branch \in Branches, Derives(p, branch)
    PROVE  Sound
<1> DEFINE next == [at |-> "deriving", branch |-> branch, read |-> readAddressesFile,
                    resume |-> sessions[p]]
<1>1. sessions[p].at = "up" /\ UNCHANGED disk /\ sessions' = [sessions EXCEPT ![p] = next]
  BY DEF Derives
<1>2. SessionHolds(next)
  BY <1>1 DEF SessionHolds
<1> HIDE DEF next
<1> QED
  BY <1>1, <1>2, SessionStep

LEMMA AddressIsSound ==
    ASSUME FilesInv, NEW p \in Processes, nextAddress(p)
    PROVE  Sound
<1> DEFINE content == [state |-> "whole", next |-> NextIndexes(sessions[p].read, sessions[p].branch)]
<1>1. sessions[p].at = "deriving" /\ sessions[p].resume.at = "up"
  BY DEF nextAddress, FilesInv, SessionInv, SessionHolds
<1>2. PICK written \in {content, Torn}, next \in {sessions[p].resume, Off} :
        /\ disk' = [disk EXCEPT !.addresses = written]
        /\ sessions' = [sessions EXCEPT ![p] = next]
  BY DEF nextAddress, Writes
<1>3. SessionHolds(next) /\ next # sessions[p]
  BY <1>1 DEF SessionHolds, Off
<1> QED
  BY <1>2, <1>3, OtherFileWritten

LEMMA InitIsSound == Init => FilesInv
<1> SUFFICES ASSUME Init PROVE FilesInv
  OBVIOUS
<1>1. DiskInv
  BY DEF Init, DiskInv, Files, Missing, Plaintext
<1>2. SessionInv
  BY PlainSessions DEF Init, SessionInv
<1> QED BY <1>1, <1>2 DEF FilesInv

LEMMA NextIsSound == FilesInv /\ Next => Sound
<1> SUFFICES ASSUME FilesInv, NEW p \in Processes,
                    \/ \E password \in Passwords :
                         \/ loadWalletKey(p, password) \/ migrateLegacyMnemonic(p, password)
                         \/ initForce(p, password)
                         \/ \E mnemonic \in Mnemonics : createOrLoadKey(p, mnemonic, password)
                    \/ writeVaultFile(p) \/ Migrated(p) \/ Replaces(p)
                    \/ loadOrCreateCommKey(p) \/ writeCommKey(p) \/ CommKeyWritten(p)
                    \/ \E then \in {"exit", "start", "tui"} : Onboarding(p, then)
                    \/ \E branch \in Branches : Derives(p, branch)
                    \/ nextAddress(p)
                    \/ Exit(p)
             PROVE  Sound
  BY DEF Next
<1>1. ASSUME NEW password \in Passwords, loadWalletKey(p, password) PROVE Sound
  BY <1>1, BecomesIsSound, PlainSessions DEF loadWalletKey
<1>2. CASE Exit(p)
  BY <1>2, BecomesIsSound, PlainSessions DEF Exit
<1> QED
  BY <1>1, <1>2, MigrationIsSound, VaultIsSound, MigratedIsSound, ForceIsSound, ReplacesIsSound,
     CreateIsSound, CommKeyIsSound, KeyFileIsSound, OnboardingIsSound, DerivesIsSound, AddressIsSound

LEMMA StutterIsSound == FilesInv /\ UNCHANGED vars => FilesInv'
BY DEF vars, FilesInv, DiskInv, SessionInv

LEMMA FilesInvariant == Spec => []FilesInv
<1>1. FilesInv /\ [Next]_vars => FilesInv'
  BY NextIsSound, StutterIsSound DEF Sound
<1> QED
  BY <1>1, InitIsSound, PTL DEF Spec

(* No step takes the last copy of a mnemonic off the disk, but for the second of two forced
   rebuilds and for a process that acts on a vault written since it looked (initWallet,
   createOrLoadKey, migrateLegacyMnemonic). *)
THEOREM MnemonicsAreKept == Spec => LostOnlyFromBackup
<1>1. FilesInv /\ Next => LossExplained
  BY NextIsSound DEF Sound
<1> QED
  BY <1>1, FilesInvariant, PTL DEF Spec, LostOnlyFromBackup, LossExplained

(* A communication key that can be read from its file is replaced by itself, or by a process
   that looked at the file before that key was in it (loadOrCreateCommKey). *)
THEOREM CommKeysAreKept == Spec => CommKeyIsStable
<1>1. FilesInv /\ Next => KeyKept
  BY NextIsSound DEF Sound
<1> QED
  BY <1>1, FilesInvariant, PTL DEF Spec, CommKeyIsStable, KeyKept

-----------------------------------------------------------------------------
(* Addresses *)

Deriving(p) == sessions[p].at = "deriving"

(* What a process read before it derives is still what the file says, for it is the only one. *)
AddressInv ==
    /\ disk.addresses.state = "whole" => disk.addresses.next \in [Branches -> Nat]
    /\ \A p \in Processes :
         Deriving(p) => sessions[p].branch \in Branches /\ sessions[p].read = readAddressesFile
    /\ \A p, q \in Processes : Deriving(p) /\ Deriving(q) => p = q

AddressesKept ==
    \A address \in handed' :
      address \notin handed \/ findAddressIndex(address)
        => findAddressIndex(address)' \/ disk'.addresses = Torn

AddressesStay ==
    /\ disk'.addresses = disk.addresses /\ handed' = handed
    /\ \A q \in Processes : Deriving(q)' => Deriving(q) /\ sessions'[q] = sessions[q]

LEMMA CountersAreNatural ==
    ASSUME AddressInv
    PROVE  readAddressesFile \in [Branches -> Nat]
BY DEF AddressInv, readAddressesFile

(* Every step but those of a derivation leaves the index file alone. *)
LEMMA OtherSteps ==
    ASSUME FilesInv, NEW p \in Processes,
           \/ \E password \in Passwords :
                \/ loadWalletKey(p, password) \/ migrateLegacyMnemonic(p, password)
                \/ initForce(p, password)
                \/ \E mnemonic \in Mnemonics : createOrLoadKey(p, mnemonic, password)
           \/ writeVaultFile(p) \/ Migrated(p) \/ Replaces(p)
           \/ loadOrCreateCommKey(p) \/ writeCommKey(p) \/ CommKeyWritten(p)
           \/ \E then \in {"exit", "start", "tui"} : Onboarding(p, then)
           \/ Exit(p)
    PROVE  AddressesStay
<1>1. handed' = handed
  BY DEF loadWalletKey, migrateLegacyMnemonic, initForce, createOrLoadKey, writeVaultFile, Migrated,
         Replaces, loadOrCreateCommKey, writeCommKey, CommKeyWritten, Onboarding, Exit, Becomes
<1>2. disk'.addresses = disk.addresses
  <2>1. \/ UNCHANGED disk \/ disk' = VaultToBackup(disk)
        \/ disk' = [disk EXCEPT !.legacy = Missing, !.legacyBak = disk.legacy]
        \/ \E file \in {"vault", "comm"} : \E written : disk' = [disk EXCEPT ![file] = written]
    BY DEF loadWalletKey, migrateLegacyMnemonic, initForce, createOrLoadKey, writeVaultFile, Migrated,
           Replaces, loadOrCreateCommKey, writeCommKey, CommKeyWritten, Onboarding, Exit, Becomes, Writes
  <2> QED
    BY <2>1 DEF VaultToBackup, FilesInv, DiskInv, Files
<1>3. ASSUME NEW next, next.at # "deriving" \/ next = sessions[p],
             sessions' = [sessions EXCEPT ![p] = next]
      PROVE  AddressesStay
  BY <1>1, <1>2, <1>3 DEF AddressesStay, Deriving, FilesInv, SessionInv
<1>4. ASSUME NEW password \in Passwords, NEW mnemonic \in Mnemonics,
             createOrLoadKey(p, mnemonic, password)
      PROVE  AddressesStay
  <2> DEFINE creating == Encrypting(mnemonic, password, sessions[p].then, sessions[p].seen)
             opened == Encrypting(disk.vault.mnemonic, password, sessions[p].then, sessions[p].seen)
  <2>1. After(opened).at # "deriving"
    <3>1. opened.then \in {"exit", "start", "tui", "migrate"}
      BY <1>4 DEF createOrLoadKey, FilesInv, SessionInv, SessionHolds, Encrypting
    <3> HIDE DEF opened
    <3> QED
      BY <3>1, AfterHolds
  <2>2. creating.at # "deriving" /\ Off.at # "deriving"
    BY DEF Encrypting, Off
  <2>3. \E next \in {After(opened), sessions[p], Off, creating} :
          sessions' = [sessions EXCEPT ![p] = next]
    BY <1>4 DEF createOrLoadKey
  <2> HIDE DEF creating, opened
  <2> QED
    BY <1>3, <2>1, <2>2, <2>3
<1>5. CASE writeVaultFile(p)
  <2>1. After(sessions[p]).at # "deriving" /\ Off.at # "deriving"
    BY <1>5, AfterHolds DEF writeVaultFile, FilesInv, SessionInv, SessionHolds, Off
  <2>2. \E next \in {After(sessions[p]), Off} : sessions' = [sessions EXCEPT ![p] = next]
    BY <1>5 DEF writeVaultFile, Writes
  <2> QED
    BY <1>3, <2>1, <2>2
<1>6. CASE writeCommKey(p)
  <2> DEFINE next == [sessions[p] EXCEPT !.at = "writing"]
  <2>1. sessions' = [sessions EXCEPT ![p] = next]
    BY <1>6 DEF writeCommKey
  <2>2. next.at # "deriving"
    BY <1>6 DEF writeCommKey, FilesInv, SessionInv, SessionHolds
  <2> HIDE DEF next
  <2> QED
    BY <1>3, <2>1, <2>2
<1>7. CASE loadOrCreateCommKey(p) \/ CommKeyWritten(p)
  <2>1. \A key : Up(p, key).at # "deriving" /\ Keying(p, key).at # "deriving"
    BY DEF Up, Keying
  <2>2. Off.at # "deriving"
    BY DEF Off
  <2>3. \/ \E key : \/ sessions' = [sessions EXCEPT ![p] = Up(p, key)]
                   \/ sessions' = [sessions EXCEPT ![p] = Keying(p, key)]
        \/ sessions' = [sessions EXCEPT ![p] = Off]
    BY <1>7 DEF loadOrCreateCommKey, CommKeyWritten, Writes
  <2> QED
    BY <1>3, <2>1, <2>2, <2>3
<1>8. CASE \/ \E password \in Passwords :
                \/ loadWalletKey(p, password) \/ migrateLegacyMnemonic(p, password)
                \/ initForce(p, password)
           \/ \E then \in {"exit", "start", "tui"} : Onboarding(p, then)
           \/ Migrated(p) \/ Replaces(p) \/ Exit(p)
  <2>1. \/ \E m, w : sessions' = [sessions EXCEPT ![p] = Loaded(m, w)]
        \/ \E m, w : sessions' = [sessions EXCEPT ![p] = Encrypting(m, w, "migrate", disk.vault)]
        \/ sessions' = [sessions EXCEPT ![p] = [at |-> "replacing", seen |-> disk.vault]]
        \/ \E f, t, v : sessions' = [sessions EXCEPT ![p] = Prompting(f, t, v)]
        \/ sessions' = [sessions EXCEPT ![p] = Off]
    BY <1>8 DEF loadWalletKey, migrateLegacyMnemonic, initForce, Onboarding, Migrated, Replaces,
                Exit, Becomes, FilesInv, SessionInv
  <2>2. /\ \A m, w : Loaded(m, w).at # "deriving"
        /\ \A m, w : Encrypting(m, w, "migrate", disk.vault).at # "deriving"
        /\ [at |-> "replacing", seen |-> disk.vault].at # "deriving"
        /\ \A f, t, v : Prompting(f, t, v).at # "deriving"
        /\ Off.at # "deriving"
    BY DEF Loaded, Encrypting, Prompting, Off
  <2> QED
    BY <1>3, <2>1, <2>2
<1> QED
  BY <1>4, <1>5, <1>6, <1>7, <1>8

LEMMA StayingKeepsAddresses ==
    ASSUME FilesInv, AddressInv, AddressesStay
    PROVE  AddressInv' /\ AddressesKept
<1>1. readAddressesFile' = readAddressesFile
  BY DEF AddressesStay, readAddressesFile
<1>2. AddressInv'
  BY <1>1 DEF AddressInv, AddressesStay, Deriving
<1>3. \A address : findAddressIndex(address)' = findAddressIndex(address)
  BY <1>1 DEF findAddressIndex, listWalletAddresses
<1> QED
  BY <1>2, <1>3 DEF AddressesKept, AddressesStay

(* Exactly the counter of the branch grows, by one: the new address is the last of its branch. *)
LEMMA CountersGrow ==
    ASSUME FilesInv, AddressInv, NEW p \in Processes, nextAddress(p), disk'.addresses # Torn
    PROVE  LET branch == sessions[p].branch
           IN  /\ branch \in Branches
               /\ readAddressesFile' = [readAddressesFile EXCEPT ![branch] = @ + 1]
               /\ handed' \subseteq handed \cup
                    {<<sessions[p].resume.mnemonic, branch, readAddressesFile[branch]>>}
<1> DEFINE branch == sessions[p].branch
           content == [state |-> "whole", next |-> NextIndexes(sessions[p].read, branch)]
<1>1. branch \in Branches /\ sessions[p].read = readAddressesFile
  BY DEF nextAddress, AddressInv, Deriving
<1>2. disk'.addresses \in {content, Torn}
  BY DEF nextAddress, Writes, FilesInv, DiskInv, Files
<1>3. readAddressesFile' = [readAddressesFile EXCEPT ![branch] = @ + 1]
  BY <1>1, <1>2 DEF readAddressesFile, NextIndexes
<1>4. handed' \subseteq handed \cup
        {<<sessions[p].resume.mnemonic, branch, readAddressesFile[branch]>>}
  BY <1>1 DEF nextAddress
<1> QED
  BY <1>1, <1>3, <1>4

LEMMA NextAddressKeeps ==
    ASSUME FilesInv, AddressInv, NEW p \in Processes, nextAddress(p)
    PROVE  AddressInv' /\ AddressesKept
<1> DEFINE branch == sessions[p].branch
<1>1. \A q \in Processes : ~Deriving(q)'
  <2>1. Deriving(p) /\ sessions[p].resume.at = "up"
    BY DEF nextAddress, Deriving, FilesInv, SessionInv, SessionHolds
  <2>2. sessions' \in {[sessions EXCEPT ![p] = sessions[p].resume], [sessions EXCEPT ![p] = Off]}
    BY DEF nextAddress, Writes
  <2> QED
    BY <2>1, <2>2 DEF AddressInv, Deriving, FilesInv, SessionInv, Off
<1>2. CASE disk'.addresses = Torn
  BY <1>1, <1>2 DEF AddressInv, AddressesKept, Torn
<1>3. CASE disk'.addresses # Torn
  <2>1. /\ branch \in Branches
        /\ readAddressesFile' = [readAddressesFile EXCEPT ![branch] = @ + 1]
        /\ handed' \subseteq handed \cup
             {<<sessions[p].resume.mnemonic, branch, readAddressesFile[branch]>>}
    BY <1>3, CountersGrow
  <2>2. readAddressesFile \in [Branches -> Nat] /\ readAddressesFile' \in [Branches -> Nat]
    BY <2>1, CountersAreNatural
  <2>3. \A b \in Branches : readAddressesFile[b] <= readAddressesFile'[b]
    BY <2>1, <2>2
  <2>4. AddressInv'
    <3>1. disk'.addresses.state = "whole" => disk'.addresses.next = readAddressesFile'
      BY DEF readAddressesFile
    <3> QED
      BY <1>1, <2>2, <3>1 DEF AddressInv
  <2>5. ASSUME NEW address, findAddressIndex(address) PROVE findAddressIndex(address)'
    <3>1. PICK b \in Branches : \E i \in 0..(readAddressesFile[b] - 1) : address = <<address[1], b, i>>
      BY <2>5 DEF findAddressIndex, listWalletAddresses
    <3>2. 0..(readAddressesFile[b] - 1) \subseteq 0..(readAddressesFile'[b] - 1)
      BY <2>2, <2>3
    <3> QED
      BY <3>1, <3>2 DEF findAddressIndex, listWalletAddresses
  <2>6. PICK given : given = <<sessions[p].resume.mnemonic, branch, readAddressesFile[branch]>>
    OBVIOUS
  <2>7. findAddressIndex(given)'
    <3>1. readAddressesFile[branch] \in 0..(readAddressesFile'[branch] - 1)
      BY <2>1, <2>2
    <3>2. PICK b \in Branches : b = branch
      BY <2>1
    <3>3. \E i \in 0..(readAddressesFile'[b] - 1) : given = <<given[1], b, i>>
      BY <2>6, <3>1, <3>2
    <3> QED
      BY <3>3 DEF findAddressIndex, listWalletAddresses
  <2>8. handed' \subseteq handed \cup {given}
    BY <2>1, <2>6
  <2> QED
    BY <2>4, <2>5, <2>7, <2>8 DEF AddressesKept
<1> QED BY <1>2, <1>3

LEMMA DerivesKeeps ==
    ASSUME FilesInv, AddressInv, NEW p \in Processes, NEW branch \in Branches, Derives(p, branch)
    PROVE  AddressInv' /\ AddressesKept
<1>1. /\ \A q \in Processes : ~Deriving(q)
      /\ UNCHANGED <<disk, handed>>
      /\ sessions' = [sessions EXCEPT ![p] =
                        [at |-> "deriving", branch |-> branch, read |-> readAddressesFile,
                         resume |-> sessions[p]]]
  BY DEF Derives, Deriving
<1>2. readAddressesFile' = readAddressesFile
  BY <1>1 DEF readAddressesFile
<1>3. AddressInv'
  BY <1>1, <1>2 DEF AddressInv, Deriving, FilesInv, SessionInv
<1>4. \A address : findAddressIndex(address)' = findAddressIndex(address)
  BY <1>2 DEF findAddressIndex, listWalletAddresses
<1> QED
  BY <1>1, <1>3, <1>4 DEF AddressesKept

LEMMA NextKeepsAddresses == FilesInv /\ AddressInv /\ Next => AddressInv' /\ AddressesKept
<1> SUFFICES ASSUME FilesInv, AddressInv, Next PROVE AddressInv' /\ AddressesKept
  OBVIOUS
<1>1. PICK p \in Processes :
        \/ \E password \in Passwords :
             \/ loadWalletKey(p, password) \/ migrateLegacyMnemonic(p, password)
             \/ initForce(p, password)
             \/ \E mnemonic \in Mnemonics : createOrLoadKey(p, mnemonic, password)
        \/ writeVaultFile(p) \/ Migrated(p) \/ Replaces(p)
        \/ loadOrCreateCommKey(p) \/ writeCommKey(p) \/ CommKeyWritten(p)
        \/ \E then \in {"exit", "start", "tui"} : Onboarding(p, then)
        \/ \E branch \in Branches : Derives(p, branch)
        \/ nextAddress(p)
        \/ Exit(p)
  BY DEF Next
<1>2. ASSUME NEW branch \in Branches, Derives(p, branch) PROVE AddressInv' /\ AddressesKept
  BY <1>2, DerivesKeeps
<1>3. CASE nextAddress(p)
  BY <1>3, NextAddressKeeps
<1>4. CASE ~nextAddress(p) /\ ~\E branch \in Branches : Derives(p, branch)
  <2>1. AddressesStay
    BY <1>1, <1>4, OtherSteps
  <2> QED
    BY <2>1, StayingKeepsAddresses
<1> QED BY <1>2, <1>3, <1>4

(* An address that was handed out stays resolvable to its key, whatever the order in which
   processes derive addresses and rebuild the wallet, unless a crash tears the index file
   (nextExternalAddress, nextChangeAddress, findAddressIndex). *)
THEOREM AddressesStayResolvable == Spec => AddressesAreKept
<1>1. Init => AddressInv
  BY DEF Init, AddressInv, Deriving, Missing, Off
<1>2. AddressInv /\ UNCHANGED vars => AddressInv'
  BY DEF vars, AddressInv, Deriving, readAddressesFile
<1>3. FilesInv /\ AddressInv /\ [Next]_vars => AddressInv'
  BY <1>2, NextKeepsAddresses
<1>4. FilesInv /\ AddressInv /\ Next => AddressesKept
  BY NextKeepsAddresses
<1> QED
  BY <1>1, <1>3, <1>4, FilesInvariant, PTL DEF Spec, AddressesAreKept, AddressesKept

-----------------------------------------------------------------------------
(* Types *)

FileTyped(name, file, keys) ==
    /\ name \in {"vault", "vaultBak", "legacy", "legacyBak"} /\ file.state = "whole"
         => file.mnemonic \in Mnemonics
    /\ name \in {"vault", "vaultBak"} /\ file.state = "whole" => file.password \in Passwords
    /\ name = "comm" /\ file.state = "whole"
         => file.key \in keys /\ (file.v = 1 <=> file.password = NoPassword)

Wallet(session, keys) ==
    /\ session.at \in {"encrypting", "migrating", "loaded", "keying", "writing", "up"}
         => session.mnemonic \in Mnemonics
    /\ session.at = "encrypting" => session.password \in Passwords
    /\ session.at \in {"keying", "writing"} => session.key \in keys
    /\ session.at = "up" => session.key \in keys \cup {NoKey}
SessionTyped(session, keys) ==
    /\ Wallet(session, keys)
    /\ session.at = "deriving" => Wallet(session.resume, keys)

TypeInv ==
    /\ paired \subseteq CommKeys
    /\ \A name \in Files : FileTyped(name, disk[name], paired)
    /\ \A p \in Processes : SessionTyped(sessions[p], paired)

LEMMA TypedSession ==
    ASSUME FilesInv, TypeInv, NEW p \in Processes, NEW next, UNCHANGED <<disk, paired>>,
           SessionTyped(next, paired), sessions' = [sessions EXCEPT ![p] = next]
    PROVE  TypeInv'
BY DEF TypeInv, FilesInv, SessionInv

LEMMA TypedWrite ==
    ASSUME FilesInv, TypeInv, NEW p \in Processes, NEW file \in Files, NEW content, NEW next,
           paired \subseteq paired', paired' \subseteq CommKeys,
           FileTyped(file, content, paired'), SessionTyped(next, paired'),
           Writes(p, file, content, next)
    PROVE  TypeInv'
<1>1. PICK written \in {content, Torn}, after \in {next, Off} :
        /\ disk' = [disk EXCEPT ![file] = written]
        /\ sessions' = [sessions EXCEPT ![p] = after]
  BY DEF Writes
<1>2. FileTyped(file, written, paired') /\ SessionTyped(after, paired')
  BY DEF FileTyped, SessionTyped, Wallet, Torn, Off
<1>3. /\ \A name \in Files : FileTyped(name, disk[name], paired')
      /\ \A q \in Processes : SessionTyped(sessions[q], paired')
  BY DEF TypeInv, FileTyped, SessionTyped, Wallet
<1>4. /\ \A name \in Files : disk'[name] = IF name = file THEN written ELSE disk[name]
      /\ \A q \in Processes : sessions'[q] = IF q = p THEN after ELSE sessions[q]
  BY <1>1 DEF FilesInv, DiskInv, SessionInv
<1> QED
  BY <1>2, <1>3, <1>4 DEF TypeInv

LEMMA TypedFileMoves ==
    ASSUME FilesInv, TypeInv, UNCHANGED paired, NEW p \in Processes, NEW next,
           \/ disk' = [disk EXCEPT !.legacy = Missing, !.legacyBak = disk.legacy]
           \/ disk' = VaultToBackup(disk)
           \/ disk' = [disk EXCEPT !.comm = Torn]
           \/ disk' = disk,
           SessionTyped(next, paired), sessions' = [sessions EXCEPT ![p] = next]
    PROVE  TypeInv'
<1>1. \A name \in Files :
        \/ disk'[name] = disk[name] \/ disk'[name] = Missing \/ disk'[name] = Torn
        \/ name = "legacyBak" /\ disk'[name] = disk.legacy
        \/ name = "vaultBak" /\ disk'[name] = disk.vault
  BY DEF FilesInv, DiskInv, Files, VaultToBackup
<1>2. \A name \in Files : FileTyped(name, disk'[name], paired)
  BY <1>1 DEF TypeInv, FileTyped, Missing, Torn, Files
<1> QED
  BY <1>2 DEF TypeInv, FilesInv, SessionInv

LEMMA AfterIsTyped ==
    ASSUME NEW work, work.then \in {"exit", "start", "tui", "migrate"}, work.mnemonic \in Mnemonics
    PROVE  \A keys : SessionTyped(After(work), keys)
BY DEF After, Off, Loaded, SessionTyped, Wallet

LEMMA CreateIsTyped ==
    ASSUME FilesInv, TypeInv, NEW p \in Processes, NEW mnemonic \in Mnemonics,
           NEW password \in Passwords, createOrLoadKey(p, mnemonic, password)
    PROVE  TypeInv'
<1> DEFINE work == sessions[p]
           creating == Encrypting(mnemonic, password, work.then, work.seen)
           opened == Encrypting(disk.vault.mnemonic, password, work.then, work.seen)
<1>1. /\ work.then \in {"exit", "start", "tui"} /\ UNCHANGED paired
      /\ \/ /\ decrypts(password) /\ UNCHANGED disk
            /\ sessions' = [sessions EXCEPT ![p] = After(opened)]
         \/ /\ UNCHANGED disk
            /\ \/ sessions' = [sessions EXCEPT ![p] = work]
               \/ sessions' = [sessions EXCEPT ![p] = Off]
               \/ sessions' = [sessions EXCEPT ![p] = creating]
         \/ /\ disk' = [disk EXCEPT !.legacy = Missing, !.legacyBak = disk.legacy]
            /\ sessions' = [sessions EXCEPT ![p] = creating]
  BY DEF createOrLoadKey, FilesInv, SessionInv, SessionHolds
<1>2. SessionTyped(creating, paired) /\ SessionTyped(Off, paired) /\ SessionTyped(work, paired)
  BY DEF Encrypting, Off, SessionTyped, Wallet, TypeInv
<1>3. decrypts(password) => SessionTyped(After(opened), paired)
  <2> SUFFICES ASSUME decrypts(password) PROVE SessionTyped(After(opened), paired)
    OBVIOUS
  <2>1. disk.vault.mnemonic \in Mnemonics
    BY DEF TypeInv, FileTyped, decrypts, Files
  <2>2. opened.then \in {"exit", "start", "tui", "migrate"} /\ opened.mnemonic \in Mnemonics
    BY <1>1, <2>1 DEF Encrypting
  <2> HIDE DEF opened
  <2> QED
    BY <2>2, AfterIsTyped
<1> HIDE DEF creating, opened, work
<1> QED
  BY <1>1, <1>2, <1>3, TypedFileMoves

LEMMA MigrationIsTyped ==
    ASSUME FilesInv, TypeInv, NEW p \in Processes, NEW password \in Passwords,
           migrateLegacyMnemonic(p, password)
    PROVE  TypeInv'
<1> DEFINE next == Encrypting(disk.legacy.mnemonic, password, "migrate", disk.vault)
<1>1. disk.legacy.mnemonic \in Mnemonics
  BY DEF migrateLegacyMnemonic, hasLegacyMnemonic, FilesInv, DiskInv, TypeInv, FileTyped, Files
<1>2. SessionTyped(next, paired)
  BY <1>1 DEF SessionTyped, Wallet, Encrypting
<1>3. sessions' = [sessions EXCEPT ![p] = next] /\ UNCHANGED <<disk, paired>>
  BY DEF migrateLegacyMnemonic, Becomes
<1> HIDE DEF next
<1> QED
  BY <1>2, <1>3, TypedSession

LEMMA VaultIsTyped ==
    ASSUME FilesInv, TypeInv, NEW p \in Processes, writeVaultFile(p)
    PROVE  TypeInv'
<1> DEFINE work == sessions[p]
           content == Vault(work.mnemonic, work.password)
<1>1. work.mnemonic \in Mnemonics /\ work.password \in Passwords
  BY DEF writeVaultFile, TypeInv, SessionTyped, Wallet
<1>2. FileTyped("vault", content, paired)
  BY <1>1 DEF FileTyped, Vault
<1>3. SessionTyped(After(work), paired)
  <2>1. work.then \in {"exit", "start", "tui", "migrate"}
    BY DEF writeVaultFile, FilesInv, SessionInv, SessionHolds
  <2> QED
    BY <1>1, <2>1, AfterIsTyped
<1>4. Writes(p, "vault", content, After(work)) /\ UNCHANGED paired
  BY DEF writeVaultFile
<1> HIDE DEF content, work
<1> QED
  BY <1>2, <1>3, <1>4, TypedWrite DEF Files, TypeInv

LEMMA CommKeyIsTyped ==
    ASSUME FilesInv, TypeInv, NEW p \in Processes, loadOrCreateCommKey(p)
    PROVE  TypeInv'
<1>1. /\ sessions[p].at = "loaded" /\ sessions[p].mnemonic \in Mnemonics
      /\ ~KeyIsGone(disk.comm, sessions[p].password) => disk.comm.key \in paired
  BY DEF loadOrCreateCommKey, TypeInv, SessionTyped, Wallet, FileTyped, KeyIsGone, Files
<1>2. /\ \A keys : \A key \in keys \cup {NoKey} : SessionTyped(Up(p, key), keys)
      /\ \A keys : \A key \in keys : SessionTyped(Keying(p, key), keys)
  BY <1>1 DEF SessionTyped, Wallet, Up, Keying
<1>3. ASSUME NEW key \in CommKeys \ paired, paired' = paired \cup {key}, UNCHANGED disk,
             sessions' = [sessions EXCEPT ![p] = Keying(p, key)]
      PROVE  TypeInv'
  <2>1. paired' \subseteq CommKeys /\ SessionTyped(Keying(p, key), paired')
    BY <1>2, <1>3 DEF TypeInv
  <2>2. /\ \A name \in Files : FileTyped(name, disk[name], paired')
        /\ \A q \in Processes : SessionTyped(sessions[q], paired')
    BY <1>3 DEF TypeInv, FileTyped, SessionTyped, Wallet
  <2>3. \A q \in Processes : sessions'[q] = IF q = p THEN Keying(p, key) ELSE sessions[q]
    BY <1>3 DEF FilesInv, SessionInv
  <2> QED
    BY <1>3, <2>1, <2>2, <2>3 DEF TypeInv
<1>4. ASSUME UNCHANGED <<disk, paired>>,
             \/ \E key \in paired \cup {NoKey} : sessions' = [sessions EXCEPT ![p] = Up(p, key)]
             \/ \E key \in paired : sessions' = [sessions EXCEPT ![p] = Keying(p, key)]
      PROVE  TypeInv'
  BY <1>2, <1>4, TypedSession
<1> QED
  BY <1>1, <1>3, <1>4 DEF loadOrCreateCommKey

LEMMA KeyFileIsTyped ==
    ASSUME FilesInv, TypeInv, NEW p \in Processes, writeCommKey(p) \/ CommKeyWritten(p)
    PROVE  TypeInv'
<1> DEFINE work == sessions[p]
<1>1. work.mnemonic \in Mnemonics /\ work.key \in paired
  BY DEF writeCommKey, CommKeyWritten, TypeInv, SessionTyped, Wallet
<1>2. CASE writeCommKey(p)
  <2> DEFINE next == [work EXCEPT !.at = "writing"]
  <2>1. SessionTyped(next, paired)
    BY <1>1, <1>2 DEF writeCommKey, SessionTyped, Wallet
  <2>2. /\ UNCHANGED paired /\ disk' = [disk EXCEPT !.comm = Torn]
        /\ sessions' = [sessions EXCEPT ![p] = next]
    BY <1>2 DEF writeCommKey
  <2> HIDE DEF next
  <2> QED
    BY <2>1, <2>2, TypedFileMoves
<1>3. CASE CommKeyWritten(p)
  <2>1. FileTyped("comm", Protected(work.key, work.password), paired)
    BY <1>1 DEF FileTyped, Protected, CommFile
  <2>2. SessionTyped(Up(p, work.key), paired)
    BY <1>1 DEF SessionTyped, Wallet, Up
  <2> QED
    BY <1>3, <2>1, <2>2, TypedWrite DEF CommKeyWritten, Files, TypeInv
<1> QED BY <1>2, <1>3

LEMMA NextIsTyped == FilesInv /\ TypeInv /\ Next => TypeInv'
<1> SUFFICES ASSUME FilesInv, TypeInv, Next PROVE TypeInv'
  OBVIOUS
<1>1. ASSUME NEW p \in Processes, NEW password \in Passwords, loadWalletKey(p, password)
      PROVE  TypeInv'
  <2>1. disk.vault.mnemonic \in Mnemonics
    BY <1>1 DEF loadWalletKey, decrypts, TypeInv, FileTyped, Files
  <2>2. SessionTyped(Loaded(disk.vault.mnemonic, password), paired)
    BY <2>1 DEF SessionTyped, Wallet, Loaded
  <2> QED
    BY <1>1, <2>2, TypedSession DEF loadWalletKey, Becomes
<1>2. ASSUME NEW p \in Processes, NEW password \in Passwords, initForce(p, password)
      PROVE  TypeInv'
  <2> DEFINE next == IF hasVault THEN [at |-> "replacing", seen |-> disk.vault]
                     ELSE Prompting(TRUE, "exit", disk.vault)
  <2>1. SessionTyped(next, paired)
    BY DEF Prompting, SessionTyped, Wallet
  <2>2. UNCHANGED <<disk, paired>> /\ sessions' = [sessions EXCEPT ![p] = next]
    BY <1>2 DEF initForce
  <2> HIDE DEF next
  <2> QED
    BY <2>1, <2>2, TypedSession
<1>3. ASSUME NEW p \in Processes, Replaces(p) PROVE TypeInv'
  <2> DEFINE next == Prompting(TRUE, "exit", disk'.vault)
  <2>1. SessionTyped(next, paired)
    BY DEF Prompting, SessionTyped, Wallet
  <2>2. /\ UNCHANGED paired /\ disk' = VaultToBackup(disk)
        /\ sessions' = [sessions EXCEPT ![p] = next]
    BY <1>3 DEF Replaces
  <2> HIDE DEF next
  <2> QED
    BY <2>1, <2>2, TypedFileMoves
<1>4. ASSUME NEW p \in Processes, Migrated(p) PROVE TypeInv'
  <2> DEFINE next == Loaded(sessions[p].mnemonic, sessions[p].password)
  <2>1. SessionTyped(next, paired)
    BY <1>4 DEF Migrated, Loaded, SessionTyped, Wallet, TypeInv
  <2>2. /\ UNCHANGED paired /\ sessions' = [sessions EXCEPT ![p] = next]
        /\ disk' = [disk EXCEPT !.legacy = Missing, !.legacyBak = disk.legacy]
    BY <1>4 DEF Migrated, FilesInv, SessionInv
  <2> HIDE DEF next
  <2> QED
    BY <2>1, <2>2, TypedFileMoves
<1>5. ASSUME NEW p \in Processes, NEW then \in {"exit", "start", "tui"}, Onboarding(p, then)
      PROVE  TypeInv'
  BY <1>5, TypedSession DEF Onboarding, Becomes, Prompting, SessionTyped, Wallet
<1>6. ASSUME NEW p \in Processes, NEW branch \in Branches, Derives(p, branch) PROVE TypeInv'
  BY <1>6, TypedSession DEF Derives, SessionTyped, Wallet, TypeInv
<1>7. ASSUME NEW p \in Processes, nextAddress(p) PROVE TypeInv'
  <2>1. SessionTyped(sessions[p].resume, paired)
    BY <1>7 DEF nextAddress, TypeInv, SessionTyped, Wallet, FilesInv, SessionInv, SessionHolds
  <2>2. \A content : FileTyped("addresses", content, paired)
    BY DEF FileTyped
  <2> QED
    BY <1>7, <2>1, <2>2, TypedWrite DEF nextAddress, Files, TypeInv
<1>8. ASSUME NEW p \in Processes, Exit(p) PROVE TypeInv'
  BY <1>8, TypedSession DEF Exit, Becomes, Off, SessionTyped, Wallet
<1> QED
  BY <1>1, <1>2, <1>3, <1>4, <1>5, <1>6, <1>7, <1>8, CreateIsTyped, MigrationIsTyped, VaultIsTyped,
     CommKeyIsTyped, KeyFileIsTyped DEF Next

(* What the files hold and the sessions know: mnemonics, passwords and generated keys, and a
   key file is unprotected exactly when no password protects it. *)
THEOREM FilesAreTyped == Spec => []TypeOK
<1>1. Init => TypeInv
  BY DEF Init, TypeInv, FileTyped, SessionTyped, Wallet, Missing, Plaintext, Off, Files
<1>2. TypeInv /\ UNCHANGED vars => TypeInv'
  BY DEF vars, TypeInv
<1>3. FilesInv /\ TypeInv => TypeOK
  BY DEF TypeOK, TypeInv, FilesInv, DiskInv, Files, FileTyped, SessionTyped, Wallet
<1> QED
  BY <1>1, <1>2, <1>3, NextIsTyped, FilesInvariant, PTL DEF Spec
=============================================================================
