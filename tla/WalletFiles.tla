---------------------------- MODULE WalletFiles ----------------------------
(***************************************************************************)
(* The data directory of a wallet and the processes that share it: the     *)
(* vault with the mnemonic, the plaintext file of earlier versions, their  *)
(* backups, the index of derived addresses and the communication key       *)
(* (keys/*.ts, cli/onboardPrompt.ts, tui/Onboarding.tsx, and the startup   *)
(* and init paths of index.tsx).                                           *)
(*                                                                         *)
(* A file is missing, torn by a crash while it was written, or whole.  A   *)
(* mnemonic, a password and a key pair are model values: a vault opens     *)
(* with the password it was written with.  A process looks at the files in *)
(* one step and writes, after a password was asked for or a key derived    *)
(* from it, in another: the other processes get between the two, and       *)
(* "seen" is what the process found when it looked.                        *)
(***************************************************************************)
EXTENDS Naturals, FiniteSets

CONSTANTS
    Processes,      \* wallet processes on the data directory
    Mnemonics,
    Passwords,
    NoPassword,     \* a session started by the full-screen onboarding keeps none
    CommKeys,
    NoKey,
    MaxIndex,       \* bound on addresses derived per branch
    MaxCrashes,     \* bound on crashes in the middle of a write
    MaxRebuilds     \* bound on forced rebuilds

ASSUME FilesAssumption ==
    /\ NoPassword \notin Passwords /\ NoKey \notin CommKeys
    /\ MaxIndex \in Nat \ {0}

VARIABLES
    disk,           \* file -> content
    sessions,       \* process -> what it is doing
    handed,         \* addresses given to the user: <<mnemonic, branch, index>>
    paired,         \* communication keys ever generated
    crashes, rebuilds

vars == <<disk, sessions, handed, paired, crashes, rebuilds>>
bounds == <<crashes, rebuilds>>

Branches == {"external", "change"}

Missing == [state |-> "missing"]
Torn == [state |-> "torn"]
Vault(mnemonic, password) == [state |-> "whole", mnemonic |-> mnemonic, password |-> password]
Plaintext(mnemonic) == [state |-> "whole", mnemonic |-> mnemonic]
CommFile(version, key, password) ==
    [state |-> "whole", v |-> version, key |-> key, password |-> password]

Off == [at |-> "off"]
Loaded(mnemonic, password) == [at |-> "loaded", mnemonic |-> mnemonic, password |-> password]

hasVault == disk.vault.state # "missing"
hasLegacyMnemonic == disk.legacy.state # "missing"
decrypts(password) == disk.vault.state = "whole" /\ disk.vault.password = password

Init ==
    /\ disk \in {[vault |-> Missing, vaultBak |-> Missing, legacy |-> legacy,
                  legacyBak |-> Missing, addresses |-> Missing, comm |-> Missing] :
                   legacy \in {Missing} \cup {Plaintext(m) : m \in Mnemonics}}
    /\ sessions = [p \in Processes |-> Off]
    /\ handed = {} /\ paired = {}
    /\ crashes = 0 /\ rebuilds = 0

(* writeFileSync: the file is whole and the process goes on, or torn and the process gone. *)
Writes(p, file, content, next) ==
    \/ /\ disk' = [disk EXCEPT ![file] = content]
       /\ sessions' = [sessions EXCEPT ![p] = next]
       /\ UNCHANGED bounds
    \/ /\ crashes < MaxCrashes
       /\ disk' = [disk EXCEPT ![file] = Torn]
       /\ sessions' = [sessions EXCEPT ![p] = Off]
       /\ crashes' = crashes + 1
       /\ UNCHANGED rebuilds

-----------------------------------------------------------------------------
(* Loading a wallet, and the migration of a plaintext file *)

Becomes(p, next) ==
    /\ sessions' = [sessions EXCEPT ![p] = next]
    /\ UNCHANGED <<disk, handed, paired, bounds>>

(* A wrong password changes nothing. *)
loadWalletKey(p, password) ==
    /\ sessions[p] = Off /\ decrypts(password)
    /\ Becomes(p, Loaded(disk.vault.mnemonic, password))

(* The vault is about to be written: scrypt takes its time.  "then": what comes after. *)
Encrypting(mnemonic, password, then, seen) ==
    [at |-> "encrypting", mnemonic |-> mnemonic, password |-> password,
     then |-> then, seen |-> seen]

(* A full-screen session does not learn the password, and init is done. *)
After(work) ==
    CASE work.then = "exit"    -> Off
      [] work.then = "start"   -> Loaded(work.mnemonic, work.password)
      [] work.then = "tui"     -> Loaded(work.mnemonic, NoPassword)
      [] work.then = "migrate" -> [at |-> "migrating", mnemonic |-> work.mnemonic,
                                   password |-> work.password]

(* Nothing is looked at again. *)
writeVaultFile(p) ==
    LET work == sessions[p]
    IN  /\ work.at = "encrypting"
        /\ Writes(p, "vault", Vault(work.mnemonic, work.password), After(work))
        /\ UNCHANGED <<handed, paired>>

(* migrateLegacyMnemonic: the vault first, then the plaintext is moved out of the way. *)
migrateLegacyMnemonic(p, password) ==
    /\ sessions[p] = Off /\ ~hasVault /\ hasLegacyMnemonic
    /\ Becomes(p, Encrypting(disk.legacy.mnemonic, password, "migrate", disk.vault))

Migrated(p) ==
    /\ sessions[p].at = "migrating" /\ hasLegacyMnemonic
    /\ disk' = [disk EXCEPT !.legacy = Missing, !.legacyBak = disk.legacy]
    /\ sessions' = [sessions EXCEPT ![p] = Loaded(@.mnemonic, @.password)]
    /\ UNCHANGED <<handed, paired, bounds>>

(* Mutant: a key file that does not open counts as gone. *)
KeyIsGone_OrClosed(file, password) ==
    file.state = "whole" => file.v = 2 /\ file.password # password
(* A missing or torn key file is replaced; one that does not open never is. *)
KeyIsGone(file, password) == file.state # "whole"

(* A session with a password encrypts the key file. *)
Protected(key, password) == CommFile(IF password = NoPassword THEN 1 ELSE 2, key, password)

Up(p, key) ==
    [at |-> "up", mnemonic |-> sessions[p].mnemonic, password |-> sessions[p].password, key |-> key]

(* The look: an unprotected key is to be encrypted when there is a password; one that does
   not open leaves the session without a key.  A file that another process is just writing
   reads as torn. *)
Keying(p, key) ==
    [at |-> "keying", mnemonic |-> sessions[p].mnemonic, password |-> sessions[p].password,
     key |-> key, seen |-> disk.comm]

loadOrCreateCommKey(p) ==
    LET file     == disk.comm
        password == sessions[p].password
        gone     == KeyIsGone(file, password)
        open     == ~gone /\ file.v = 1
    IN  /\ sessions[p].at = "loaded"
        /\ \/ /\ gone
              /\ \E key \in CommKeys \ paired :
                   /\ paired' = paired \cup {key}
                   /\ sessions' = [sessions EXCEPT ![p] = Keying(p, key)]
           \/ /\ open /\ password # NoPassword
              /\ sessions' = [sessions EXCEPT ![p] = Keying(p, file.key)]
              /\ UNCHANGED paired
           \/ /\ ~gone /\ ~(open /\ password # NoPassword)
              /\ sessions' = [sessions EXCEPT ![p] =
                                Up(p, IF open \/ file.password = password
                                      THEN file.key ELSE NoKey)]
              /\ UNCHANGED paired
        /\ UNCHANGED <<disk, handed, bounds>>

(* writeCommKey: writeFileSync empties the file, whatever it has become meanwhile, ... *)
writeCommKey(p) ==
    /\ sessions[p].at = "keying"
    /\ disk' = [disk EXCEPT !.comm = Torn]
    /\ sessions' = [sessions EXCEPT ![p].at = "writing"]
    /\ UNCHANGED <<handed, paired, bounds>>

(* ... and then fills it, unless a crash comes first. *)
CommKeyWritten(p) ==
    LET work == sessions[p]
    IN  /\ work.at = "writing"
        /\ Writes(p, "comm", Protected(work.key, work.password), Up(p, work.key))
        /\ UNCHANGED <<handed, paired>>

-----------------------------------------------------------------------------
(* Creating a wallet: onboarding, init and init --force *)

(* The user is asked for a password, and for a mnemonic or to keep a new one. *)
Prompting(forced, then, seen) ==
    [at |-> "prompting", forced |-> forced, then |-> then, seen |-> seen]

Onboarding(p, then) ==
    /\ sessions[p] = Off /\ ~hasVault /\ ~hasLegacyMnemonic
    /\ Becomes(p, Prompting(FALSE, then, disk.vault))

(* init --force: whoever knows the password may replace the vault, ... *)
initForce(p, password) ==
    /\ sessions[p] = Off /\ rebuilds < MaxRebuilds
    /\ hasVault => decrypts(password)
    /\ rebuilds' = rebuilds + 1
    /\ sessions' = [sessions EXCEPT ![p] =
                      IF hasVault THEN [at |-> "replacing", seen |-> disk.vault]
                      ELSE Prompting(TRUE, "exit", disk.vault)]
    /\ UNCHANGED <<disk, handed, paired, crashes>>

(* Mutant: init --force leaves the old vault where the new one is written. *)
VaultToBackup_InPlace(files) == files
(* ... which becomes the backup. *)
VaultToBackup(files) == [files EXCEPT !.vault = Missing, !.vaultBak = files.vault]
Replaces(p) ==
    /\ sessions[p].at = "replacing" /\ hasVault
    /\ disk' = VaultToBackup(disk)
    /\ sessions' = [sessions EXCEPT ![p] = Prompting(TRUE, "exit", disk'.vault)]
    /\ UNCHANGED <<handed, paired, bounds>>

(* createOrLoadKey with the answers: an unforced one looks for a vault again, a forced one
   moves a plaintext file away. *)
createOrLoadKey(p, mnemonic, password) ==
    LET work     == sessions[p]
        creating == Encrypting(mnemonic, password, work.then, work.seen)
    IN  /\ work.at = "prompting"
        /\ \/ /\ ~work.forced /\ hasVault /\ decrypts(password)
              /\ sessions' = [sessions EXCEPT ![p] =
                                After(Encrypting(disk.vault.mnemonic, password, work.then, work.seen))]
              /\ UNCHANGED disk
           \/ /\ ~work.forced /\ hasVault /\ ~decrypts(password)
              /\ sessions' = [sessions EXCEPT ![p] = IF @.then = "tui" THEN @ ELSE Off]
              /\ UNCHANGED disk
           \/ /\ ~work.forced /\ ~hasVault
              /\ sessions' = [sessions EXCEPT ![p] = creating]
              /\ UNCHANGED disk
           \/ /\ work.forced
              /\ disk' = IF ~hasVault /\ hasLegacyMnemonic
                         THEN [disk EXCEPT !.legacy = Missing, !.legacyBak = disk.legacy]
                         ELSE disk
              /\ sessions' = [sessions EXCEPT ![p] = creating]
        /\ UNCHANGED <<handed, paired, bounds>>

(* The user cancels, mistypes, stops the program; or it is killed. *)
Exit(p) == sessions[p].at \notin {"off", "writing"} /\ Becomes(p, Off)

-----------------------------------------------------------------------------
(* Derived addresses *)

readAddressesFile ==
    IF disk.addresses.state = "whole" THEN disk.addresses.next
    ELSE [branch \in Branches |-> 1]

(* Bound: two processes do not derive at the same moment. *)
Derives(p, branch) ==
    /\ sessions[p].at = "up"
    /\ \A q \in Processes : sessions[q].at # "deriving"
    /\ readAddressesFile[branch] < MaxIndex
    /\ sessions' = [sessions EXCEPT ![p] =
                      [at |-> "deriving", branch |-> branch, read |-> readAddressesFile,
                       resume |-> sessions[p]]]
    /\ UNCHANGED <<disk, handed, paired, bounds>>

(* Mutant: the counter of the other branch is left out of the file. *)
NextIndexes_OneBranch(read, branch) ==
    [b \in Branches |-> IF b = branch THEN read[b] + 1 ELSE 1]
NextIndexes(read, branch) == [read EXCEPT ![branch] = @ + 1]

(* nextExternalAddress and nextChangeAddress. *)
nextAddress(p) ==
    LET work == sessions[p]
    IN  /\ work.at = "deriving"
        /\ Writes(p, "addresses",
                  [state |-> "whole", next |-> NextIndexes(work.read, work.branch)], work.resume)
        /\ handed' = IF crashes' = crashes
                     THEN handed \cup {<<work.resume.mnemonic, work.branch, work.read[work.branch]>>}
                     ELSE handed
        /\ UNCHANGED paired

(* Every derived address of a wallet: the counters say how many of each branch there are. *)
listWalletAddresses(mnemonic) ==
    UNION {{<<mnemonic, branch, i>> : i \in 0..(readAddressesFile[branch] - 1)} : branch \in Branches}

(* An address is resolved to its key only within the derived range. *)
findAddressIndex(address) == address \in listWalletAddresses(address[1])

-----------------------------------------------------------------------------
Next ==
    \E p \in Processes :
      \/ \E password \in Passwords :
           \/ loadWalletKey(p, password) \/ migrateLegacyMnemonic(p, password)
           \/ initForce(p, password)
           \/ \E mnemonic \in Mnemonics : createOrLoadKey(p, mnemonic, password)
      \/ writeVaultFile(p) \/ Migrated(p) \/ Replaces(p)
      \/ loadOrCreateCommKey(p) \/ writeCommKey(p) \/ CommKeyWritten(p)
      \/ \E then \in {"exit", "start", "tui"} : Onboarding(p, then)
      \/ \E branch \in Branches : Derives(p, branch)
      \/ nextAddress(p)
      \/ Exit(p)

Spec == Init /\ [][Next]_vars

-----------------------------------------------------------------------------
(* Properties *)

Holds(files, mnemonic) ==
    \E name \in {"vault", "vaultBak", "legacy", "legacyBak"} :
      files[name].state = "whole" /\ files[name].mnemonic = mnemonic

TypeOK ==
    /\ DOMAIN disk = {"vault", "vaultBak", "legacy", "legacyBak", "addresses", "comm"}
    /\ \A name \in {"vault", "vaultBak"} :
         disk[name].state = "whole" => disk[name].mnemonic \in Mnemonics /\ disk[name].password \in Passwords
    /\ disk.comm.state = "whole" => (disk.comm.v = 1 <=> disk.comm.password = NoPassword)
    /\ paired \subseteq CommKeys
    /\ \A p \in Processes :
         sessions[p].at = "up" => sessions[p].mnemonic \in Mnemonics /\ sessions[p].key \in paired \cup {NoKey}

(* A process acts on a vault that is not what it found, or left, when it looked. *)
Overtaken(p) == /\ sessions[p].at \in {"replacing", "encrypting"}
                /\ sessions[p].seen # disk.vault

(* No step takes the last copy of a mnemonic off the disk, crashes in the middle of a write
   or a migration included, except that a second forced rebuild replaces the backup of the
   first, and that a process may write over a vault that another one wrote since it looked
   (initWallet, createOrLoadKey, migrateLegacyMnemonic). *)
LostOnlyFromBackup ==
    [][\A m \in Mnemonics :
         Holds(disk, m) /\ ~Holds(disk', m) =>
           \/ /\ ~Holds([disk EXCEPT !.vaultBak = Missing], m)
              /\ disk.vault.state = "whole" /\ disk'.vaultBak = disk.vault
           \/ \E p \in Processes : Overtaken(p) /\ sessions'[p] # sessions[p]]_vars

(* A communication key that can be read from its file stays the key of that file: restarts,
   a rebuilt wallet with another password and sessions without a password never replace it,
   or the public key registered with a game would stop working; only a process that looked
   before the key was written does (loadOrCreateCommKey). *)
CommKeyIsStable ==
    [][disk.comm.state = "whole" /\ disk'.comm # disk.comm =>
         \E p \in Processes :
           /\ sessions[p].at \in {"keying", "writing"} /\ sessions'[p] # sessions[p]
           /\ sessions[p].key = disk.comm.key \/ sessions[p].seen # disk.comm]_vars

(* An address that was handed out stays resolvable to its key, whatever the order in which
   processes derive receive and change addresses and rebuild the wallet, unless a crash
   tears the index file itself (nextExternalAddress, findAddressIndex). *)
AddressesAreKept ==
    [][\A address \in handed' :
         address \notin handed \/ findAddressIndex(address)
           => findAddressIndex(address)' \/ disk'.addresses = Torn]_vars

-----------------------------------------------------------------------------
(* What comments and messages of the code say, and two processes refute *)

(* index.tsx: "Wallet already exists: ... (unchanged; pass --force to rebuild)": while nobody
   rebuilds by force, a vault keeps its mnemonic. *)
ExistingVaultIsUnchanged ==
    [][rebuilds = 0 /\ disk.vault.state = "whole" /\ disk'.vault.state = "whole"
         => disk'.vault.mnemonic = disk.vault.mnemonic]_vars

(* commKey.ts: "never silently rebuild, otherwise registered public keys become invalid":
   while nothing crashes, the key of a running session is the one its file holds. *)
RegisteredKeysStayValid ==
    crashes = 0 /\ disk.comm.state = "whole" =>
      \A p \in Processes :
        sessions[p].at = "up" /\ sessions[p].key # NoKey => sessions[p].key = disk.comm.key
=============================================================================
