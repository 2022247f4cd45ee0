-------------------------- MODULE WalletLifecycle --------------------------
(***************************************************************************)
(* A running wallet process and the ways it ends: a signal, the front end, *)
(* the stop command, an update that was installed, the stop method of the  *)
(* wallet RPC (index.tsx, rpc/lifecycle.ts, core/walletCore.ts stop,       *)
(* updater/updateActions.ts).                                              *)
(*                                                                         *)
(* stop() closes the connections and the database and emits "shutdown",    *)
(* whose listener stops the servers and leaves the process: it is one      *)
(* step, and a second call finds it done.                                  *)
(***************************************************************************)
EXTENDS Naturals

CONSTANTS
    VERSION,        \* version of the program: [major, minor, patch]
    LatestVersions, \* what the lookup may find
    NoVersion       \* the lookup failed

VARIABLE running    \* the process is up

lifecycle == <<running>>

exit == running' = FALSE

(* SIGINT and SIGTERM; the stop method of the RPC, whose timer runs 50 ms after the answer. *)
Signal == running /\ exit
RpcStop == running /\ exit

(* What a newer version is: "major", or "minor" for a higher minor or patch number.  A version
   that does not parse, or cannot be looked up, is none. *)
classifyUpdate(current, latest) ==
    IF NoVersion \in {current, latest} THEN "none"
    ELSE IF latest.major > current.major THEN "major"
    ELSE IF /\ latest.major = current.major
            /\ \/ latest.minor > current.minor
               \/ latest.minor = current.minor /\ latest.patch > current.patch
         THEN "minor"
    ELSE "none"

(* applyUpdate re-runs the installer only where the installer put the program; the caller
   then stops the wallet. *)
applyUpdate(latest, installedByInstaller) ==
    classifyUpdate(VERSION, latest) # "none" /\ installedByInstaller
=============================================================================
