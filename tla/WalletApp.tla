----------------------------- MODULE WalletApp -----------------------------
(***************************************************************************)
(* A wallet process with the front end it was started with: the full       *)
(* screen, the console, or none for a daemon (index.tsx main, startWallet, *)
(* startConsole).  The front ends share the process and the ways it ends.  *)
(***************************************************************************)
EXTENDS WalletShell, WalletConsole

VARIABLE frontEnd

vars == <<frontEnd, lifecycle, shell, console>>

(* main: "start" is full-screen, "console" the line console, "daemon" neither. *)
Init ==
    /\ frontEnd \in {"tui", "console", "daemon"}
    /\ running = TRUE /\ ShellInit /\ ConsoleInit

Next ==
    /\ \/ frontEnd = "tui" /\ ShellNext /\ UNCHANGED console
       \/ frontEnd = "console" /\ ConsoleNext /\ UNCHANGED shell
       \/ (Signal \/ RpcStop) /\ UNCHANGED <<shell, console>>
    /\ UNCHANGED frontEnd

Spec == Init /\ [][Next]_vars
=============================================================================
