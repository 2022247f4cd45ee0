--------------------------- MODULE WalletConsole ---------------------------
(***************************************************************************)
(* The line console of the wallet (cli/consoleSession.ts): lines from the  *)
(* terminal become commands, and the log lines of the wallet are held back *)
(* while the user types or a command runs and shown in the quiet gaps.     *)
(*                                                                         *)
(* The handler of a line checks that nothing runs, yields once, and only   *)
(* then marks itself busy, so the lines of one paste all pass the check.   *)
(* A microtask (the yield, the flush of a batch) runs before the next      *)
(* event.  No command of the console asks for a secret: the session keeps  *)
(* the password the wallet was opened with.                                *)
(***************************************************************************)
EXTENDS WalletLifecycle, Sequences, SequencesExt

CONSTANTS
    Paste,          \* bound on the lines of one event
    MaxHandlers,    \* bound on line handlers under way
    MaxLogs         \* bound on log lines

VARIABLES
    handlers,       \* line handlers under way: "yield", then the command they run
    busy, typing, subscribed,
    pushed,         \* log lines written so far
    batch,          \* the lines held back
    scheduled,      \* a flush is queued as a microtask
    shown           \* the lines on the screen

console == <<handlers, busy, typing, subscribed, pushed, batch, scheduled, shown>>

ConsoleInit ==
    /\ handlers = <<>> /\ busy = FALSE /\ typing = FALSE /\ subscribed = TRUE
    /\ pushed = 0 /\ batch = <<>> /\ scheduled = FALSE /\ shown = <<>>

(* isQuiet with the busy flag of the moment. *)
isQuiet(isBusy) == isBusy \/ typing

(* Mutant: the lines of a quiet period are not kept for the next flush. *)
flush_Drops(isBusy) ==
    /\ scheduled' = FALSE
    /\ batch' = <<>>
    /\ shown' = IF isQuiet(isBusy) THEN shown ELSE shown \o batch
flush(isBusy) ==
    /\ scheduled' = FALSE
    /\ batch' = IF isQuiet(isBusy) THEN batch ELSE <<>>
    /\ shown' = IF isQuiet(isBusy) THEN shown ELSE shown \o batch

microtask == scheduled \/ \E i \in DOMAIN handlers : handlers[i] = "yield"

-----------------------------------------------------------------------------
(* Log lines *)

push ==
    /\ subscribed /\ pushed < MaxLogs
    /\ pushed' = pushed + 1
    /\ batch' = Append(batch, pushed + 1)
    /\ scheduled' = TRUE
    /\ UNCHANGED <<handlers, busy, typing, subscribed, shown, lifecycle>>

Flush ==
    /\ scheduled /\ flush(busy)
    /\ UNCHANGED <<handlers, busy, typing, subscribed, pushed, lifecycle>>

-----------------------------------------------------------------------------
(* Lines *)

Types ==
    /\ subscribed /\ typing' = ~typing
    /\ UNCHANGED <<handlers, busy, subscribed, pushed, batch, scheduled, shown, lifecycle>>

(* The line event of each line that came in: dropped while a command runs. *)
EnterLines ==
    /\ subscribed
    /\ typing' = FALSE
    /\ \E n \in 1..Paste :
         /\ Len(handlers) + n <= MaxHandlers
         /\ handlers' = IF busy THEN handlers ELSE handlers \o [i \in 1..n |-> "yield"]
    /\ UNCHANGED <<busy, subscribed, pushed, batch, scheduled, shown, lifecycle>>

(* routeConsoleInput *)
Routes == {"skip", "exit", "stop", "command"}

(* After the yield: the logs of the typing are shown, and the line is fed to the session.
   "exit" ends the session, "stop" the wallet; either leaves the process. *)
runConsoleCommand(i) ==
    /\ handlers[i] = "yield"
    /\ \A j \in DOMAIN handlers : j < i => handlers[j] # "yield"
    /\ flush(busy)
    /\ \E route \in Routes :
         /\ handlers' = [handlers EXCEPT ![i] = route]
         /\ busy' = TRUE
         /\ IF route \in {"exit", "stop"} THEN exit ELSE UNCHANGED lifecycle
    /\ UNCHANGED <<typing, subscribed, pushed>>

(* The command's end shows what was held back. *)
CommandDone(i) ==
    /\ handlers[i] # "yield"
    /\ busy' = FALSE
    /\ flush(FALSE)
    /\ handlers' = RemoveAt(handlers, i)
    /\ UNCHANGED <<typing, subscribed, pushed, lifecycle>>

(* Ctrl+D closes the session. *)
Close ==
    /\ subscribed /\ subscribed' = FALSE
    /\ exit
    /\ UNCHANGED <<handlers, busy, typing, pushed, batch, scheduled, shown>>

-----------------------------------------------------------------------------
ConsoleNext ==
    /\ running
    /\ \/ Flush \/ \E i \in DOMAIN handlers : runConsoleCommand(i)
       \/ /\ ~microtask
          /\ push \/ Types \/ EnterLines \/ Close \/ \E i \in DOMAIN handlers : CommandDone(i)

-----------------------------------------------------------------------------
(* Properties *)

(* What the console showed and what it holds back are all the log lines so far, in order:
   lines that arrive in a quiet period, in the middle of a flush or while two pasted
   commands run are neither lost nor shown twice (createLogPresenter, flushPendingLogs). *)
LogsKeepOrder == shown \o batch = [i \in 1..pushed |-> i]
=============================================================================
