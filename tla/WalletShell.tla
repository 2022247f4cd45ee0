---------------------------- MODULE WalletShell ----------------------------
(***************************************************************************)
(* The full-screen front end of the wallet: the keyboard reducer           *)
(* (tui/inputReducer.ts), the mouse, the send form, dialogs and prompts of *)
(* tui/App.tsx, and the commands it runs (commands/*.ts).                  *)
(*                                                                         *)
(* An event is handled against the state last rendered; transfers,         *)
(* transaction lookups and commands complete between events, in any order. *)
(* The content of a field or of the command line is reduced to whether     *)
(* there is any; scrolling, languages and the layout are left out.         *)
(***************************************************************************)
EXTENDS WalletLifecycle, Sequences, SequencesExt

CONSTANTS
    TABS,           \* the views, in order
    MAX_RECIPIENTS,
    Slots,          \* bound on commands started
    None

ASSUME NoneIsNoDialog == None # "send"

VARIABLES
    ui,             \* mode, view, focus, row, recipients and command line
    dialog,         \* "send", "password" or "notice", or None
    dialogSel,      \* its selected button; opening a dialog selects "confirm"
    ask,            \* the pending prompt: the command that asks and the type, or None
    commands,       \* slot -> what the command does
    transfers,      \* transfers of the send form in flight
    lookups         \* transaction lookups in flight

shell == <<ui, dialog, dialogSel, ask, commands, transfers, lookups>>
form == <<dialog, dialogSel, ask, commands, transfers, lookups>>

Fields == {"to", "amount", "fee"}
BUTTON_ORDER == <<"sendBtn", "resetBtn", "addRow", "delRow">>
Buttons == {"sendBtn", "resetBtn", "addRow", "delRow"}
Lines == {"send", "resync", "update", "stop", "query"}

EmptyRecipient == [address |-> FALSE, amount |-> FALSE]
emptySendDraft == <<EmptyRecipient>>
complete(recipient) == recipient.address /\ recipient.amount

Idle == [line |-> None, at |-> "idle"]
Submitted == [line |-> None, at |-> "submitted"]    \* only its end is left

ShellInit ==
    /\ \E mode \in {"command", "mouse"} :
         ui = [mode |-> mode, view |-> TABS[1], focus |-> "command", row |-> 1,
               recipients |-> emptySendDraft, text |-> FALSE]
    /\ dialog = None /\ dialogSel = "confirm" /\ ask = None
    /\ commands = [slot \in Slots |-> Idle]
    /\ transfers = 0 /\ lookups = 0

dialogOpen == dialog # None \/ (ask # None /\ ask.type = "choice")

-----------------------------------------------------------------------------
(* Prompts: ask, resolveAsk *)

(* A second prompt takes the place of the first, whose command is not answered any more.
   An answer is a choice; a line is typed for a text or a password. *)
prompts(state, type) ==
    IF type = "choice" THEN state ELSE [state EXCEPT !.text = FALSE, !.focus = "command"]

(* With a password in the command, or a wallet that needs none, a transfer asks for none. *)
Pays(command) == {[command EXCEPT !.at = "password"], Submitted}

(* What a command may do with an answer: "" cancels it, and a text that is no fee ends it. *)
Continues(command, answer) ==
    CASE answer = ""                                      -> {Idle}
      [] command.line = "resync" /\ answer # "yes"        -> {Idle}
      [] command.line = "send" /\ command.at = "choice"   ->
           IF answer = "custom" THEN {[command EXCEPT !.at = "text"]} ELSE Pays(command)
      [] command.line = "send" /\ command.at = "text"     -> Pays(command) \cup {Idle}
      [] OTHER                                            -> {Submitted}

(* Mutant: the prompt stays after its answer. *)
resolveAsk_Kept(state, answer) ==
    IF ask = None THEN UNCHANGED <<ask, commands>> /\ ui' = state
    ELSE /\ \E next \in Continues(commands[ask.slot], answer) :
              commands' = [commands EXCEPT ![ask.slot] = next]
         /\ UNCHANGED ask /\ ui' = state

(* The command goes on with the answer, to its next prompt if it has one. *)
resolveAsk(state, answer) ==
    IF ask = None THEN UNCHANGED <<ask, commands>> /\ ui' = state
    ELSE \E next \in Continues(commands[ask.slot], answer) :
           /\ commands' = [commands EXCEPT ![ask.slot] = next]
           /\ IF next.at \in {"text", "password"}
              THEN ask' = [slot |-> ask.slot, type |-> next.at] /\ ui' = prompts(state, next.at)
              ELSE ask' = None /\ ui' = state

Answers(type) ==
    IF type = "choice" THEN {"normal", "custom", "yes", "no"} ELSE {"", "typed"}

-----------------------------------------------------------------------------
(* Commands *)

(* runCommand starts at once, whatever else runs: "resync" asks for the go-ahead, "stop" ends
   the wallet, the others wait for an answer of a node. *)
runCommand(line) ==
    \E slot \in Slots :
      /\ commands[slot] = Idle
      /\ commands' = [commands EXCEPT ![slot] =
                        CASE line = "send"   -> [line |-> line, at |-> "fees"]
                          [] line = "resync" -> [line |-> line, at |-> "choice"]
                          [] line = "update" -> [line |-> line, at |-> "submitted"]
                          [] OTHER           -> Submitted]
      /\ ask' = IF line = "resync" THEN [slot |-> slot, type |-> "choice"] ELSE ask
      /\ IF line = "stop" THEN exit ELSE UNCHANGED lifecycle

(* With the fees known a transfer asks for the fee, or for the password when a fee was given,
   or for nothing. *)
SendAsks(slot) ==
    /\ commands[slot].at = "fees"
    /\ \/ \E type \in {"choice", "password"} :
            /\ ask' = [slot |-> slot, type |-> type]
            /\ ui' = prompts(ui, type)
            /\ commands' = [commands EXCEPT ![slot].at = type]
       \/ /\ commands' = [commands EXCEPT ![slot] = Submitted]
          /\ UNCHANGED <<ask, ui>>
    /\ UNCHANGED <<dialog, dialogSel, transfers, lookups, lifecycle>>

CommandEnds(slot) ==
    /\ commands[slot].at = "submitted"
    /\ commands' = [commands EXCEPT ![slot] = Idle]
    /\ \/ UNCHANGED lifecycle
       \/ /\ commands[slot].line = "update"
          /\ \E latest \in LatestVersions, installed \in BOOLEAN :
               applyUpdate(latest, installed) /\ exit
    /\ UNCHANGED <<ui, dialog, dialogSel, ask, transfers, lookups>>

-----------------------------------------------------------------------------
(* The send form *)

(* Mutant: the row stays where it was. *)
delRow_RowStays(state) ==
    IF Len(state.recipients) = 1 THEN [state EXCEPT !.row = @]
    ELSE [state EXCEPT !.recipients = Front(@)]
delRow(state) ==
    [state EXCEPT !.recipients = IF Len(@) = 1 THEN @ ELSE Front(@),
                  !.row = IF @ = 1 THEN 1 ELSE @ - 1]

addRow(state) ==
    IF Len(state.recipients) >= MAX_RECIPIENTS THEN state
    ELSE [state EXCEPT !.recipients = Append(@, EmptyRecipient)]

resetSend(state) == [state EXCEPT !.recipients = emptySendDraft, !.row = 1]

(* A dialog opens with its confirm button selected, in the place of the one before. *)
opens(kind) == dialog' = kind /\ dialogSel' = "confirm"

(* Mutant: a transfer in flight does not matter. *)
submitSend_NotBusy == (\E i \in DOMAIN ui.recipients : complete(ui.recipients[i])) /\ opens("send")
submitSend ==
    /\ transfers = 0
    /\ \E i \in DOMAIN ui.recipients : complete(ui.recipients[i])
    /\ opens("send")

(* doSend, after its await: a success empties the form, whatever was typed meanwhile. *)
TransferEnds ==
    /\ transfers > 0
    /\ transfers' = transfers - 1
    /\ \/ ui' = resetSend(ui)
       \/ UNCHANGED ui
    /\ UNCHANGED <<dialog, dialogSel, ask, commands, lookups, lifecycle>>

(* showTx, after its await: the details replace whatever dialog is open. *)
TxArrives ==
    /\ lookups > 0
    /\ lookups' = lookups - 1
    /\ opens("notice") \/ UNCHANGED <<dialog, dialogSel>>
    /\ UNCHANGED <<ui, ask, commands, transfers, lifecycle>>

(* onConfirm and onCancel: the dialog of a transfer, one that asks for the password to show
   a secret, and those that inform or start a rebuild. *)
onConfirm ==
    /\ dialog' = IF dialog = "password" THEN "notice" ELSE None
    /\ transfers' = IF dialog = "send" THEN transfers + 1 ELSE transfers
    /\ dialogSel' = "confirm"
    /\ UNCHANGED <<ui, ask, commands, lookups>>

onCancel ==
    /\ dialog' = None /\ dialogSel' = "confirm"
    /\ UNCHANGED <<ui, ask, commands, transfers, lookups>>

toggleMode(state) ==
    IF state.mode = "mouse" THEN [state EXCEPT !.mode = "command", !.focus = "command"]
    ELSE [state EXCEPT !.mode = "mouse"]

switchView(state, name) ==
    [state EXCEPT !.view = name, !.focus = IF name = "send" THEN @ ELSE "command"]

-----------------------------------------------------------------------------
(* The keyboard: reduceInput, one action per context *)

Moves(next) == ui' = next /\ UNCHANGED form

Focused(focus, row) == [ui EXCEPT !.focus = focus, !.row = row]

nextFocus ==
    CASE ui.focus = "to"       -> Focused("amount", ui.row)
      [] ui.focus = "amount"   -> IF ui.row < Len(ui.recipients) THEN Focused("to", ui.row + 1)
                                  ELSE Focused("fee", ui.row)
      [] ui.focus = "fee"      -> Focused("sendBtn", ui.row)
      [] ui.focus = "sendBtn"  -> Focused("resetBtn", ui.row)
      [] ui.focus = "resetBtn" -> Focused("addRow", ui.row)
      [] ui.focus = "addRow"   -> Focused("delRow", ui.row)
      [] OTHER                 -> Focused("command", 1)

prevFocus ==
    CASE ui.focus = "to"       -> IF ui.row > 1 THEN Focused("amount", ui.row - 1)
                                  ELSE Focused("command", 1)
      [] ui.focus = "amount"   -> Focused("to", ui.row)
      [] ui.focus = "fee"      -> Focused("amount", Len(ui.recipients))
      [] ui.focus = "sendBtn"  -> Focused("fee", ui.row)
      [] ui.focus = "resetBtn" -> Focused("sendBtn", ui.row)
      [] ui.focus = "addRow"   -> Focused("resetBtn", ui.row)
      [] ui.focus = "delRow"   -> Focused("addRow", ui.row)
      [] OTHER                 -> Focused("command", 1)

(* Ctrl+C and Ctrl+B come before any other context. *)
CtrlC == exit /\ UNCHANGED shell

CtrlB ==
    /\ resolveAsk(toggleMode(ui), "")
    /\ dialog' = None /\ dialogSel' = "confirm"
    /\ UNCHANGED <<transfers, lookups>>

DialogKey ==
    /\ dialogOpen
    /\ \/ /\ dialog # None
          /\ dialogSel' = IF dialogSel = "confirm" THEN "cancel" ELSE "confirm"     \* arrows
          /\ UNCHANGED <<ui, dialog, ask, commands, transfers, lookups>>
       \/ dialog # None /\ dialogSel = "confirm" /\ onConfirm                       \* Enter
       \/ dialog # None /\ dialogSel = "cancel" /\ onCancel
       \/ dialog # None /\ onCancel                                                 \* Esc
       \/ /\ dialog = None
          /\ \E answer \in Answers("choice") \cup {""} : resolveAsk(ui, answer)
          /\ UNCHANGED <<dialog, dialogSel, transfers, lookups>>

(* Typing fills the field, erasing may empty it; the fee is not followed. *)
edited(content) ==
    IF ui.focus = "fee" \/ ui.row \notin DOMAIN ui.recipients THEN ui
    ELSE IF ui.focus = "to" THEN [ui EXCEPT !.recipients[ui.row].address = content]
    ELSE [ui EXCEPT !.recipients[ui.row].amount = content]

FieldKey ==
    /\ ~dialogOpen /\ ui.focus \in Fields
    /\ \/ \E content \in BOOLEAN : Moves(edited(content))
       \/ Moves(Focused("command", 1))                                              \* Esc
       \/ Moves(nextFocus) \/ Moves(prevFocus)                                      \* arrows, Tab, Enter

(* Left and right go round the buttons. *)
neighbour(step) ==
    LET at == CHOOSE i \in DOMAIN BUTTON_ORDER : BUTTON_ORDER[i] = ui.focus
    IN  BUTTON_ORDER[((at - 1 + step) % 4) + 1]

(* Enter on a button, or a click on it. *)
presses(button) ==
    \/ /\ button = "sendBtn" /\ submitSend
       /\ UNCHANGED <<ui, ask, commands, transfers, lookups>>
    \/ button = "resetBtn" /\ Moves(resetSend(ui))
    \/ button = "addRow" /\ Moves(addRow(ui))
    \/ button = "delRow" /\ Moves(delRow(ui))

ButtonKey ==
    /\ ~dialogOpen /\ ui.focus \in Buttons
    /\ \/ \E step \in {1, 3} : Moves([ui EXCEPT !.focus = neighbour(step)])
       \/ presses(ui.focus)
       \/ Moves(Focused("command", 1))
       \/ Moves(nextFocus) \/ Moves(prevFocus)

atCommandLine == ~dialogOpen /\ ui.focus = "command" /\ ui.mode = "command"

(* The command line while a prompt is pending: what is typed is the answer. *)
AskKey ==
    /\ atCommandLine /\ ask # None
    /\ \/ \E content \in BOOLEAN : Moves([ui EXCEPT !.text = content])
       \/ /\ \E answer \in {IF ui.text THEN "typed" ELSE "", ""} :                          \* Enter, Esc
               resolveAsk([ui EXCEPT !.text = FALSE], answer)
          /\ UNCHANGED <<dialog, dialogSel, transfers, lookups>>

(* Without one it is a command; up and down recall earlier lines. *)
CommandKey ==
    /\ atCommandLine /\ ask = None
    /\ \/ \E content \in BOOLEAN : Moves([ui EXCEPT !.text = content]) /\ UNCHANGED lifecycle
       \/ /\ ui.text
          /\ \E line \in Lines : runCommand(line)
          /\ ui' = [ui EXCEPT !.text = FALSE]
          /\ UNCHANGED <<dialog, dialogSel, transfers, lookups>>

(* In mouse mode the keys go round the views and into the form. *)
firstIncomplete == {i \in DOMAIN ui.recipients : ~complete(ui.recipients[i])}

TabKey ==
    LET at == CHOOSE i \in DOMAIN TABS : TABS[i] = ui.view
    IN  /\ ~dialogOpen /\ ui.focus = "command" /\ ui.mode = "mouse"
        /\ \/ \E step \in {1, Len(TABS) - 1} :
                Moves(switchView(ui, TABS[((at - 1 + step) % Len(TABS)) + 1]))
           \/ /\ ui.view = "send"
              /\ \/ Moves(Focused("to", 1))                                         \* Tab
                 \/ /\ firstIncomplete = {}                                         \* Enter
                    /\ Moves(Focused("sendBtn", Len(ui.recipients)))
                 \/ \E i \in firstIncomplete :
                      /\ \A j \in firstIncomplete : i <= j
                      /\ Moves(Focused(IF ui.recipients[i].address THEN "amount" ELSE "to", i))

-----------------------------------------------------------------------------
(* The mouse: handleMouse and the regions of each view *)

(* The button of the mode does not answer a pending prompt. *)
ModeClick ==
    /\ ui' = toggleMode(ui)
    /\ dialog' = None /\ dialogSel' = "confirm"
    /\ UNCHANGED <<ask, commands, transfers, lookups>>

DialogClick == dialog # None /\ (onConfirm \/ onCancel)

TabClick == dialog = None /\ \E i \in DOMAIN TABS : Moves(switchView(ui, TABS[i]))

(* showTx.  Bound: one lookup of a transaction at a time. *)
looksUp ==
    /\ lookups = 0 /\ lookups' = lookups + 1
    /\ UNCHANGED <<ui, dialog, dialogSel, ask, commands, transfers>>

(* The actions of the settings view: two ask for the password first. *)
settings(kinds) ==
    /\ \E kind \in kinds : opens(kind)
    /\ UNCHANGED <<ui, ask, commands, transfers, lookups>>

(* A click on a region of the view, which answers in command mode too. *)
RegionClick ==
    /\ dialog = None
    /\ \/ /\ ui.view = "send"
          /\ \/ \E field \in {"to", "amount"}, i \in DOMAIN ui.recipients : Moves(Focused(field, i))
             \/ Moves([ui EXCEPT !.focus = "fee"])
             \/ \E button \in Buttons : presses(button)
       \/ ui.view = "history" /\ looksUp
       \/ ui.view = "settings" /\ settings({"password", "notice"})

(* Enter outside the form activates the first region of the view. *)
EnterKey ==
    /\ ~dialogOpen /\ ui.focus = "command" /\ ui.mode = "mouse"
    /\ \/ ui.view = "history" /\ looksUp
       \/ ui.view = "settings" /\ settings({"notice"})

-----------------------------------------------------------------------------
ShellEvent ==
    /\ \/ CtrlB \/ DialogKey \/ FieldKey \/ ButtonKey \/ AskKey \/ TabKey \/ EnterKey
       \/ ModeClick \/ DialogClick \/ TabClick \/ RegionClick
    /\ UNCHANGED lifecycle

ShellNext ==
    /\ running
    /\ \/ ShellEvent \/ CommandKey \/ CtrlC
       \/ TransferEnds \/ TxArrives
       \/ \E slot \in Slots : SendAsks(slot) \/ CommandEnds(slot)

-----------------------------------------------------------------------------
(* Properties *)

(* The field the keys go to exists: no order of adding and deleting rows by key and by mouse,
   of resetting the form and of a transfer completing while another row is being edited
   leaves the focus on a row that is gone (delRow, resetSend, doSend, reduceInput). *)
EditedRowExists == ui.focus \in {"to", "amount"} => ui.row \in DOMAIN ui.recipients

(* The form has one transfer in flight: a second one, submitted by key or by mouse while the
   first waits for its answer, would pay the recipients twice (submitSend, sendBusy). *)
OneTransferAtATime == transfers <= 1

(* The prompt on display belongs to a command that waits for an answer of its type, so that
   what the user types reaches the command it was meant for, also when the mode is switched
   under a prompt or a second command asks (ask, resolveAsk, toggleMode). *)
AnswersReachTheirCommand == ask # None => commands[ask.slot].at = ask.type
=============================================================================
