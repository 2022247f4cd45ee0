-------------------------- MODULE WalletAppProofs --------------------------
(***************************************************************************)
(* Proofs about the front ends of the wallet (WalletApp): for any number   *)
(* of views, recipients and commands, and for log lines without bound.     *)
(*                                                                         *)
(* Each invariant is about one front end, and the steps of the other leave *)
(* its variables alone.                                                    *)
(***************************************************************************)
EXTENDS WalletApp, SequenceTheorems, TLAPS

-----------------------------------------------------------------------------
(* The console *)

LogType == pushed \in Nat /\ shown \in Seq(Nat) /\ batch \in Seq(Nat)
LogInv == LogType /\ LogsKeepOrder

(* A flush moves the lines held back to the screen, or leaves them. *)
LEMMA FlushKeepsOrder ==
    ASSUME LogInv, NEW isBusy, flush(isBusy), UNCHANGED pushed
    PROVE  LogInv'
<1>1. CASE isQuiet(isBusy)
  BY <1>1 DEF LogInv, LogType, LogsKeepOrder, flush
<1>2. CASE ~isQuiet(isBusy)
  <2>1. shown' = shown \o batch /\ batch' = <<>>
    BY <1>2 DEF flush
  <2>2. shown' \in Seq(Nat) /\ batch' \in Seq(Nat)
    BY <2>1 DEF LogInv, LogType
  <2>3. shown' \o batch' = shown'
    BY <2>1, <2>2
  <2> QED
    BY <2>1, <2>2, <2>3 DEF LogInv, LogType, LogsKeepOrder
<1> QED BY <1>1, <1>2

(* The next log line goes to the end of the lines held back. *)
LEMMA PushKeepsOrder ==
    ASSUME LogInv, push
    PROVE  LogInv'
<1>1. /\ pushed' = pushed + 1 /\ batch' = Append(batch, pushed + 1) /\ shown' = shown
  BY DEF push
<1>2. LogType'
  BY <1>1 DEF LogInv, LogType
<1>3. shown' \o batch' = Append(shown \o batch, pushed + 1)
  BY <1>1 DEF LogInv, LogType
<1>4. shown \o batch = [i \in 1..pushed |-> i] /\ Len(shown \o batch) = pushed
  BY DEF LogInv, LogType, LogsKeepOrder
<1>5. Append(shown \o batch, pushed + 1) = [i \in 1..pushed + 1 |-> i]
  BY <1>4 DEF LogInv, LogType
<1> QED
  BY <1>1, <1>2, <1>3, <1>5 DEF LogInv, LogsKeepOrder

LEMMA LogInit == Init => LogInv
BY DEF Init, ConsoleInit, LogInv, LogType, LogsKeepOrder

LEMMA LogNext == LogInv /\ [Next]_vars => LogInv'
<1> SUFFICES ASSUME LogInv, [Next]_vars PROVE LogInv'
  OBVIOUS
<1>1. CASE UNCHANGED console
  BY <1>1 DEF LogInv, LogType, LogsKeepOrder, console
<1>2. CASE ConsoleNext
  <2>1. CASE Flush
    BY <2>1, FlushKeepsOrder DEF Flush
  <2>2. ASSUME NEW i \in DOMAIN handlers, runConsoleCommand(i) PROVE LogInv'
    BY <2>2, FlushKeepsOrder DEF runConsoleCommand
  <2>3. CASE push
    BY <2>3, PushKeepsOrder
  <2>4. CASE Types \/ EnterLines \/ Close
    BY <2>4 DEF Types, EnterLines, Close, LogInv, LogType, LogsKeepOrder
  <2>5. ASSUME NEW i \in DOMAIN handlers, CommandDone(i) PROVE LogInv'
    BY <2>5, FlushKeepsOrder DEF CommandDone
  <2> QED
    BY <1>2, <2>1, <2>2, <2>3, <2>4, <2>5 DEF ConsoleNext
<1> QED
  BY <1>1, <1>2 DEF Next, vars

(* The console shows every log line once and in order, however typing, pasted commands and
   flushes interleave with the lines (createLogPresenter, flushPendingLogs). *)
THEOREM LogsStayInOrder == Spec => []LogsKeepOrder
<1>1. LogInv => LogsKeepOrder
  BY DEF LogInv
<1> QED
  BY <1>1, LogInit, LogNext, PTL DEF Spec

-----------------------------------------------------------------------------
(* Transfers of the send form *)

(* The dialog of a transfer is open only while none is in flight: it is why a confirmation
   cannot start a second one. *)
TransferInv == transfers \in {0, 1} /\ (dialog = "send" => transfers = 0)

LEMMA TransferInit == Init => TransferInv
BY NoneIsNoDialog DEF Init, ShellInit, TransferInv

LEMMA TransferShell == TransferInv /\ ShellNext => TransferInv'
<1> SUFFICES ASSUME TransferInv, ShellNext PROVE TransferInv'
  OBVIOUS
<1> USE NoneIsNoDialog DEF TransferInv
<1>1. CASE CtrlB \/ ModeClick
  BY <1>1 DEF CtrlB, ModeClick
<1>0. onConfirm \/ onCancel => TransferInv'
  BY DEF onConfirm, onCancel
<1>2. CASE DialogKey
  BY <1>0, <1>2 DEF DialogKey
<1>3. CASE DialogClick
  BY <1>0, <1>3 DEF DialogClick
<1>4. CASE FieldKey \/ TabKey \/ TabClick
  BY <1>4 DEF FieldKey, TabKey, TabClick, Moves, form
<1>5. ASSUME NEW button, presses(button) PROVE TransferInv'
  BY <1>5 DEF presses, submitSend, opens, Moves, form
<1>6. CASE ButtonKey
  BY <1>5, <1>6 DEF ButtonKey, Moves, form
<1>7. CASE AskKey \/ CommandKey
  BY <1>7 DEF AskKey, CommandKey, Moves, form
<1>8. CASE EnterKey
  BY <1>8 DEF EnterKey, looksUp, settings, opens
<1>9. CASE RegionClick
  <2>1. CASE ui.view = "send"
    BY <1>5, <1>9, <2>1 DEF RegionClick, Moves, form
  <2>2. CASE ui.view # "send"
    BY <1>9, <2>2 DEF RegionClick, looksUp, settings, opens
  <2> QED BY <2>1, <2>2
<1>10. CASE CtrlC
  BY <1>10 DEF CtrlC, shell
<1>11. CASE TransferEnds \/ TxArrives
  BY <1>11 DEF TransferEnds, TxArrives, opens
<1>12. ASSUME NEW slot \in Slots, SendAsks(slot) \/ CommandEnds(slot) PROVE TransferInv'
  BY <1>12 DEF SendAsks, CommandEnds
<1> QED
  BY <1>1, <1>2, <1>3, <1>4, <1>6, <1>7, <1>8, <1>9, <1>10, <1>11, <1>12
     DEF ShellNext, ShellEvent

LEMMA TransferNext == TransferInv /\ [Next]_vars => TransferInv'
<1>1. TransferInv /\ UNCHANGED shell => TransferInv'
  BY DEF TransferInv, shell
<1> QED
  BY <1>1, TransferShell DEF Next, vars

(* Whatever is pressed, clicked or answered, and in whatever order, the send form never has
   two transfers in flight (submitSend, sendBusy). *)
THEOREM OneTransfer == Spec => []OneTransferAtATime
<1>1. TransferInv => OneTransferAtATime
  BY DEF TransferInv, OneTransferAtATime
<1> QED
  BY <1>1, TransferInit, TransferNext, PTL DEF Spec

-----------------------------------------------------------------------------
(* Prompts *)

(* Every command has a line and a place it has got to, and the prompt on display is that of a
   command which waits at it: no command that is idle, looking up the fees or submitted has one. *)
PromptTypes == {"choice", "text", "password"}
Waits(slot, type) == slot \in Slots /\ type \in PromptTypes /\ commands[slot].at = type
Steps == [line : Lines \cup {None}, at : PromptTypes \cup {"idle", "fees", "submitted"}]
PromptInv ==
    /\ commands \in [Slots -> Steps]
    /\ ask # None => Waits(ask.slot, ask.type)

LEMMA StepsContinue ==
    ASSUME NEW command \in Steps, NEW answer
    PROVE  Continues(command, answer) \subseteq Steps
<1>1. Pays(command) \subseteq Steps /\ Idle \in Steps /\ Submitted \in Steps
  BY DEF Pays, Steps, Idle, Submitted, PromptTypes
<1>2. [command EXCEPT !.at = "text"] \in Steps
  BY DEF Steps, PromptTypes
<1> QED
  BY <1>1, <1>2 DEF Continues

LEMMA AnswersKeepPrompts ==
    ASSUME PromptInv, NEW state, NEW answer, resolveAsk(state, answer)
    PROVE  PromptInv'
<1>1. CASE ask = None
  BY <1>1 DEF resolveAsk, PromptInv, Waits
<1>2. CASE ask # None
  <2>1. ask.slot \in Slots /\ Continues(commands[ask.slot], answer) \subseteq Steps
    BY <1>2, StepsContinue DEF PromptInv, Waits
  <2>2. PICK next \in Steps :
          /\ commands' = [commands EXCEPT ![ask.slot] = next]
          /\ \/ ask' = [slot |-> ask.slot, type |-> next.at] /\ next.at \in {"text", "password"}
             \/ ask' = None
    BY <1>2, <2>1 DEF resolveAsk
  <2>3. \/ ask' = [slot |-> ask.slot, type |-> next.at] /\ next.at \in PromptTypes
        \/ ask' = None
    BY <2>2 DEF PromptTypes
  <2>4. commands' \in [Slots -> Steps] /\ commands'[ask.slot] = next
    BY <2>1, <2>2 DEF PromptInv
  <2> QED
    BY <2>1, <2>3, <2>4 DEF PromptInv, Waits
<1> QED BY <1>1, <1>2

LEMMA PromptInit == Init => PromptInv
BY DEF Init, ShellInit, PromptInv, Steps, Idle, PromptTypes

(* A command that starts takes an idle slot, so not that of the prompt. *)
LEMMA CommandsKeepPrompts ==
    ASSUME PromptInv, NEW line \in Lines, runCommand(line)
    PROVE  PromptInv'
<1>1. PICK slot \in Slots, step \in Steps :
        /\ commands[slot] = Idle
        /\ commands' = [commands EXCEPT ![slot] = step]
        /\ step.at = "choice" \/ line # "resync"
        /\ ask' = IF line = "resync" THEN [slot |-> slot, type |-> "choice"] ELSE ask
  <2>1. PICK slot \in Slots :
          /\ commands[slot] = Idle
          /\ commands' = [commands EXCEPT ![slot] =
                            CASE line = "send"   -> [line |-> line, at |-> "fees"]
                              [] line = "resync" -> [line |-> line, at |-> "choice"]
                              [] line = "update" -> [line |-> line, at |-> "submitted"]
                              [] OTHER           -> Submitted]
          /\ ask' = IF line = "resync" THEN [slot |-> slot, type |-> "choice"] ELSE ask
    BY DEF runCommand
  <2> DEFINE step == CASE line = "send"   -> [line |-> line, at |-> "fees"]
                       [] line = "resync" -> [line |-> line, at |-> "choice"]
                       [] line = "update" -> [line |-> line, at |-> "submitted"]
                       [] OTHER           -> Submitted
  <2>2. step \in Steps /\ (step.at = "choice" \/ line # "resync")
    BY DEF Steps, Submitted, PromptTypes
  <2> QED
    BY <2>1, <2>2
<1>2. commands' \in [Slots -> Steps] /\ commands'[slot] = step
  BY <1>1 DEF PromptInv
<1>3. CASE line = "resync"
  BY <1>1, <1>2, <1>3 DEF PromptInv, Waits, PromptTypes
<1>4. CASE line # "resync"
  <2>1. ask # None => ask.slot # slot
    BY <1>1 DEF PromptInv, Waits, PromptTypes, Idle
  <2> QED
    BY <1>1, <1>2, <1>4, <2>1 DEF PromptInv, Waits
<1> QED BY <1>3, <1>4

LEMMA PromptShell == PromptInv /\ ShellNext => PromptInv'
<1> SUFFICES ASSUME PromptInv, ShellNext PROVE PromptInv'
  OBVIOUS
<1>1. UNCHANGED <<ask, commands>> => PromptInv'
  BY DEF PromptInv, Waits
<1>2. CASE CtrlB
  BY <1>2, AnswersKeepPrompts DEF CtrlB
<1>3. CASE DialogKey
  BY <1>1, <1>3, AnswersKeepPrompts DEF DialogKey, onConfirm, onCancel
<1>4. CASE DialogClick \/ ModeClick
  BY <1>1, <1>4 DEF DialogClick, ModeClick, onConfirm, onCancel
<1>5. CASE FieldKey \/ TabKey \/ TabClick
  BY <1>1, <1>5 DEF FieldKey, TabKey, TabClick, Moves, form
<1>6. ASSUME NEW button, presses(button) PROVE PromptInv'
  BY <1>1, <1>6 DEF presses, Moves, form
<1>7. CASE ButtonKey
  BY <1>1, <1>6, <1>7 DEF ButtonKey, Moves, form
<1>8. CASE AskKey
  BY <1>1, <1>8, AnswersKeepPrompts DEF AskKey, Moves, form
<1>9. CASE CommandKey
  BY <1>1, <1>9, CommandsKeepPrompts DEF CommandKey, Moves, form
<1>10. CASE EnterKey
  BY <1>1, <1>10 DEF EnterKey, looksUp, settings
<1>11. CASE RegionClick
  BY <1>1, <1>6, <1>11 DEF RegionClick, Moves, form, looksUp, settings
<1>12. CASE CtrlC \/ TransferEnds \/ TxArrives
  BY <1>1, <1>12 DEF CtrlC, shell, TransferEnds, TxArrives
<1>13. ASSUME NEW slot \in Slots, SendAsks(slot) PROVE PromptInv'
  <2>1. CASE /\ commands' = [commands EXCEPT ![slot] = Submitted]
             /\ UNCHANGED ask
    <3>1. commands' \in [Slots -> Steps]
      BY <2>1 DEF PromptInv, Steps, Submitted
    <3>2. ask # None => ask.slot # slot
      BY <1>13 DEF SendAsks, PromptInv, Waits, PromptTypes
    <3> QED
      BY <2>1, <3>1, <3>2 DEF PromptInv, Waits
  <2>2. ASSUME NEW type \in {"choice", "password"}, ask' = [slot |-> slot, type |-> type],
               commands' = [commands EXCEPT ![slot].at = type]
        PROVE  PromptInv'
    <3>1. [commands[slot] EXCEPT !.at = type] \in Steps
      BY <2>2 DEF PromptInv, Steps, PromptTypes
    <3>2. commands' = [commands EXCEPT ![slot] = [commands[slot] EXCEPT !.at = type]]
      BY <2>2 DEF PromptInv
    <3>3. commands' \in [Slots -> Steps] /\ commands'[slot].at = type
      BY <3>1, <3>2 DEF PromptInv, Steps
    <3> QED
      BY <2>2, <3>3 DEF PromptInv, Waits, PromptTypes
  <2> QED
    BY <1>13, <2>1, <2>2 DEF SendAsks
<1>14. ASSUME NEW slot \in Slots, CommandEnds(slot) PROVE PromptInv'
  <2>1. commands' \in [Slots -> Steps]
    BY <1>14 DEF CommandEnds, PromptInv, Steps, Idle
  <2>2. ask' = ask /\ (ask # None => ask.slot # slot)
    BY <1>14 DEF CommandEnds, PromptInv, Waits, PromptTypes
  <2> QED
    BY <1>14, <2>1, <2>2 DEF CommandEnds, PromptInv, Waits
<1> QED
  BY <1>2, <1>3, <1>4, <1>5, <1>7, <1>8, <1>9, <1>10, <1>11, <1>12, <1>13, <1>14
     DEF ShellNext, ShellEvent

LEMMA PromptNext == PromptInv /\ [Next]_vars => PromptInv'
<1>1. PromptInv /\ UNCHANGED shell => PromptInv'
  BY DEF PromptInv, Waits, shell
<1> QED
  BY <1>1, PromptShell DEF Next, vars

(* The prompt on display is that of a command waiting for an answer of its type, also when a
   second command asks or the mode is switched under it (ask, resolveAsk, toggleMode). *)
THEOREM PromptsBelongToTheirCommand == Spec => []AnswersReachTheirCommand
<1>1. PromptInv => AnswersReachTheirCommand
  BY DEF PromptInv, Waits, AnswersReachTheirCommand
<1> QED
  BY <1>1, PromptInit, PromptNext, PTL DEF Spec

-----------------------------------------------------------------------------
(* The row being edited *)

(* A form has a recipient, its row counts from one, and a focus on a recipient's field has a
   recipient to edit.  Off those fields the row may be past the end: a click deletes rows
   without moving it far enough when the fee has the focus. *)
Recipient == [address : BOOLEAN, amount : BOOLEAN]
FormOK(state) ==
    /\ DOMAIN state = {"mode", "view", "focus", "row", "recipients", "text"}
    /\ state.recipients \in Seq(Recipient) /\ Len(state.recipients) >= 1
    /\ state.row \in Nat /\ state.row >= 1
    /\ state.focus \in {"to", "amount"} => state.row <= Len(state.recipients)
FormInv == FormOK(ui)

LEMMA FormOfRecipients ==
    ASSUME FormInv
    PROVE  DOMAIN ui.recipients = 1..Len(ui.recipients)
BY DEF FormInv, FormOK

LEMMA FormUnchanged == ASSUME FormInv, UNCHANGED ui PROVE FormInv'
BY DEF FormInv, FormOK

(* Moving the focus of a sound form to a field with a row, or anywhere else. *)
LEMMA FocusMoves ==
    ASSUME FormInv, NEW focus, NEW row \in Nat, row >= 1,
           focus \in {"to", "amount"} => row <= Len(ui.recipients)
    PROVE  FormOK(Focused(focus, row))
BY DEF FormInv, FormOK, Focused

LEMMA NextFocusOK == ASSUME FormInv PROVE FormOK(nextFocus)
<1> USE FormOfRecipients
<1>1. CASE ui.focus = "to"
  BY <1>1, FocusMoves DEF nextFocus, FormInv, FormOK
<1>2. CASE ui.focus = "amount"
  <2>1. CASE ui.row < Len(ui.recipients)
    <3>1. FormOK(Focused("to", ui.row + 1))
      BY <2>1, FocusMoves DEF FormInv, FormOK
    <3> QED
      BY <1>2, <2>1, <3>1 DEF nextFocus
  <2>2. CASE ~(ui.row < Len(ui.recipients))
    BY <1>2, <2>2, FocusMoves DEF nextFocus, FormInv, FormOK
  <2> QED BY <2>1, <2>2
<1>3. CASE ui.focus \notin {"to", "amount"}
  <2>1. nextFocus \in {Focused(focus, ui.row) : focus \in Buttons} \cup {Focused("command", 1)}
    BY <1>3 DEF nextFocus, Buttons
  <2>2. \A focus \in Buttons : FormOK(Focused(focus, ui.row))
    BY FocusMoves DEF Buttons, FormInv, FormOK
  <2>3. FormOK(Focused("command", 1))
    BY FocusMoves
  <2> QED
    BY <2>1, <2>2, <2>3
<1> QED BY <1>1, <1>2, <1>3

LEMMA PrevFocusOK == ASSUME FormInv PROVE FormOK(prevFocus)
<1>1. CASE ui.focus = "to"
  <2>1. CASE ui.row > 1
    <3>1. FormOK(Focused("amount", ui.row - 1))
      BY <1>1, <2>1, FocusMoves DEF FormInv, FormOK
    <3> QED
      BY <1>1, <2>1, <3>1 DEF prevFocus
  <2>2. CASE ~(ui.row > 1)
    <3>1. FormOK(Focused("command", 1))
      BY FocusMoves
    <3> QED
      BY <1>1, <2>2, <3>1 DEF prevFocus
  <2> QED BY <2>1, <2>2
<1>2. CASE ui.focus = "amount"
  BY <1>2, FocusMoves DEF prevFocus, FormInv, FormOK
<1>3. CASE ui.focus = "fee"
  BY <1>3, FocusMoves DEF prevFocus, FormInv, FormOK
<1>4. CASE ui.focus \notin {"to", "amount", "fee"}
  <2>1. prevFocus \in {Focused(focus, ui.row) : focus \in Buttons \cup {"fee"}} \cup {Focused("command", 1)}
    BY <1>4 DEF prevFocus, Buttons
  <2>2. \A focus \in Buttons \cup {"fee"} : FormOK(Focused(focus, ui.row))
    BY FocusMoves DEF Buttons, FormInv, FormOK
  <2>3. FormOK(Focused("command", 1))
    BY FocusMoves
  <2> QED
    BY <2>1, <2>2, <2>3
<1> QED BY <1>1, <1>2, <1>3, <1>4

(* Adding, deleting and resetting rows. *)
LEMMA RowsOK ==
    ASSUME FormInv
    PROVE  FormOK(addRow(ui)) /\ FormOK(delRow(ui)) /\ FormOK(resetSend(ui))
<1>1. FormOK(addRow(ui))
  <2>1. EmptyRecipient \in Recipient
    BY DEF EmptyRecipient, Recipient
  <2>2. /\ Append(ui.recipients, EmptyRecipient) \in Seq(Recipient)
        /\ Len(Append(ui.recipients, EmptyRecipient)) = Len(ui.recipients) + 1
    BY <2>1 DEF FormInv, FormOK
  <2> QED
    BY <2>2 DEF addRow, FormInv, FormOK
<1>2. FormOK(resetSend(ui))
  BY DEF resetSend, emptySendDraft, EmptyRecipient, Recipient, FormInv, FormOK
<1>3. FormOK(delRow(ui))
  <2> DEFINE rows == IF Len(ui.recipients) = 1 THEN ui.recipients ELSE Front(ui.recipients)
             row == IF ui.row = 1 THEN 1 ELSE ui.row - 1
  <2>1. /\ rows \in Seq(Recipient) /\ Len(rows) >= 1
        /\ Len(rows) >= Len(ui.recipients) - 1
    <3>1. CASE Len(ui.recipients) = 1
      BY <3>1 DEF FormInv, FormOK
    <3>2. CASE Len(ui.recipients) # 1
      <4> DEFINE last == Len(ui.recipients) - 1
      <4>0. Front(ui.recipients) = SubSeq(ui.recipients, 1, last)
        BY Zenon DEF Front
      <4>1. last \in Nat /\ last >= 1
        <5>1. Len(ui.recipients) \in Nat /\ Len(ui.recipients) >= 1
          BY DEF FormInv, FormOK
        <5>2. \A n \in Nat : n >= 1 /\ n # 1 => n - 1 \in Nat /\ n - 1 >= 1
          OBVIOUS
        <5> QED
          BY <3>2, <5>1, <5>2
      <4>2. \A i \in 1..last : ui.recipients[i] \in Recipient
        BY <3>2 DEF FormInv, FormOK
      <4>3. /\ SubSeq(ui.recipients, 1, last) \in Seq(Recipient)
            /\ Len(SubSeq(ui.recipients, 1, last)) = IF 1 <= last THEN last - 1 + 1 ELSE 0
        <5> HIDE DEF last
        <5> QED
          BY <4>1, <4>2, SubSeqProperties
      <4> QED
        BY <3>2, <4>0, <4>1, <4>3
    <3> QED BY <3>1, <3>2
  <2>2. /\ row \in Nat /\ row >= 1
        /\ ui.row <= Len(ui.recipients) => row <= Len(rows)
    BY <2>1 DEF FormInv, FormOK
  <2>3. delRow(ui) = [ui EXCEPT !.recipients = rows, !.row = row]
    BY DEF delRow
  <2> HIDE DEF rows, row
  <2> QED
    BY <2>1, <2>2, <2>3 DEF FormInv, FormOK
<1> QED BY <1>1, <1>2, <1>3

(* What changes neither the rows nor moves the focus onto a recipient. *)
LEMMA OthersOK ==
    ASSUME FormInv, NEW name, NEW content \in BOOLEAN, NEW type
    PROVE  /\ FormOK(toggleMode(ui)) /\ FormOK(switchView(ui, name))
           /\ FormOK(edited(content)) /\ FormOK([ui EXCEPT !.text = content])
<1>1. FormOK(toggleMode(ui)) /\ FormOK(switchView(ui, name)) /\ FormOK([ui EXCEPT !.text = content])
  BY DEF toggleMode, switchView, FormInv, FormOK
<1>2. FormOK(edited(content))
  <2>1. CASE ui.focus = "fee" \/ ui.row \notin DOMAIN ui.recipients
    BY <2>1 DEF edited, FormInv
  <2>2. ASSUME ui.row \in DOMAIN ui.recipients, NEW recipient \in Recipient
        PROVE  FormOK([ui EXCEPT !.recipients[ui.row] = recipient])
    <3>1. [ui.recipients EXCEPT ![ui.row] = recipient] \in Seq(Recipient)
      BY <2>2 DEF FormInv, FormOK
    <3>2. Len([ui.recipients EXCEPT ![ui.row] = recipient]) = Len(ui.recipients)
      BY <2>2 DEF FormInv, FormOK
    <3> QED
      BY <3>1, <3>2 DEF FormInv, FormOK
  <2>3. CASE ui.focus # "fee" /\ ui.row \in DOMAIN ui.recipients
    <3>1. ui.recipients[ui.row] \in Recipient
      BY <2>3 DEF FormInv, FormOK
    <3>2. /\ [ui.recipients[ui.row] EXCEPT !.address = content] \in Recipient
          /\ [ui.recipients[ui.row] EXCEPT !.amount = content] \in Recipient
      BY <3>1 DEF Recipient
    <3> QED
      BY <2>2, <2>3, <3>2 DEF edited
  <2> QED BY <2>1, <2>2, <2>3
<1> QED BY <1>1, <1>2

LEMMA FormInit == Init => FormInv
BY DEF Init, ShellInit, FormInv, FormOK, emptySendDraft, EmptyRecipient, Recipient

LEMMA FormShell == FormInv /\ ShellNext => FormInv'
<1> SUFFICES ASSUME FormInv, ShellNext PROVE FormInv'
  OBVIOUS
<1>1. ASSUME NEW state, FormOK(state), ui' = state PROVE FormInv'
  BY <1>1 DEF FormInv
<1>2. ASSUME UNCHANGED ui PROVE FormInv'
  BY <1>1, <1>2 DEF FormInv
<1>3. ASSUME NEW state, FormOK(state), NEW answer, resolveAsk(state, answer) PROVE FormInv'
  <2>1. ASSUME NEW type PROVE FormOK(prompts(state, type))
    BY <1>3 DEF prompts, FormOK
  <2>2. ui' = state \/ \E type : ui' = prompts(state, type)
    BY <1>3 DEF resolveAsk
  <2> QED
    BY <1>3, <2>1, <2>2 DEF FormInv
<1>4. CASE CtrlB
  BY <1>3, <1>4, OthersOK DEF CtrlB
<1>5. CASE DialogKey
  BY <1>2, <1>3, <1>5 DEF DialogKey, onConfirm, onCancel, FormInv
<1>6. CASE FieldKey
  <2>1. FormOK(Focused("command", 1))
    BY FocusMoves
  <2> QED
    BY <1>1, <1>6, <2>1, OthersOK, NextFocusOK, PrevFocusOK DEF FieldKey, Moves
<1>7. ASSUME NEW button, presses(button) PROVE FormInv'
  BY <1>1, <1>2, <1>7, RowsOK DEF presses, Moves
<1>8. CASE ButtonKey
  <2>1. FormOK(Focused("command", 1))
    BY FocusMoves
  <2>2. ASSUME NEW step \in {1, 3} PROVE FormOK([ui EXCEPT !.focus = neighbour(step)])
    <3>1. ui.focus \in Buttons
      BY <1>8 DEF ButtonKey
    <3>2. \E i \in DOMAIN BUTTON_ORDER : BUTTON_ORDER[i] = ui.focus
      BY <3>1 DEF Buttons, BUTTON_ORDER
    <3> DEFINE at == CHOOSE i \in DOMAIN BUTTON_ORDER : BUTTON_ORDER[i] = ui.focus
    <3>3. at \in 1..4
      BY <3>2 DEF BUTTON_ORDER
    <3>4. neighbour(step) = BUTTON_ORDER[((at - 1 + step) % 4) + 1]
      BY Zenon DEF neighbour
    <3>5. ((at - 1 + step) % 4) + 1 \in 1..4
      <4> HIDE DEF at
      <4> QED
        BY <3>3
    <3>6. neighbour(step) \in Buttons
      <4> HIDE DEF at
      <4> QED
        BY <3>4, <3>5 DEF Buttons, BUTTON_ORDER
    <3> QED
      BY <3>6 DEF FormInv, FormOK, Buttons
  <2> QED
    BY <1>1, <1>7, <1>8, <2>1, <2>2, NextFocusOK, PrevFocusOK DEF ButtonKey, Moves
<1>9. FormOK([ui EXCEPT !.text = FALSE])
  BY OthersOK
<1>10. CASE AskKey
  BY <1>1, <1>3, <1>9, <1>10, OthersOK DEF AskKey, Moves
<1>11. CASE CommandKey
  BY <1>1, <1>9, <1>11, OthersOK DEF CommandKey, Moves
<1>12. CASE TabKey
  <2>1. FormOK(Focused("to", 1))
    BY FocusMoves DEF FormInv, FormOK
  <2>2. FormOK(Focused("sendBtn", Len(ui.recipients)))
    BY FocusMoves DEF FormInv, FormOK
  <2>3. \A i \in firstIncomplete, focus \in {"to", "amount"} : FormOK(Focused(focus, i))
    BY FormOfRecipients, FocusMoves DEF firstIncomplete, FormInv, FormOK
  <2> QED
    BY <1>1, <1>12, <2>1, <2>2, <2>3, OthersOK DEF TabKey, Moves
<1>13. CASE EnterKey
  BY <1>2, <1>13 DEF EnterKey, looksUp, settings
<1>14. CASE ModeClick
  BY <1>1, <1>14, OthersOK DEF ModeClick
<1>15. CASE DialogClick
  BY <1>2, <1>15 DEF DialogClick, onConfirm, onCancel
<1>16. CASE TabClick
  BY <1>1, <1>16, OthersOK DEF TabClick, Moves
<1>17. CASE RegionClick
  <2>1. \A i \in DOMAIN ui.recipients, focus \in {"to", "amount"} : FormOK(Focused(focus, i))
    BY FormOfRecipients, FocusMoves DEF FormInv, FormOK
  <2>2. FormOK([ui EXCEPT !.focus = "fee"])
    BY DEF FormInv, FormOK
  <2> QED
    BY <1>1, <1>2, <1>7, <1>17, <2>1, <2>2 DEF RegionClick, Moves, looksUp, settings
<1>18. CASE CtrlC
  BY <1>2, <1>18 DEF CtrlC, shell
<1>19. CASE TransferEnds \/ TxArrives
  BY <1>1, <1>2, <1>19, RowsOK DEF TransferEnds, TxArrives
<1>20. ASSUME NEW slot \in Slots, SendAsks(slot) \/ CommandEnds(slot) PROVE FormInv'
  <2>1. ASSUME NEW type PROVE FormOK(prompts(ui, type))
    BY DEF prompts, FormInv, FormOK
  <2> QED
    BY <1>1, <1>2, <1>20, <2>1 DEF SendAsks, CommandEnds
<1> QED
  BY <1>4, <1>5, <1>6, <1>8, <1>10, <1>11, <1>12, <1>13, <1>14, <1>15, <1>16, <1>17, <1>18,
     <1>19, <1>20 DEF ShellNext, ShellEvent

LEMMA FormNext == FormInv /\ [Next]_vars => FormInv'
<1>1. FormInv /\ UNCHANGED shell => FormInv'
  BY FormUnchanged DEF shell
<1> QED
  BY <1>1, FormShell DEF Next, vars

(* For any limit on recipients: the field the keys go to is one of the form's, whatever rows
   keys, clicks and completing transfers add, delete or reset (delRow, resetSend, doSend). *)
THEOREM EditedRowIsThere == Spec => []EditedRowExists
<1>1. FormInv => EditedRowExists
  BY FormOfRecipients DEF FormInv, FormOK, EditedRowExists
<1> QED
  BY <1>1, FormInit, FormNext, PTL DEF Spec
=============================================================================
