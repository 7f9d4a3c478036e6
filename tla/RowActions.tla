----------------------------- MODULE RowActions -----------------------------
(***************************************************************************)
(* The actions on the rows of a web list: sync, push, test and disconnect  *)
(* of a connection (runAction with busyId), sending an invoice (handleSend *)
(* with sendingId), and the QR code below a row (toggleQr).  There is one  *)
(* busy id and one QR code for the whole list.                             *)
(***************************************************************************)
EXTENDS Naturals, FiniteSets

CONSTANTS
  Rows,      \* rows of the list
  Acts,      \* slots for actions under way
  QrCalls    \* slots for QR requests under way

ASSUME RowActionsAssumption == "none" \notin Rows

VARIABLES
  busyId,    \* busyId, sendingId
  act,       \* the row an action is under way for
  mixed,     \* history: actions on two rows have overlapped since all was quiet
  qrId,      \* the row whose QR code is open
  qrData,    \* whose code the picture is
  qrCall,    \* requests for a code
  qrRaced    \* history: the row was changed with a request under way

rowVars == <<busyId, act, mixed, qrId, qrData, qrCall, qrRaced>>

RowActionsInit ==
  /\ busyId = "none" /\ act = [a \in Acts |-> "none"] /\ mixed = FALSE
  /\ qrId = "none" /\ qrData = "none" /\ qrCall = [q \in QrCalls |-> "none"]
  /\ qrRaced = FALSE

InAction(r) == {a \in Acts : act[a] = r}
QuietRows == \A a \in Acts : act[a] = "none"
QrQuiet == \A q \in QrCalls : qrCall[q] = "none"
-----------------------------------------------------------------------------
\* Mutant: the buttons of a row are never disabled.
RowFreeAlways(r) == TRUE

\* disabled={busyId === c.id}
RowFree(r) == busyId # r

\* A button of a row is pressed; the buttons of other rows are not disabled.
StartAct(a, r) ==
  /\ act[a] = "none" /\ RowFree(r)
  /\ busyId' = r
  /\ act' = [act EXCEPT ![a] = r]
  /\ mixed' = (mixed \/ \E b \in Acts : act[b] \notin {"none", r})
  /\ UNCHANGED <<qrId, qrData, qrCall, qrRaced>>

\* The API answers, or not; finally, setBusyId(null), whichever row it stands
\* for, and the list and the row's health are loaded again.
EndAct(a) ==
  /\ act[a] # "none"
  /\ busyId' = "none"
  /\ act' = [act EXCEPT ![a] = "none"]
  /\ mixed' = (mixed /\ \E b \in Acts \ {a} : act[b] # "none")
  /\ UNCHANGED <<qrId, qrData, qrCall, qrRaced>>

OpenQr(r) == qrId' = r /\ qrData' = "none"

\* The same row closes the code; another opens its own, once it is there.
ToggleQr(q, r) ==
  /\ qrCall[q] = "none"
  /\ IF qrId = r
       THEN /\ qrId' = "none" /\ qrData' = "none"
            /\ UNCHANGED qrCall
       ELSE OpenQr(r) /\ qrCall' = [qrCall EXCEPT ![q] = r]
  /\ qrRaced' = (qrRaced \/ ~QrQuiet)
  /\ UNCHANGED <<busyId, act, mixed>>

\* The picture is shown, below whichever row is open; or the request failed.
QrAnswered(q) ==
  /\ qrCall[q] # "none"
  /\ qrData' \in {qrCall[q], qrData}
  /\ qrCall' = [qrCall EXCEPT ![q] = "none"]
  /\ UNCHANGED <<busyId, act, mixed, qrId, qrRaced>>

RowActionsNext ==
  \/ \E a \in Acts : EndAct(a) \/ \E r \in Rows : StartAct(a, r)
  \/ \E q \in QrCalls : QrAnswered(q) \/ \E r \in Rows : ToggleQr(q, r)

RowActionsSpec == RowActionsInit /\ [][RowActionsNext]_rowVars
-----------------------------------------------------------------------------
(* Properties *)

\* A row is not acted on twice at a time, and its buttons work again when all is
\* done, unless actions on two rows overlapped: the second takes the busy id
\* from the first, and the first to end clears it.
OneActPerRow ==
  ~mixed => /\ \A r \in Rows : Cardinality(InAction(r)) <= 1
            /\ QuietRows => busyId = "none"

\* The picture below a row is that row's code, unless the row was changed while
\* a code was still on its way.
QrMatchesRow == ~qrRaced => qrData \in {"none", qrId}

\* The rows are in step with what goes on: no row is acted on twice at a time,
\* and the picture shown is that of the open row, but for the races named above.
RowsInStep == OneActPerRow /\ QrMatchesRow
=============================================================================
