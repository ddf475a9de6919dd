------------------------- MODULE CampaignControlProofs -------------------------
(***************************************************************************)
(* The hand-off of a campaign to the packer, for any number of clients,    *)
(* requests, workflows, retries and faults.                                *)
(*                                                                         *)
(* An attempt whose result is lost is the only way to publish twice, and   *)
(* an attempt that outlives a cancelled workflow publishes on its behalf.  *)
(* A workflow that may still publish has therefore published no more often *)
(* than faults explain, and one that is past it has published; the late    *)
(* attempt counts as the workflow's while it is in flight.                 *)
(***************************************************************************)
EXTENDS CampaignControl, WellFoundedInduction, FiniteSetTheorems, SequenceTheorems, TLAPS

Less == {pair \in Nat \X Nat : pair[1] < pair[2]}

\* A non-empty set of positions of a list has a last one.
LEMMA LastPosition ==
    ASSUME NEW n \in Nat, NEW S, S \subseteq 1 .. n, S # {}
    PROVE  Max(S) \in S
  <1> DEFINE T == {n - x : x \in S}
  <1>1. T \subseteq Nat /\ T # {}
    <2>1. \A x \in S : n - x \in Nat
      OBVIOUS
    <2>2. QED
      BY <2>1
  <1>2. PICK m \in T : \A y \in T : <<y, m>> \notin Less
    <2>1. IsWellFoundedOn(Less, Nat)
      BY NatLessThanWellFounded, Zenon DEF OpToRel, Less
    <2>2. QED
      BY <1>1, <2>1, WFMin, Zenon
  <1>3. \A y \in T : ~(y < m)
    BY <1>1, <1>2 DEF Less
  <1>4. PICK x \in S : m = n - x
    OBVIOUS
  <1>5. \A y \in S : x >= y
    <2>1. SUFFICES ASSUME NEW y \in S PROVE x >= y
      OBVIOUS
    <2>2. n - y \in T
      BY <2>1
    <2>3. ~(n - y < n - x)
      BY <1>3, <1>4, <2>2
    <2>4. QED
      BY <2>3
  <1>6. QED
    BY <1>5 DEF Max

-------------------------------------------------------------------------------
WorkflowSteps == Activities \cup Ended \cup {"none"}
RowRecords == [run : Nat, state : ExecutionStatus]
Requested == [op : Ops, to : Status, at : Steps, exec : Nat, run : Nat, seen : Status]

ControlTypeOK ==
    /\ rows \in Seq(RowRecords)
    /\ started \in Nat
    /\ wf \in [Runs -> [step : WorkflowSteps, tries : Nat]]
    /\ late \in [Runs -> Activities \cup {"none"}]
    /\ packs \in [Runs -> Nat]
    /\ req \in [Clients -> Requested]
    /\ status \in Status
    /\ faults \in Nat

BeforeHandOff == {"none", "load", "sending", "publish"}
Handed == {"close", "done"}

\* What workflow r may still do is paid for by faults, and what it has passed
\* is published.
RunInv(r) ==
    /\ packs[r] <= 1 + faults
    /\ wf[r].step \in BeforeHandOff => packs[r] <= faults
    /\ wf[r].step \in Handed => packs[r] > 0
    /\ late[r] # "none" => wf[r].step = "cancelled"
    /\ late[r] = "publish" => packs[r] <= faults
    /\ late[r] = "close" => packs[r] > 0
    /\ r > started => wf[r].step = "none"

RowInv(i) == rows[i].state = "completed" => rows[i].run \in Runs /\ packs[rows[i].run] > 0

HandOffInv ==
    /\ ControlTypeOK
    /\ \A r \in Runs : RunInv(r)
    /\ \A i \in DOMAIN rows : RowInv(i)

LEMMA Disjoint ==
    /\ Activities = {"load", "sending", "publish", "close", "stop", "fail"}
    /\ Ended = {"done", "failed", "cancelled"}
  BY DEF Activities, HandOff, Ended

\* The active execution is a row of the campaign.
LEMMA ActiveIsARow ==
    ASSUME ControlTypeOK
    PROVE  /\ ActiveExecution \in Nat
           /\ ActiveExecution # 0 => /\ ActiveExecution \in DOMAIN rows
                                     /\ rows[ActiveExecution] \in RowRecords
  <1>1. Len(rows) \in Nat /\ DOMAIN rows = 1 .. Len(rows)
    BY DEF ControlTypeOK
  <1>2. ActiveRows \subseteq 1 .. Len(rows)
    BY <1>1 DEF ActiveRows
  <1>3. ActiveRows # {} => Max(ActiveRows) \in ActiveRows
    BY <1>1, <1>2, LastPosition
  <1>4. CASE ActiveRows = {}
    BY <1>4 DEF ActiveExecution
  <1>5. CASE ActiveRows # {}
    <2>1. ActiveExecution \in 1 .. Len(rows)
      BY <1>2, <1>3, <1>5 DEF ActiveExecution
    <2>2. QED
      BY <1>1, <2>1 DEF ControlTypeOK
  <1>6. QED
    BY <1>4, <1>5

\* A step that touches no workflow and no row keeps the hand-off in order.
LEMMA RequestElsewhere ==
    ASSUME HandOffInv, UNCHANGED <<rows, wf, late, packs, started>>,
           faults' \in Nat, faults <= faults', req' \in [Clients -> Requested],
           status' \in Status
    PROVE  HandOffInv'
  <1>1. ControlTypeOK'
    BY DEF HandOffInv, ControlTypeOK
  <1>2. \A r \in Runs : RunInv(r)'
    BY DEF HandOffInv, ControlTypeOK, RunInv
  <1>3. \A i \in DOMAIN rows' : RowInv(i)'
    BY DEF HandOffInv, RowInv
  <1>4. QED
    BY <1>1, <1>2, <1>3 DEF HandOffInv

\* A cancelled workflow publishes nothing more but by its attempt in flight.
LEMMA EndCancelledKeeps ==
    ASSUME HandOffInv, NEW r, Live(r), EndCancelled(r), req' \in [Clients -> Requested],
           UNCHANGED <<rows, packs, started, faults>>, status' \in Status
    PROVE  HandOffInv'
  <1> DEFINE cancelled == [step |-> "cancelled", tries |-> 0]
  <1>1. PICK left \in {"none"} \cup ({wf[r].step} \ {"load"}) :
            /\ wf' = [wf EXCEPT ![r] = cancelled]
            /\ late' = [late EXCEPT ![r] = left]
    BY DEF EndCancelled
  <1>2. wf[r].step \in Activities
    BY DEF Live
  <1>3. ControlTypeOK'
    BY <1>1, <1>2, Disjoint DEF HandOffInv, ControlTypeOK, WorkflowSteps
  <1>4. ASSUME NEW q \in Runs PROVE RunInv(q)'
    <2>1. CASE q = r
      <3>1. wf'[q].step = "cancelled" /\ late'[q] = left
        BY <1>1, <2>1 DEF HandOffInv, ControlTypeOK
      <3>2. left = "none" \/ left = wf[q].step
        BY <1>1, <2>1
      <3>3. RunInv(q)
        BY DEF HandOffInv
      <3>4. ~(q > started)
        BY <1>2, <2>1, <3>3, Disjoint DEF RunInv
      <3>5. QED
        BY <3>1, <3>2, <3>3, <3>4 DEF RunInv, BeforeHandOff, Handed
    <2>2. CASE q # r
      <3>1. wf'[q] = wf[q] /\ late'[q] = late[q]
        BY <1>1, <2>2 DEF HandOffInv, ControlTypeOK
      <3>2. QED
        BY <3>1 DEF HandOffInv, RunInv
    <2>3. QED
      BY <2>1, <2>2
  <1>5. \A i \in DOMAIN rows' : RowInv(i)'
    BY DEF HandOffInv, RowInv
  <1>6. QED
    BY <1>3, <1>4, <1>5 DEF HandOffInv

\* What a request may become: returned, moved on, or filled in by what it read.
LEMMA RequestTypes ==
    ASSUME ControlTypeOK, NEW c \in Clients
    PROVE  /\ Return(c) => req' \in [Clients -> Requested]
           /\ \A step \in Steps : GoTo(c, step) => req' \in [Clients -> Requested]
           /\ req[c] \in Requested
  <1>1. NoRequest \in Requested
    BY DEF NoRequest, Requested, Ops, SavingOps, Status, Steps
  <1>2. req[c] \in Requested
    BY DEF ControlTypeOK
  <1>3. \A step \in Steps : [req[c] EXCEPT !.at = step] \in Requested
    BY <1>2 DEF Requested
  <1>4. QED
    BY <1>1, <1>2, <1>3 DEF ControlTypeOK, Return, GoTo

LEMMA BeginKeeps ==
    ASSUME HandOffInv, NEW c \in Clients, Begin(c)
    PROVE  HandOffInv'
  <1>1. PICK op \in Ops, to \in Status, at \in Steps :
            req' = [req EXCEPT ![c] = [NoRequest EXCEPT !.op = op, !.to = to, !.at = at]]
    <2>1. \A op \in Ops : FirstStep(op) \subseteq Steps
      BY DEF FirstStep, Steps
    <2>2. PICK op \in Ops, to \in Status : \E at \in FirstStep(op) :
            req' = [req EXCEPT ![c] = [NoRequest EXCEPT !.op = op, !.to = to, !.at = at]]
      BY Zenon DEF Begin
    <2>3. QED
      BY <2>1, <2>2, Zenon
  <1>2. [NoRequest EXCEPT !.op = op, !.to = to, !.at = at] \in Requested
    BY DEF NoRequest, Requested, Ops, SavingOps, Status, Steps
  <1>3. req' \in [Clients -> Requested]
    BY <1>1, <1>2 DEF HandOffInv, ControlTypeOK
  <1>4. UNCHANGED <<rows, wf, late, packs, started, faults>>
    BY DEF Begin, wfVars
  <1>5. faults \in Nat /\ status' \in Status
    BY DEF Begin, HandOffInv, ControlTypeOK, campaignVars
  <1>6. QED
    BY <1>3, <1>4, <1>5, RequestElsewhere

\* The reads of a request.
LEMMA ReadKeeps ==
    ASSUME HandOffInv, NEW c \in Clients,
           \/ CheckExists(c) \/ ReadActive(c) \/ ReadActiveToCancel(c) \/ Signal(c)
           \/ CreateFails(c) \/ Find(c) \/ Save(c) \/ SoftRemove(c) \/ RequestFails(c)
    PROVE  HandOffInv'
  <1> DEFINE e == ActiveExecution
  <1>1. ControlTypeOK
    BY DEF HandOffInv
  <1>2. /\ UNCHANGED <<rows, wf, late, packs, started>>
        /\ faults' \in Nat /\ faults <= faults'
    BY <1>1 DEF CheckExists, ReadActive, ReadActiveToCancel, Signal, CreateFails, Find, Save,
       SoftRemove, RequestFails, wfVars, countVars, ControlTypeOK
  <1>20. status' \in Status
    <2>1. CASE Save(c)
      <3>1. req[c] \in Requested
        BY <1>1, RequestTypes
      <3>2. req[c].to \in Status /\ req[c].seen \in Status
        BY <3>1 DEF Requested
      <3>3. QED
        BY <2>1, <3>2 DEF Save, SavedStatus, Status
    <2>2. CASE ~Save(c)
      BY <1>1, <2>2 DEF CheckExists, ReadActive, ReadActiveToCancel, Signal, CreateFails, Find,
         SoftRemove, RequestFails, campaignVars, ControlTypeOK
    <2>3. QED
      BY <2>1, <2>2
  <1>3. e \in Nat /\ (e # 0 => rows[e] \in RowRecords)
    BY <1>1, ActiveIsARow
  <1>4. e # 0 => rows[e].run \in Nat
    BY <1>3 DEF RowRecords
  <1>5. CASE ReadActive(c)
    <2>1. \/ Return(c)
          \/ \E step \in Steps : GoTo(c, step)
          \/ e # 0 /\ req' = [req EXCEPT ![c] = [req[c] EXCEPT !.at = "signal", !.exec = e]]
          \/ e # 0 /\ req' = [req EXCEPT ![c] = [req[c] EXCEPT !.at = "cancel", !.exec = e,
                                                               !.run = rows[e].run]]
      BY <1>1, <1>5 DEF ReadActive, Steps, ControlTypeOK
    <2>2. /\ e # 0 => [req[c] EXCEPT !.at = "signal", !.exec = e] \in Requested
          /\ e # 0 => [req[c] EXCEPT !.at = "cancel", !.exec = e, !.run = rows[e].run] \in Requested
      BY <1>1, <1>3, <1>4, RequestTypes DEF Requested, Steps
    <2>3. req' \in [Clients -> Requested]
      BY <1>1, <2>1, <2>2, RequestTypes DEF ControlTypeOK
    <2>4. QED
      BY <1>2, <1>20, <2>3, RequestElsewhere
  <1>6. CASE ReadActiveToCancel(c)
    <2>1. \/ Return(c)
          \/ \E r \in Nat :
                req' = [req EXCEPT ![c] = [req[c] EXCEPT !.at = "cancel", !.exec = e, !.run = r]]
      <3> DEFINE own == IF e = 0 THEN 0 ELSE rows[e].run
      <3>1. own \in Nat
        BY <1>4
      <3>2. \A r \in (1 .. started) \cup {own} : r \in Nat
        BY <1>1, <3>1 DEF ControlTypeOK
      <3> HIDE DEF own
      <3>3. \E r \in (1 .. started) \cup {own} :
                IF r = 0 THEN Return(c)
                ELSE req' = [req EXCEPT ![c] = [req[c] EXCEPT !.at = "cancel", !.exec = e, !.run = r]]
        BY <1>6, ZenonT(40) DEF ReadActiveToCancel, own
      <3>4. QED
        BY <3>2, <3>3, Zenon
    <2>2. \A r \in Nat : [req[c] EXCEPT !.at = "cancel", !.exec = e, !.run = r] \in Requested
      BY <1>1, <1>3, RequestTypes DEF Requested, Steps
    <2>3. req' \in [Clients -> Requested]
      <3>1. CASE Return(c)
        BY <1>1, <3>1, RequestTypes
      <3>2. ASSUME NEW q \in Requested, req' = [req EXCEPT ![c] = q] PROVE req' \in [Clients -> Requested]
        BY <1>1, <3>2 DEF ControlTypeOK
      <3>3. QED
        BY <2>1, <2>2, <3>1, <3>2, Zenon
    <2>4. QED
      BY <1>2, <1>20, <2>3, RequestElsewhere
  <1>7. CASE Find(c)
    <2>1. \/ Return(c)
          \/ req' = [req EXCEPT ![c] = [req[c] EXCEPT !.at = "save", !.seen = status]]
             /\ status \in Status
      BY <1>1, <1>7 DEF Find, ControlTypeOK
    <2>2. status \in Status => [req[c] EXCEPT !.at = "save", !.seen = status] \in Requested
      BY <1>1, RequestTypes DEF Requested, Steps
    <2>3. req' \in [Clients -> Requested]
      BY <1>1, <2>1, <2>2, RequestTypes DEF ControlTypeOK
    <2>4. QED
      BY <1>2, <1>20, <2>3, RequestElsewhere
  <1>8. CASE \/ CheckExists(c) \/ Signal(c) \/ CreateFails(c) \/ Save(c) \/ SoftRemove(c)
             \/ RequestFails(c)
    <2>1. Return(c) \/ \E step \in Steps : GoTo(c, step)
      BY <1>8 DEF CheckExists, Signal, CreateFails, Save, AfterSave, SoftRemove, RequestFails, Steps
    <2>2. QED
      BY <1>1, <1>2, <1>20, <2>1, RequestTypes, RequestElsewhere
  <1>9. QED
    BY <1>5, <1>6, <1>7, <1>8

\* A request that cancels a workflow, after a stop or a failed insert.
LEMMA CancelKeeps ==
    ASSUME HandOffInv, NEW c \in Clients, CancelWorkflow(c) \/ Compensate(c)
    PROVE  HandOffInv'
  <1>1. ControlTypeOK
    BY DEF HandOffInv
  <1>2. UNCHANGED <<rows, packs, started, faults>> /\ faults \in Nat /\ status' \in Status
    BY <1>1 DEF CancelWorkflow, Compensate, countVars, campaignVars, ControlTypeOK
  <1>3. Return(c) \/ \E step \in Steps : GoTo(c, step)
    BY DEF CancelWorkflow, Compensate, Steps
  <1>4. req' \in [Clients -> Requested]
    BY <1>1, <1>3, RequestTypes
  <1>5. \/ Live(req[c].run) /\ EndCancelled(req[c].run)
        \/ UNCHANGED <<wf, late>>
    BY DEF CancelWorkflow, Compensate
  <1>6. QED
    BY <1>2, <1>4, <1>5, EndCancelledKeeps, RequestElsewhere

\* A new workflow has published nothing.
LEMMA StartKeeps ==
    ASSUME HandOffInv, NEW c \in Clients, StartWorkflow(c)
    PROVE  HandOffInv'
  <1> DEFINE r == started + 1
             begun == [step |-> "load", tries |-> 0]
  <1>1. /\ started' = r /\ wf' = [wf EXCEPT ![r] = begun]
        /\ req' = [req EXCEPT ![c] = [req[c] EXCEPT !.at = "create", !.run = r]]
        /\ UNCHANGED <<rows, late, packs, faults, status>>
    BY DEF StartWorkflow, HandOffInv, ControlTypeOK, countVars, campaignVars
  <1>2. [req[c] EXCEPT !.at = "create", !.run = r] \in Requested
    <2>1. req[c] \in Requested /\ r \in Nat
      BY DEF HandOffInv, ControlTypeOK
    <2>2. QED
      BY <2>1 DEF Requested, Steps
  <1>3. ControlTypeOK'
    <2>1. begun \in [step : WorkflowSteps, tries : Nat]
      BY Disjoint DEF WorkflowSteps
    <2>2. ControlTypeOK
      BY DEF HandOffInv
    <2>3. wf' \in [Runs -> [step : WorkflowSteps, tries : Nat]]
      BY <1>1, <2>1, <2>2 DEF ControlTypeOK
    <2>4. req' \in [Clients -> Requested] /\ started' \in Nat
      BY <1>1, <1>2, <2>2 DEF ControlTypeOK
    <2>5. QED
      BY <1>1, <2>2, <2>3, <2>4 DEF ControlTypeOK
  <1>4. ASSUME NEW q \in Runs PROVE RunInv(q)'
    <2>1. q \in Nat /\ started \in Nat /\ RunInv(q)
      BY DEF HandOffInv, ControlTypeOK, Runs
    <2>2. CASE q = r
      <3>1. wf'[q].step = "load" /\ wf[q].step = "none"
        BY <1>1, <2>1, <2>2 DEF HandOffInv, ControlTypeOK, RunInv
      <3>2. QED
        BY <1>1, <2>1, <2>2, <3>1 DEF RunInv, BeforeHandOff, Handed
    <2>3. CASE q # r
      <3>1. wf'[q] = wf[q]
        BY <1>1, <2>3 DEF HandOffInv, ControlTypeOK
      <3>2. QED
        BY <1>1, <2>1, <3>1 DEF RunInv
    <2>4. QED
      BY <2>2, <2>3
  <1>5. \A i \in DOMAIN rows' : RowInv(i)'
    BY <1>1 DEF HandOffInv, RowInv
  <1>6. QED
    BY <1>3, <1>4, <1>5 DEF HandOffInv

\* The new row is RUNNING; a mark is no completion.
LEMMA CreateKeeps ==
    ASSUME HandOffInv, NEW c \in Clients, CreateExecution(c)
    PROVE  HandOffInv'
  <1> DEFINE row == [run |-> req[c].run, state |-> "RUNNING"]
  <1>1. ControlTypeOK
    BY DEF HandOffInv
  <1>2. /\ rows' = Append(rows, row) /\ Return(c)
        /\ UNCHANGED <<wf, late, packs, started, faults, status>>
    BY DEF CreateExecution, wfVars, countVars, campaignVars
  <1>3. row \in RowRecords
    <2>1. req[c].run \in Nat
      BY <1>1 DEF ControlTypeOK, Requested
    <2>2. QED
      BY <2>1 DEF RowRecords, ExecutionStatus, ActiveStatuses
  <1>4. /\ rows' \in Seq(RowRecords)
        /\ \A i \in DOMAIN rows' : rows'[i] = row \/ (i \in DOMAIN rows /\ rows'[i] = rows[i])
    BY <1>1, <1>2, <1>3 DEF ControlTypeOK
  <1>5. ControlTypeOK'
    BY <1>1, <1>2, <1>4, RequestTypes DEF ControlTypeOK
  <1>6. \A r \in Runs : RunInv(r)'
    BY <1>2 DEF HandOffInv, RunInv
  <1>7. \A i \in DOMAIN rows' : RowInv(i)'
    BY <1>2, <1>4 DEF HandOffInv, RowInv
  <1>8. QED
    BY <1>5, <1>6, <1>7 DEF HandOffInv

LEMMA MarkKeeps ==
    ASSUME HandOffInv, NEW c \in Clients, MarkExecution(c)
    PROVE  HandOffInv'
  <1> DEFINE e == req[c].exec
             state == MarkedState(req[c].op)
  <1>1. ControlTypeOK
    BY DEF HandOffInv
  <1>2. /\ rows' = [rows EXCEPT ![e] = [rows[e] EXCEPT !.state = state]] /\ Return(c)
        /\ UNCHANGED <<wf, late, packs, started, faults, status>>
    BY DEF MarkExecution, wfVars, countVars, campaignVars
  <1>3. state \in ExecutionStatus /\ state # "completed"
    BY DEF MarkedState, ExecutionStatus, ActiveStatuses
  <1> HIDE DEF e, state
  <1>4. \A i \in DOMAIN rows : rows[i] \in RowRecords
    BY <1>1 DEF ControlTypeOK
  <1>5. \A i \in DOMAIN rows : /\ [rows[i] EXCEPT !.state = state] \in RowRecords
                               /\ [rows[i] EXCEPT !.state = state].state = state
    BY <1>3, <1>4 DEF RowRecords
  <1>6. DOMAIN rows' = DOMAIN rows /\ rows' \in Seq(RowRecords)
    <2>1. rows \in [1 .. Len(rows) -> RowRecords] /\ Len(rows) \in Nat
      BY <1>1 DEF ControlTypeOK
    <2>2. rows' \in [1 .. Len(rows) -> RowRecords]
      BY <1>2, <1>5, <2>1
    <2>3. QED
      BY <2>1, <2>2
  <1>7. ASSUME NEW i \in DOMAIN rows
        PROVE  rows'[i] = rows[i] \/ rows'[i].state = state
    <2>1. CASE i = e
      <3>1. rows'[i] = [rows[i] EXCEPT !.state = state]
        BY <1>2, <2>1, Zenon
      <3>2. QED
        BY <1>5, <3>1
    <2>2. CASE i # e
      BY <1>2, <2>2, Zenon
    <2>3. QED
      BY <2>1, <2>2
  <1>8. ControlTypeOK'
    BY <1>1, <1>2, <1>6, RequestTypes DEF ControlTypeOK
  <1>9. \A r \in Runs : RunInv(r)'
    BY <1>2 DEF HandOffInv, RunInv
  <1>10. \A i \in DOMAIN rows' : RowInv(i)'
    BY <1>2, <1>3, <1>6, <1>7 DEF HandOffInv, RowInv
  <1>11. QED
    BY <1>8, <1>9, <1>10 DEF HandOffInv

-------------------------------------------------------------------------------
(* The workflows.                                                            *)

\* A row closed as completed belongs to a workflow that has published.
LEMMA SetStateKeeps ==
    ASSUME HandOffInv, NEW r \in Runs, NEW state \in ExecutionStatus, SetState(r, state),
           packs' \in [Runs -> Nat], \A q \in Runs : packs[q] <= packs'[q],
           state = "completed" => packs[r] > 0
    PROVE  rows' \in Seq(RowRecords) /\ \A i \in DOMAIN rows' : RowInv(i)'
  <1>1. ControlTypeOK
    BY DEF HandOffInv
  <1>2. \A i \in DOMAIN rows : rows[i] \in RowRecords
    BY <1>1 DEF ControlTypeOK
  <1>3. \A i \in DOMAIN rows : /\ [rows[i] EXCEPT !.state = state] \in RowRecords
                               /\ [rows[i] EXCEPT !.state = state].state = state
                               /\ [rows[i] EXCEPT !.state = state].run = rows[i].run
    BY <1>2 DEF RowRecords
  <1>4. Len(rows) \in Nat /\ DOMAIN rows = 1 .. Len(rows)
    BY <1>1 DEF ControlTypeOK
  <1>5. /\ DOMAIN rows' = DOMAIN rows
        /\ \A i \in DOMAIN rows :
              rows'[i] = IF rows[i].run = r THEN [rows[i] EXCEPT !.state = state] ELSE rows[i]
    BY Zenon DEF SetState
  <1>6. rows' = [i \in 1 .. Len(rows) |-> rows'[i]] /\ \A i \in 1 .. Len(rows) : rows'[i] \in RowRecords
    BY <1>2, <1>3, <1>4, <1>5 DEF SetState
  <1>7. rows' \in Seq(RowRecords)
    BY <1>4, <1>6
  <1>8. ASSUME NEW i \in DOMAIN rows PROVE RowInv(i)'
    <2>1. RowInv(i)
      BY DEF HandOffInv
    <2>2. CASE rows[i].run = r
      <3>1. rows'[i] = [rows[i] EXCEPT !.state = state]
        BY <1>5, <2>2
      <3>2. rows'[i].state = state /\ rows'[i].run = r
        BY <1>3, <2>2, <3>1
      <3>3. packs[r] \in Nat /\ packs'[r] \in Nat /\ packs[r] <= packs'[r]
        BY <1>1 DEF ControlTypeOK
      <3>4. QED
        BY <3>2, <3>3 DEF RowInv
    <2>3. CASE rows[i].run # r
      <3>1. rows'[i] = rows[i]
        BY <1>5, <2>3
      <3>2. \A q \in Runs : packs[q] \in Nat /\ packs'[q] \in Nat
        BY <1>1 DEF ControlTypeOK
      <3>3. QED
        BY <2>1, <3>1, <3>2 DEF RowInv
    <2>4. QED
      BY <2>2, <2>3
  <1>9. QED
    BY <1>5, <1>7, <1>8

\* What one attempt of an activity writes.
LEMMA EffectKeeps ==
    ASSUME HandOffInv, NEW r \in Runs, NEW a \in Activities, Effect(r, a),
           a = "close" => packs[r] > 0
    PROVE  /\ rows' \in Seq(RowRecords) /\ \A i \in DOMAIN rows' : RowInv(i)'
           /\ packs' \in [Runs -> Nat] /\ status' \in Status
           /\ packs'[r] = packs[r] + (IF a = "publish" THEN 1 ELSE 0)
           /\ \A q \in Runs : q # r => packs'[q] = packs[q]
  <1>1. ControlTypeOK
    BY DEF HandOffInv
  <1>2. packs' = [packs EXCEPT ![r] = IF a = "publish" THEN packs[r] + 1 ELSE packs[r]]
    BY DEF Effect
  <1>3. /\ packs' \in [Runs -> Nat]
        /\ packs'[r] = packs[r] + (IF a = "publish" THEN 1 ELSE 0)
        /\ \A q \in Runs : q # r => packs'[q] = packs[q]
    BY <1>1, <1>2 DEF ControlTypeOK
  <1>4. ASSUME NEW q \in Runs PROVE packs[q] <= packs'[q]
    <2>1. packs[q] \in Nat
      BY <1>1 DEF ControlTypeOK
    <2>2. CASE q = r
      BY <1>3, <2>1, <2>2
    <2>3. CASE q # r
      BY <1>3, <2>1, <2>3
    <2>4. QED
      BY <2>2, <2>3
  <1>5. status' \in Status
    BY <1>1 DEF Effect, ControlTypeOK, Status
  <1>6. \/ a = "close" /\ SetState(r, "completed")
        \/ a = "fail" /\ SetState(r, "failed")
        \/ rows' = rows
    BY Disjoint DEF Effect
  <1>7. "completed" \in ExecutionStatus /\ "failed" \in ExecutionStatus
    BY DEF ExecutionStatus
  <1>8. CASE rows' = rows
    <2>1. \A q \in Runs : packs[q] \in Nat /\ packs'[q] \in Nat
      BY <1>1, <1>3 DEF ControlTypeOK
    <2>2. \A i \in DOMAIN rows' : RowInv(i)'
      BY <1>4, <1>8, <2>1 DEF HandOffInv, RowInv
    <2>3. QED
      BY <1>1, <1>3, <1>5, <1>8, <2>2 DEF ControlTypeOK
  <1>9. CASE a = "close" /\ SetState(r, "completed")
    BY <1>3, <1>4, <1>5, <1>7, <1>9, SetStateKeeps
  <1>10. CASE a = "fail" /\ SetState(r, "failed")
    BY <1>3, <1>4, <1>5, <1>7, <1>10, SetStateKeeps
  <1>11. QED
    BY <1>6, <1>8, <1>9, <1>10

\* A live workflow has no attempt that outlives it, so its next step decides.
LEMMA RunMoves ==
    ASSUME HandOffInv, NEW r \in Runs, Live(r), NEW s \in WorkflowSteps, NEW t \in Nat,
           wf' = [wf EXCEPT ![r] = [step |-> s, tries |-> t]],
           UNCHANGED <<late, started, req>>,
           rows' \in Seq(RowRecords), \A i \in DOMAIN rows' : RowInv(i)',
           packs' \in [Runs -> Nat], \A q \in Runs : q # r => packs'[q] = packs[q],
           status' \in Status, faults' \in Nat, faults <= faults',
           packs'[r] <= 1 + faults',
           s \in BeforeHandOff => packs'[r] <= faults',
           s \in Handed => packs'[r] > 0
    PROVE  HandOffInv'
  <1>1. ControlTypeOK /\ RunInv(r)
    BY DEF HandOffInv
  <1>2. wf' \in [Runs -> [step : WorkflowSteps, tries : Nat]]
    BY <1>1 DEF ControlTypeOK
  <1>3. ControlTypeOK'
    BY <1>1, <1>2 DEF ControlTypeOK
  <1>4. wf[r].step \in Activities
    BY DEF Live
  <1>5. wf'[r].step = s /\ late'[r] = "none" /\ ~(r > started')
    BY <1>1, <1>4, Disjoint DEF ControlTypeOK, RunInv
  <1>6. RunInv(r)'
    BY <1>5 DEF RunInv
  <1>7. ASSUME NEW q \in Runs, q # r PROVE RunInv(q)'
    <2>1. wf'[q] = wf[q] /\ packs'[q] = packs[q] /\ RunInv(q) /\ packs[q] \in Nat /\ faults \in Nat
      BY <1>1, <1>7 DEF ControlTypeOK, HandOffInv
    <2>2. QED
      BY <2>1 DEF RunInv
  <1>8. QED
    BY <1>3, <1>6, <1>7 DEF HandOffInv

\* What follows an attempt that is repeated or given up.
LEMMA RetrySteps ==
    ASSUME ControlAssumption, ControlTypeOK, NEW r \in Runs, Live(r), Retry(r)
    PROVE  \E s \in WorkflowSteps, t \in Nat :
               /\ wf' = [wf EXCEPT ![r] = [step |-> s, tries |-> t]]
               /\ s = wf[r].step \/ s \in {"stop", "failed"}
               /\ t < MaxAttempts
  <1>1. wf[r] \in [step : WorkflowSteps, tries : Nat] /\ wf[r].step \in Activities
    BY DEF ControlTypeOK, Live
  <1>2. CASE wf[r].tries + 1 < MaxAttempts
    <2>1. wf' = [wf EXCEPT ![r] = [wf[r] EXCEPT !.tries = wf[r].tries + 1]]
      <3>1. wf' = [wf EXCEPT ![r] = IF wf[r].tries + 1 < MaxAttempts
                                    THEN [wf[r] EXCEPT !.tries = wf[r].tries + 1]
                                    ELSE [step |-> StepWhenExhausted(wf[r].step), tries |-> 0]]
        BY DEF Retry
      <3>2. QED
        BY <1>2, <3>1, Zenon
    <2>2. [wf[r] EXCEPT !.tries = wf[r].tries + 1] = [step |-> wf[r].step, tries |-> wf[r].tries + 1]
      BY <1>1
    <2>3. wf' = [wf EXCEPT ![r] = [step |-> wf[r].step, tries |-> wf[r].tries + 1]]
      BY <2>1, <2>2, Zenon
    <2>4. wf[r].step \in WorkflowSteps /\ wf[r].tries + 1 \in Nat
      BY <1>1
    <2>5. QED
      BY <1>2, <2>3, <2>4, Zenon
  <1>3. CASE ~(wf[r].tries + 1 < MaxAttempts)
    <2>1. wf' = [wf EXCEPT ![r] = [step |-> StepWhenExhausted(wf[r].step), tries |-> 0]]
      BY <1>3 DEF Retry
    <2>2. StepWhenExhausted(wf[r].step) \in {"stop", "failed"}
      BY DEF StepWhenExhausted
    <2>3. {"stop", "failed"} \subseteq WorkflowSteps
      BY Disjoint DEF WorkflowSteps
    <2>4. 0 < MaxAttempts
      BY ControlAssumption
    <2>5. QED
      BY <2>1, <2>2, <2>3, <2>4
  <1>4. QED
    BY <1>2, <1>3

LEMMA WorkKeeps ==
    ASSUME ControlAssumption, HandOffInv, NEW r \in Runs, Work(r)
    PROVE  HandOffInv'
  <1> DEFINE a == wf[r].step
  <1>1. ControlTypeOK /\ RunInv(r) /\ packs[r] \in Nat /\ faults \in Nat
    BY DEF HandOffInv, ControlTypeOK
  <1>2. CASE LoadFails(r)
    <2>1. a = "load" /\ Live(r)
      BY <1>2, Disjoint DEF LoadFails, NotFound, Live
    <2>2. PICK s \in WorkflowSteps, t \in Nat :
              /\ wf' = [wf EXCEPT ![r] = [step |-> s, tries |-> t]]
              /\ s = a \/ s \in {"stop", "failed"}
      BY <1>1, <1>2, <2>1, RetrySteps DEF LoadFails
    <2>3. UNCHANGED <<late, started, req, rows, packs, status, faults>>
      BY <1>2 DEF LoadFails, campaignVars, countVars
    <2>4. packs[r] <= faults /\ s \notin Handed
      BY <1>1, <2>1, <2>2 DEF RunInv, BeforeHandOff, Handed
    <2>5. /\ rows' \in Seq(RowRecords) /\ packs' \in [Runs -> Nat] /\ status' \in Status
          /\ \A i \in DOMAIN rows' : RowInv(i)'
          /\ \A q \in Runs : q # r => packs'[q] = packs[q]
          /\ faults' \in Nat /\ faults <= faults'
          /\ packs'[r] = packs[r]
      BY <1>1, <2>3 DEF ControlTypeOK, HandOffInv, RowInv
    <2>6. /\ packs'[r] <= 1 + faults'
          /\ s \in BeforeHandOff => packs'[r] <= faults'
          /\ s \in Handed => packs'[r] > 0
      BY <1>1, <2>3, <2>4, <2>5
    <2>7. UNCHANGED <<late, started, req>>
      BY <2>3
    <2>8. QED
      BY <2>1, <2>2, <2>5, <2>6, <2>7, RunMoves
  <1>3. CASE AttemptFails(r)
    <2>1. Live(r) /\ faults' = faults + 1
      BY <1>3 DEF AttemptFails, Fault
    <2>2. PICK s \in WorkflowSteps, t \in Nat :
              /\ wf' = [wf EXCEPT ![r] = [step |-> s, tries |-> t]]
              /\ s = a \/ s \in {"stop", "failed"}
      BY <1>1, <1>3, <2>1, RetrySteps DEF AttemptFails
    <2>3. UNCHANGED <<late, started, req, rows, packs, status>>
      BY <1>3 DEF AttemptFails, campaignVars
    <2>4. /\ packs'[r] <= 1 + faults'
          /\ s \in BeforeHandOff => packs'[r] <= faults'
          /\ s \in Handed => packs'[r] > 0
      BY <1>1, <2>1, <2>2, <2>3 DEF RunInv, BeforeHandOff, Handed
    <2>5. /\ rows' \in Seq(RowRecords) /\ packs' \in [Runs -> Nat] /\ status' \in Status
          /\ \A i \in DOMAIN rows' : RowInv(i)'
          /\ \A q \in Runs : q # r => packs'[q] = packs[q]
      BY <1>1, <2>3 DEF ControlTypeOK, HandOffInv, RowInv
    <2>6. faults' \in Nat /\ faults <= faults'
      BY <1>1, <2>1
    <2>7. UNCHANGED <<late, started, req>>
      BY <2>3
    <2>8. QED
      BY <2>1, <2>2, <2>4, <2>5, <2>6, <2>7, RunMoves
  <1>4. CASE AttemptSucceeds(r) \/ ResultLost(r)
    <2>1. Live(r) /\ Effect(r, a) /\ a \in Activities
      BY <1>4 DEF AttemptSucceeds, ResultLost, Live
    <2>2. a = "close" => packs[r] > 0
      BY <1>1 DEF RunInv, Handed
    <2>3. /\ rows' \in Seq(RowRecords) /\ \A i \in DOMAIN rows' : RowInv(i)'
          /\ packs' \in [Runs -> Nat] /\ status' \in Status
          /\ packs'[r] = packs[r] + (IF a = "publish" THEN 1 ELSE 0)
          /\ \A q \in Runs : q # r => packs'[q] = packs[q]
      BY <2>1, <2>2, EffectKeeps
    <2>4. UNCHANGED <<late, started, req>>
      BY <1>4 DEF AttemptSucceeds, ResultLost
    <2>5. CASE AttemptSucceeds(r)
      <3> DEFINE s == StepAfter(a)
      <3>1. wf' = [wf EXCEPT ![r] = [step |-> s, tries |-> 0]] /\ faults' = faults
        BY <2>5 DEF AttemptSucceeds, Proceed, countVars
      <3>2. /\ s \in WorkflowSteps
            /\ s \in BeforeHandOff => a \in {"load", "sending"}
            /\ s \in Handed => a \in {"publish", "close"}
        BY <2>1, Disjoint DEF StepAfter, WorkflowSteps, BeforeHandOff, Handed
      <3> HIDE DEF s
      <3>3. /\ packs'[r] <= 1 + faults'
            /\ s \in BeforeHandOff => packs'[r] <= faults'
            /\ s \in Handed => packs'[r] > 0
        <4>1. CASE a = "publish"
          BY <1>1, <2>3, <3>1, <3>2, <4>1 DEF RunInv, BeforeHandOff
        <4>2. CASE a # "publish"
          BY <1>1, <2>2, <2>3, <3>1, <3>2, <4>2 DEF RunInv, BeforeHandOff
        <4>3. QED
          BY <4>1, <4>2
      <3>4. faults' \in Nat /\ faults <= faults' /\ 0 \in Nat
        BY <1>1, <3>1
      <3>5. QED
        BY <2>1, <2>3, <2>4, <3>1, <3>2, <3>3, <3>4, RunMoves
    <2>6. CASE ResultLost(r)
      <3>1. faults' = faults + 1
        BY <2>6 DEF ResultLost, Fault
      <3>2. PICK s \in WorkflowSteps, t \in Nat :
                /\ wf' = [wf EXCEPT ![r] = [step |-> s, tries |-> t]]
                /\ s = a \/ s \in {"stop", "failed"}
        BY <1>1, <2>1, <2>6, RetrySteps DEF ResultLost
      <3>3. /\ packs'[r] <= 1 + faults'
            /\ s \in BeforeHandOff => packs'[r] <= faults'
            /\ s \in Handed => packs'[r] > 0
        <4>1. CASE a = "publish"
          BY <1>1, <2>3, <3>1, <3>2, <4>1 DEF RunInv, BeforeHandOff, Handed
        <4>2. CASE a # "publish"
          BY <1>1, <2>3, <3>1, <3>2, <4>2 DEF RunInv, BeforeHandOff, Handed
        <4>3. QED
          BY <4>1, <4>2
      <3>4. faults' \in Nat /\ faults <= faults'
        BY <1>1, <3>1
      <3>5. QED
        BY <2>1, <2>3, <2>4, <3>2, <3>3, <3>4, RunMoves
    <2>7. QED
      BY <1>4, <2>5, <2>6
  <1>5. QED
    BY <1>2, <1>3, <1>4 DEF Work

\* The attempt in flight of a cancelled workflow, which was paid for.
LEMMA LateKeeps ==
    ASSUME HandOffInv, NEW r \in Runs, LateEffect(r)
    PROVE  HandOffInv'
  <1> DEFINE a == late[r]
  <1>1. ControlTypeOK /\ RunInv(r) /\ packs[r] \in Nat /\ faults \in Nat
    BY DEF HandOffInv, ControlTypeOK
  <1>2. /\ a \in Activities /\ late' = [late EXCEPT ![r] = "none"]
        /\ UNCHANGED <<wf, started, req, faults>>
        /\ wf[r].step = "cancelled"
    BY <1>1 DEF LateEffect, ControlTypeOK, RunInv, countVars
  <1>3. /\ rows' \in Seq(RowRecords) /\ \A i \in DOMAIN rows' : RowInv(i)'
        /\ packs' \in [Runs -> Nat] /\ status' \in Status
        /\ packs'[r] <= 1 + faults
        /\ \A q \in Runs : q # r => packs'[q] = packs[q]
    <2>1. CASE Effect(r, a)
      <3>1. a = "close" => packs[r] > 0
        BY <1>1 DEF RunInv
      <3>2. /\ rows' \in Seq(RowRecords) /\ \A i \in DOMAIN rows' : RowInv(i)'
            /\ packs' \in [Runs -> Nat] /\ status' \in Status
            /\ packs'[r] = packs[r] + (IF a = "publish" THEN 1 ELSE 0)
            /\ \A q \in Runs : q # r => packs'[q] = packs[q]
        BY <1>2, <2>1, <3>1, EffectKeeps
      <3>3. packs'[r] <= 1 + faults
        BY <1>1, <3>2 DEF RunInv
      <3>4. QED
        BY <3>2, <3>3
    <2>2. CASE UNCHANGED <<status, rows, packs>>
      BY <1>1, <2>2 DEF ControlTypeOK, HandOffInv, RunInv, RowInv
    <2>3. QED
      BY <2>1, <2>2 DEF LateEffect
  <1>4. late' \in [Runs -> Activities \cup {"none"}]
    BY <1>1, <1>2 DEF ControlTypeOK
  <1>5. ControlTypeOK'
    BY <1>1, <1>2, <1>3, <1>4 DEF ControlTypeOK
  <1>6. RunInv(r)'
    <2>1. late'[r] = "none"
      BY <1>1, <1>2 DEF ControlTypeOK
    <2>2. QED
      BY <1>1, <1>2, <1>3, <2>1 DEF RunInv, BeforeHandOff, Handed
  <1>7. ASSUME NEW q \in Runs, q # r PROVE RunInv(q)'
    <2>1. late'[q] = late[q] /\ packs'[q] = packs[q] /\ RunInv(q)
      BY <1>1, <1>2, <1>3, <1>7 DEF ControlTypeOK, HandOffInv
    <2>2. QED
      BY <1>2, <2>1 DEF RunInv
  <1>8. QED
    BY <1>3, <1>5, <1>6, <1>7 DEF HandOffInv

LEMMA NextKeepsHandOff ==
    ASSUME ControlAssumption, HandOffInv, [Next]_vars
    PROVE  HandOffInv'
  <1>1. ControlTypeOK /\ faults \in Nat /\ status \in Status /\ req \in [Clients -> Requested]
    BY DEF HandOffInv, ControlTypeOK
  <1>2. ASSUME NEW c \in Clients, Begin(c) \/ Handle(c) PROVE HandOffInv'
    BY <1>2, BeginKeeps, ReadKeeps, CancelKeeps, StartKeeps, CreateKeeps, MarkKeeps DEF Handle
  <1>3. ASSUME NEW r \in Runs, Work(r) \/ LateEffect(r) PROVE HandOffInv'
    BY <1>3, WorkKeeps, LateKeeps
  <1>4. CASE TrackerCompletes
    <2>1. UNCHANGED <<rows, wf, late, packs, started, faults, req>> /\ status' \in Status
      BY <1>4 DEF TrackerCompletes, wfVars, countVars, Status
    <2>2. QED
      BY <1>1, <2>1, RequestElsewhere
  <1>5. CASE UNCHANGED vars
    <2>1. UNCHANGED <<rows, wf, late, packs, started, faults, req, status>>
      BY <1>5 DEF vars, wfVars, countVars, campaignVars
    <2>2. QED
      BY <1>1, <2>1, RequestElsewhere
  <1>6. QED
    BY <1>2, <1>3, <1>4, <1>5 DEF Next

LEMMA InitHandOff ==
    ASSUME ControlAssumption, Init
    PROVE  HandOffInv
  <1>1. NoRequest \in Requested
    BY DEF NoRequest, Requested, Ops, SavingOps, Status, Steps
  <1>2. ControlTypeOK
    BY <1>1, Disjoint DEF Init, ControlTypeOK, WorkflowSteps, Status
  <1>3. \A r \in Runs : RunInv(r)
    BY DEF Init, RunInv, BeforeHandOff, Handed
  <1>4. \A i \in DOMAIN rows : RowInv(i)
    BY DEF Init
  <1>5. QED
    BY <1>2, <1>3, <1>4 DEF HandOffInv

\* A campaign whose execution is closed as completed was handed to the packer,
\* and no workflow hands it over more than once but for a fault.
THEOREM CampaignsAreHandedOver == Spec => []HandedOverOnce
  <1>1. Init => HandOffInv
    BY InitHandOff, ControlAssumption
  <1>2. HandOffInv /\ [Next]_vars => HandOffInv'
    BY NextKeepsHandOff, ControlAssumption
  <1>3. HandOffInv => HandedOverOnce
    <2>1. HandOffInv => CompletedHandedOff
      BY DEF HandOffInv, RowInv, CompletedHandedOff
    <2>2. HandOffInv => OnePackPerFault
      BY DEF HandOffInv, RunInv, OnePackPerFault
    <2>3. QED
      BY <2>1, <2>2 DEF HandedOverOnce
  <1>4. QED
    BY <1>1, <1>2, <1>3, PTL DEF Spec

-------------------------------------------------------------------------------
(* A stop is final.                                                          *)

\* A request that is about to save has read a status it accepts.
SaveInv ==
    \A c \in Clients :
        req[c].at = "save" => req[c].seen \in AcceptedFrom(req[c].op, req[c].to)

LEMMA SavesElsewhere ==
    ASSUME SaveInv, HandOffInv, NEW c \in Clients, NEW q,
           req' = [req EXCEPT ![c] = q],
           q.at = "save" => q.seen \in AcceptedFrom(q.op, q.to)
    PROVE  SaveInv'
  <1>1. req \in [Clients -> Requested]
    BY DEF HandOffInv, ControlTypeOK
  <1>2. req'[c] = q /\ \A d \in Clients : d # c => req'[d] = req[d]
    BY <1>1
  <1>3. QED
    BY <1>2 DEF SaveInv

\* A request that moves on, but not to its save.
LEMMA MovesOn ==
    ASSUME SaveInv, HandOffInv, NEW c \in Clients,
           Return(c) \/ \E step \in Steps \ {"save"} : GoTo(c, step)
    PROVE  SaveInv'
  <1>1. req[c] \in Requested
    BY DEF HandOffInv, ControlTypeOK
  <1>2. CASE Return(c)
    <2>1. NoRequest.at # "save"
      BY DEF NoRequest
    <2>2. QED
      BY <1>2, <2>1, SavesElsewhere DEF Return
  <1>3. ASSUME NEW step \in Steps \ {"save"}, GoTo(c, step) PROVE SaveInv'
    <2>1. req' = [req EXCEPT ![c] = [req[c] EXCEPT !.at = step]]
      BY <1>3 DEF GoTo
    <2>2. [req[c] EXCEPT !.at = step].at # "save"
      BY <1>1 DEF Requested
    <2>3. QED
      BY <2>1, <2>2, SavesElsewhere
  <1>4. QED
    BY <1>2, <1>3

LEMMA RequestKeepsSaves ==
    ASSUME SaveInv, HandOffInv, NEW c \in Clients, Begin(c) \/ Handle(c)
    PROVE  SaveInv'
  <1>1. req[c] \in Requested
    BY DEF HandOffInv, ControlTypeOK
  <1>2. CASE Begin(c)
    <2>1. \A op \in Ops : FirstStep(op) \subseteq Steps \ {"save"}
      BY DEF FirstStep, Steps
    <2>2. PICK op \in Ops, to \in Status : \E at \in FirstStep(op) :
            req' = [req EXCEPT ![c] = [NoRequest EXCEPT !.op = op, !.to = to, !.at = at]]
      BY <1>2, Zenon DEF Begin
    <2>3. PICK at \in Steps \ {"save"} :
            req' = [req EXCEPT ![c] = [NoRequest EXCEPT !.op = op, !.to = to, !.at = at]]
      BY <2>1, <2>2, Zenon
    <2>4. [NoRequest EXCEPT !.op = op, !.to = to, !.at = at].at # "save"
      BY DEF NoRequest
    <2>5. QED
      BY <2>3, <2>4, SavesElsewhere
  <1>3. CASE ReadActive(c)
    <2> DEFINE e == ActiveExecution
    <2>1. \/ Return(c)
          \/ \E step \in Steps \ {"save"} : GoTo(c, step)
          \/ req' = [req EXCEPT ![c] = [req[c] EXCEPT !.at = "signal", !.exec = e]]
          \/ req' = [req EXCEPT ![c] = [req[c] EXCEPT !.at = "cancel", !.exec = e,
                                                      !.run = rows[e].run]]
      BY <1>3 DEF ReadActive, Steps, HandOffInv, ControlTypeOK
    <2>2. /\ [req[c] EXCEPT !.at = "signal", !.exec = e].at # "save"
          /\ [req[c] EXCEPT !.at = "cancel", !.exec = e, !.run = rows[e].run].at # "save"
      BY <1>1 DEF Requested
    <2>3. QED
      BY <2>1, <2>2, MovesOn, SavesElsewhere
  <1>4. CASE ReadActiveToCancel(c)
    <2> DEFINE e == ActiveExecution
    <2>1. \/ Return(c)
          \/ \E r : req' = [req EXCEPT ![c] = [req[c] EXCEPT !.at = "cancel", !.exec = e, !.run = r]]
      BY <1>4, Zenon DEF ReadActiveToCancel
    <2>2. ASSUME NEW r,
                 req' = [req EXCEPT ![c] = [req[c] EXCEPT !.at = "cancel", !.exec = e, !.run = r]]
          PROVE  SaveInv'
      <3>1. [req[c] EXCEPT !.at = "cancel", !.exec = e, !.run = r].at # "save"
        BY <1>1 DEF Requested
      <3>2. QED
        BY <2>2, <3>1, SavesElsewhere
    <2>3. QED
      BY <2>1, <2>2, MovesOn, Zenon
  <1>5. CASE StartWorkflow(c)
    <2>1. req' = [req EXCEPT ![c] = [req[c] EXCEPT !.at = "create", !.run = started + 1]]
      BY <1>5 DEF StartWorkflow
    <2>2. [req[c] EXCEPT !.at = "create", !.run = started + 1].at # "save"
      BY <1>1 DEF Requested
    <2>3. QED
      BY <2>1, <2>2, SavesElsewhere
  <1>6. CASE Find(c)
    <2>1. \/ Return(c)
          \/ /\ req' = [req EXCEPT ![c] = [req[c] EXCEPT !.at = "save", !.seen = status]]
             /\ status \in AcceptedFrom(req[c].op, req[c].to)
      BY <1>6 DEF Find
    <2> DEFINE q == [req[c] EXCEPT !.at = "save", !.seen = status]
    <2>2. q.seen = status /\ q.op = req[c].op /\ q.to = req[c].to
      BY <1>1 DEF Requested
    <2> HIDE DEF q
    <2>3. \/ Return(c)
          \/ /\ req' = [req EXCEPT ![c] = q]
             /\ q.seen \in AcceptedFrom(q.op, q.to)
      BY <2>1, <2>2 DEF q
    <2>4. QED
      BY <2>3, MovesOn, SavesElsewhere
  <1>7. CASE \/ CheckExists(c) \/ Signal(c) \/ CancelWorkflow(c) \/ CreateExecution(c)
             \/ CreateFails(c) \/ Compensate(c) \/ Save(c) \/ SoftRemove(c)
             \/ MarkExecution(c) \/ RequestFails(c)
    <2>1. Return(c) \/ \E step \in Steps \ {"save"} : GoTo(c, step)
      BY <1>7 DEF CheckExists, Signal, CancelWorkflow, CreateExecution, CreateFails, Compensate,
         Save, AfterSave, SoftRemove, MarkExecution, RequestFails, Steps
    <2>2. QED
      BY <2>1, MovesOn
  <1>8. QED
    BY <1>2, <1>3, <1>4, <1>5, <1>6, <1>7 DEF Handle

\* What a step may do to a stopped campaign.
LeavesStop ==
    status = "STOPPED" /\ status' # "STOPPED" =>
        \/ status' = "COMPLETED" /\ \E r \in Runs : packs[r] > 0
        \/ status' = "SENDING" /\ \E r \in Runs : "sending" \in {wf[r].step, late[r]}
        \/ \E c \in Open : req[c].at = "save" /\ req[c].seen # "STOPPED"

\* No operation that has read STOPPED saves anything else.
LEMMA SaveLeavesStop ==
    ASSUME SaveInv, HandOffInv, NEW c \in Clients, Save(c)
    PROVE  LeavesStop
  <1>1. /\ req[c].at = "save" /\ req[c].op # "remove" /\ c \in Open
        /\ status' = SavedStatus(req[c].op, req[c].to, req[c].seen)
        /\ req[c].seen \in AcceptedFrom(req[c].op, req[c].to)
    BY DEF Save, At, Open, SaveInv
  <1>2. req[c].op \in Ops /\ req[c].to \in Status
    BY DEF HandOffInv, ControlTypeOK, Requested
  <1>3. \A to \in Status : to \in ValidTransitions["STOPPED"] => to = "STOPPED"
    BY DEF ValidTransitions
  <1>4. req[c].seen = "STOPPED" => status' = "STOPPED"
    BY <1>1, <1>2, <1>3 DEF AcceptedFrom, SavedStatus, Ops, SavingOps
  <1>5. QED
    BY <1>1, <1>4 DEF LeavesStop

LEMMA EffectLeavesStop ==
    ASSUME NEW r \in Runs, NEW a \in {wf[r].step, late[r]}, Effect(r, a)
    PROVE  LeavesStop
  <1>1. (status' = "SENDING" /\ a = "sending") \/ status' = "STOPPED" \/ status' = status
    BY DEF Effect
  <1>2. QED
    BY <1>1 DEF LeavesStop

LEMMA NextLeavesStop ==
    ASSUME SaveInv, HandOffInv, [Next]_vars
    PROVE  SaveInv' /\ LeavesStop
  <1>1. ASSUME NEW c \in Clients, Begin(c) \/ Handle(c) PROVE SaveInv' /\ LeavesStop
    <2>1. SaveInv'
      BY <1>1, RequestKeepsSaves
    <2>2. CASE Save(c)
      BY <2>1, <2>2, SaveLeavesStop
    <2>3. CASE ~Save(c)
      <3>1. status' = status
        <4>1. CASE Begin(c)
          BY <4>1 DEF Begin, campaignVars
        <4>2. CASE \/ CheckExists(c) \/ ReadActive(c) \/ ReadActiveToCancel(c) \/ Signal(c)
                   \/ CancelWorkflow(c) \/ StartWorkflow(c) \/ CreateExecution(c)
          BY <4>2 DEF CheckExists, ReadActive, ReadActiveToCancel, Signal, CancelWorkflow,
             StartWorkflow, CreateExecution, campaignVars
        <4>3. CASE \/ CreateFails(c) \/ Compensate(c) \/ Find(c) \/ SoftRemove(c)
                   \/ MarkExecution(c) \/ RequestFails(c)
          BY <4>3 DEF CreateFails, Compensate, Find, SoftRemove, MarkExecution, RequestFails,
             campaignVars
        <4>4. QED
          BY <1>1, <2>3, <4>1, <4>2, <4>3 DEF Handle
      <3>2. QED
        BY <2>1, <3>1 DEF LeavesStop
    <2>4. QED
      BY <2>2, <2>3
  <1>2. ASSUME NEW r \in Runs, Work(r) \/ LateEffect(r) PROVE SaveInv' /\ LeavesStop
    <2>1. req' = req
      BY <1>2 DEF Work, AttemptSucceeds, LoadFails, AttemptFails, ResultLost, LateEffect
    <2>2. SaveInv'
      BY <2>1 DEF SaveInv
    <2>3. Effect(r, wf[r].step) \/ Effect(r, late[r]) \/ status' = status
      BY <1>2 DEF Work, AttemptSucceeds, LoadFails, AttemptFails, ResultLost, LateEffect,
         campaignVars
    <2>4. LeavesStop
      BY <2>3, EffectLeavesStop DEF LeavesStop
    <2>5. QED
      BY <2>2, <2>4
  <1>3. CASE TrackerCompletes
    BY <1>3 DEF TrackerCompletes, SaveInv, LeavesStop
  <1>4. CASE UNCHANGED vars
    BY <1>4 DEF vars, campaignVars, SaveInv, LeavesStop
  <1>5. QED
    BY <1>1, <1>2, <1>3, <1>4 DEF Next

\* A stopped campaign becomes something else only when the tracker completes
\* what was packed, a workflow attempt writes SENDING late, or a request writes
\* what it had read before the stop.
THEOREM StopsAreFinal == Spec => StopIsFinal
  <1>1. Init => HandOffInv /\ SaveInv
    <2>1. Init => SaveInv
      BY DEF Init, SaveInv, NoRequest
    <2>2. QED
      BY <2>1, InitHandOff, ControlAssumption
  <1>2. HandOffInv /\ SaveInv /\ [Next]_vars => (HandOffInv /\ SaveInv)'
    BY NextKeepsHandOff, NextLeavesStop, ControlAssumption
  <1>3. HandOffInv /\ SaveInv /\ [Next]_vars =>
          [status = "STOPPED" /\ status' # "STOPPED" =>
             \/ status' = "COMPLETED" /\ \E r \in Runs : packs[r] > 0
             \/ status' = "SENDING" /\ \E r \in Runs : "sending" \in {wf[r].step, late[r]}
             \/ \E c \in Open : req[c].at = "save" /\ req[c].seen # "STOPPED"]_vars
    BY NextLeavesStop DEF LeavesStop
  <1>4. QED
    BY <1>1, <1>2, <1>3, PTL DEF Spec, StopIsFinal

-------------------------------------------------------------------------------
(* The rows of the executions follow the workflows.                          *)
(*                                                                           *)
(* While requests come one at a time the gate is exact: at most one row is   *)
(* active, and a request that has passed the gate, or holds a row, knows     *)
(* which.  Without a crash a live workflow has its row or a request that is  *)
(* about to insert it; without a fault either the row is still active, so    *)
(* cancel, which names a workflow and marks the newest active row, marks the *)
(* row of the workflow it has cancelled.                                     *)

(* What each step does to a request, a row and a workflow.                   *)

Turns(c, q) == req' = [req EXCEPT ![c] = q]

Begins(c, q) ==
    /\ Begin(c)
    /\ q.exec = 0 /\ q.run = 0 /\ q.at \in FirstStep(q.op)
    /\ q.op = "execute" => started + Cardinality(Executing) < MaxRuns

GoesOn(c, q) ==
    /\ q.op = req[c].op /\ q.exec = req[c].exec /\ q.run = req[c].run
    /\ \/ req[c].at = "exists" /\ q.at = "active"
       \/ req[c].at = "active" /\ q.at = "start" /\ q.op = "execute" /\ ActiveRows = {}
       \/ req[c].at = "active" /\ q.at = "find" /\ q.op = "stop" /\ ActiveRows = {}
       \/ req[c].at = "signal" /\ q.at = "find"
       \/ req[c].at = "create" /\ q.at = "compensate"
       \/ req[c].at = "find" /\ q.at = "save"
       \/ req[c].at = "save" /\ q.at = "mark" /\ q.exec # 0

\* The gate has found an active execution.
Finds(c, q) ==
    /\ req[c].at = "active" /\ q.op = req[c].op
    /\ q.exec = ActiveExecution /\ q.exec # 0
    /\ \/ q.at = "signal" /\ q.op \in {"pause", "resume"} /\ q.run = req[c].run
       \/ q.at = "cancel" /\ q.op = "stop" /\ q.run = rows[q.exec].run

\* cancel names a workflow; the active execution, if any, comes with it.
Names(c, q) ==
    /\ req[c].at = "active" /\ q.op = req[c].op /\ q.op = "cancel" /\ q.at = "cancel"
    /\ q.exec = ActiveExecution
    /\ \/ q.run \in 1 .. started
       \/ q.exec # 0 /\ q.run = rows[q.exec].run

RequestKind(c, q) ==
    q = NoRequest \/ Begins(c, q) \/ GoesOn(c, q) \/ Finds(c, q) \/ Names(c, q)

AtStep(q, step) == [q EXCEPT !.at = step]
AtExec(q, step, e) == [q EXCEPT !.at = step, !.exec = e]
AtRun(q, step, r) == [q EXCEPT !.at = step, !.run = r]
AtBoth(q, step, e, r) == [q EXCEPT !.at = step, !.exec = e, !.run = r]
AtSeen(q, step, s) == [q EXCEPT !.at = step, !.seen = s]

LEMMA AtStepType ==
    ASSUME NEW q \in Requested, NEW step \in Steps, NEW p, p = AtStep(q, step)
    PROVE  p \in Requested /\ p.op = q.op /\ p.at = step /\ p.exec = q.exec /\ p.run = q.run
  BY DEF Requested, AtStep

LEMMA AtExecType ==
    ASSUME NEW q \in Requested, NEW step \in Steps, NEW e \in Nat, NEW p, p = AtExec(q, step, e)
    PROVE  p \in Requested /\ p.op = q.op /\ p.at = step /\ p.exec = e /\ p.run = q.run
  BY DEF Requested, AtExec

LEMMA AtRunType ==
    ASSUME NEW q \in Requested, NEW step \in Steps, NEW r \in Nat, NEW p, p = AtRun(q, step, r)
    PROVE  p \in Requested /\ p.op = q.op /\ p.at = step /\ p.exec = q.exec /\ p.run = r
  BY DEF Requested, AtRun

LEMMA AtBothType ==
    ASSUME NEW q \in Requested, NEW step \in Steps, NEW e \in Nat, NEW r \in Nat, NEW p, p = AtBoth(q, step, e, r)
    PROVE  p \in Requested /\ p.op = q.op /\ p.at = step /\ p.exec = e /\ p.run = r
  BY DEF Requested, AtBoth

LEMMA AtSeenType ==
    ASSUME NEW q \in Requested, NEW step \in Steps, NEW s \in Status, NEW p, p = AtSeen(q, step, s)
    PROVE  p \in Requested /\ p.op = q.op /\ p.at = step /\ p.exec = q.exec /\ p.run = q.run
  BY DEF Requested, AtSeen

LEMMA EmptyRequest ==
    /\ NoRequest \in Requested
    /\ NoRequest.at = "idle" /\ NoRequest.exec = 0 /\ NoRequest.run = 0
  BY DEF NoRequest, Requested, Ops, SavingOps, Status, Steps

NewRequest(op, to, at) == [NoRequest EXCEPT !.op = op, !.to = to, !.at = at]

LEMMA NewRequests ==
    ASSUME NEW op \in Ops, NEW to \in Status, NEW at \in Steps, NEW q, q = NewRequest(op, to, at)
    PROVE  q \in Requested /\ q.op = op /\ q.at = at /\ q.exec = 0 /\ q.run = 0
  <1> DEFINE q1 == [op |-> op, to |-> "DRAFT", at |-> "idle", exec |-> 0, run |-> 0, seen |-> "DRAFT"]
             q2 == [op |-> op, to |-> to, at |-> "idle", exec |-> 0, run |-> 0, seen |-> "DRAFT"]
             q3 == [op |-> op, to |-> to, at |-> at, exec |-> 0, run |-> 0, seen |-> "DRAFT"]
  <1>1. [NoRequest EXCEPT !.op = op] = q1
    BY DEF NoRequest
  <1>2. [q1 EXCEPT !.to = to] = q2
    OBVIOUS
  <1>3. [q2 EXCEPT !.at = at] = q3
    OBVIOUS
  <1>4. q = q3
    BY <1>1, <1>2, <1>3, Zenon DEF NewRequest
  <1>5. "DRAFT" \in Status
    BY DEF Status
  <1>6. QED
    BY <1>4, <1>5 DEF Requested

LEMMA ActiveIsFound ==
    ASSUME ControlTypeOK
    PROVE  /\ ActiveExecution = 0 <=> ActiveRows = {}
           /\ ActiveExecution # 0 => ActiveExecution \in ActiveRows
  <1>1. ActiveRows \subseteq 1 .. Len(rows) /\ Len(rows) \in Nat
    BY DEF ActiveRows, ControlTypeOK
  <1>2. ActiveRows # {} => Max(ActiveRows) \in ActiveRows
    BY <1>1, LastPosition
  <1>3. QED
    BY <1>1, <1>2 DEF ActiveExecution

LEMMA BeginTurns ==
    ASSUME HandOffInv, NEW c \in Clients, Begin(c)
    PROVE  /\ \E q \in Requested : Turns(c, q) /\ Begins(c, q)
           /\ UNCHANGED <<rows, wf, late, started>>
  <1>1. PICK op \in Ops, to \in Status :
          /\ op = "execute" => started + Cardinality(Executing) < MaxRuns
          /\ \E at \in FirstStep(op) :
                req' = [req EXCEPT ![c] = [NoRequest EXCEPT !.op = op, !.to = to, !.at = at]]
    BY Zenon DEF Begin
  <1>2. PICK at \in FirstStep(op) :
            req' = [req EXCEPT ![c] = [NoRequest EXCEPT !.op = op, !.to = to, !.at = at]]
    BY <1>1, Zenon
  <1> DEFINE q == NewRequest(op, to, at)
  <1>3. at \in Steps
    BY DEF FirstStep, Steps
  <1>4. q \in Requested /\ q.op = op /\ q.at = at /\ q.exec = 0 /\ q.run = 0
    BY <1>3, NewRequests
  <1> HIDE DEF q
  <1>5. Turns(c, q)
    BY <1>2, Zenon DEF Turns, q, NewRequest
  <1>6. Begins(c, q)
    BY <1>1, <1>4 DEF Begins
  <1>7. UNCHANGED <<rows, wf, late, started>>
    BY DEF Begin, wfVars
  <1>8. QED
    BY <1>4, <1>5, <1>6, <1>7

LEMMA ReadTurns ==
    ASSUME HandOffInv, NEW c \in Clients,
           \/ CheckExists(c) \/ ReadActive(c) \/ ReadActiveToCancel(c) \/ Signal(c)
           \/ CreateFails(c) \/ Find(c) \/ Save(c) \/ SoftRemove(c) \/ RequestFails(c)
    PROVE  /\ \E q \in Requested : /\ Turns(c, q)
                                   /\ q = NoRequest \/ GoesOn(c, q) \/ Finds(c, q) \/ Names(c, q)
           /\ UNCHANGED <<rows, wf, late, started, overlapped>>
  <1> DEFINE e == ActiveExecution
             Kind(q) == q = NoRequest \/ GoesOn(c, q) \/ Finds(c, q) \/ Names(c, q)
             Step(step) == AtStep(req[c], step)
  <1>1. ControlTypeOK /\ req[c] \in Requested /\ e \in Nat /\ (e # 0 => rows[e] \in RowRecords)
    BY ActiveIsARow DEF HandOffInv, ControlTypeOK
  <1>2. e # 0 => rows[e].run \in Nat
    BY <1>1 DEF RowRecords
  <1>3. e = 0 <=> ActiveRows = {}
    BY <1>1, ActiveIsFound
  <1>4. \A step \in Steps : /\ Step(step) \in Requested /\ Step(step).op = req[c].op
                             /\ Step(step).at = step /\ Step(step).exec = req[c].exec
                             /\ Step(step).run = req[c].run
    BY <1>1, AtStepType
  <1>5. \A step \in Steps : GoTo(c, step) => Turns(c, Step(step))
    BY DEF GoTo, Turns, AtStep
  <1>6. Return(c) => Turns(c, NoRequest) /\ Kind(NoRequest) /\ NoRequest \in Requested
    BY EmptyRequest DEF Return, Turns
  <1> HIDE DEF e, Step
  <1>7. UNCHANGED <<rows, wf, late, started, overlapped>>
    BY DEF CheckExists, ReadActive, ReadActiveToCancel, Signal, CreateFails, Find, Save,
       SoftRemove, RequestFails, wfVars, countVars
  <1>8. CASE Return(c)
    BY <1>6, <1>7, <1>8
  <1>9. ASSUME NEW step \in Steps, GoTo(c, step), GoesOn(c, Step(step))
        PROVE  \E q \in Requested : Turns(c, q) /\ Kind(q)
    BY <1>4, <1>5, <1>9
  <1>10. CASE CheckExists(c)
    <2>1. Return(c) \/ (GoTo(c, "active") /\ req[c].at = "exists")
      BY <1>10 DEF CheckExists, At
    <2>2. CASE GoTo(c, "active") /\ req[c].at = "exists"
      <3>1. "active" \in Steps
        BY DEF Steps
      <3>2. GoesOn(c, Step("active"))
        BY <1>4, <2>2, <3>1 DEF GoesOn
      <3>3. QED
        BY <1>7, <1>9, <2>2, <3>1, <3>2
    <2>3. QED
      BY <1>8, <2>1, <2>2
  <1>11. CASE Signal(c)
    <2>1. Return(c) \/ (GoTo(c, "find") /\ req[c].at = "signal")
      BY <1>11 DEF Signal, At
    <2>2. CASE GoTo(c, "find") /\ req[c].at = "signal"
      <3>1. "find" \in Steps
        BY DEF Steps
      <3>2. GoesOn(c, Step("find"))
        BY <1>4, <2>2, <3>1 DEF GoesOn
      <3>3. QED
        BY <1>7, <1>9, <2>2, <3>1, <3>2
    <2>3. QED
      BY <1>8, <2>1, <2>2
  <1>12. CASE CreateFails(c)
    <2>1. GoTo(c, "compensate") /\ req[c].at = "create"
      BY <1>12 DEF CreateFails, At
    <2>2. "compensate" \in Steps
      BY DEF Steps
    <2>3. GoesOn(c, Step("compensate"))
      BY <1>4, <2>1, <2>2 DEF GoesOn
    <2>4. QED
      BY <1>7, <1>9, <2>1, <2>2, <2>3
  <1>13. CASE Save(c)
    <2>1. Return(c) \/ (GoTo(c, "mark") /\ req[c].at = "save" /\ req[c].exec # 0)
      BY <1>13, Zenon DEF Save, AfterSave, At
    <2>2. CASE GoTo(c, "mark") /\ req[c].at = "save" /\ req[c].exec # 0
      <3>1. "mark" \in Steps
        BY DEF Steps
      <3>2. GoesOn(c, Step("mark"))
        BY <1>4, <2>2, <3>1 DEF GoesOn
      <3>3. QED
        BY <1>7, <1>9, <2>2, <3>1, <3>2
    <2>3. QED
      BY <1>8, <2>1, <2>2
  <1>14. CASE SoftRemove(c) \/ RequestFails(c)
    BY <1>8, <1>14 DEF SoftRemove, RequestFails
  <1>15. CASE Find(c)
    <2>1. \/ Return(c)
          \/ /\ req[c].at = "find" /\ status \in Status
             /\ req' = [req EXCEPT ![c] = [req[c] EXCEPT !.at = "save", !.seen = status]]
      <3>1. status \in Status
        BY <1>1 DEF ControlTypeOK
      <3>2. QED
        BY <1>15, <3>1, Zenon DEF Find, At
    <2>2. CASE /\ req[c].at = "find" /\ status \in Status
               /\ req' = [req EXCEPT ![c] = [req[c] EXCEPT !.at = "save", !.seen = status]]
      <3> DEFINE q == AtSeen(req[c], "save", status)
      <3>0. q = AtSeen(req[c], "save", status)
        OBVIOUS
      <3> HIDE DEF q
      <3>1. "save" \in Steps
        BY DEF Steps
      <3>2. /\ q \in Requested /\ q.op = req[c].op /\ q.at = "save"
            /\ q.exec = req[c].exec /\ q.run = req[c].run
        BY <1>1, <2>2, <3>0, <3>1, AtSeenType
      <3>3. Turns(c, q)
        BY <3>0, <2>2, Zenon DEF Turns, AtSeen, AtExec, AtBoth
      <3>4. GoesOn(c, q)
        BY <2>2, <3>2 DEF GoesOn
      <3>5. QED
        BY <1>7, <3>2, <3>3, <3>4
    <2>3. QED
      BY <1>8, <2>1, <2>2
  <1>16. CASE ReadActive(c)
    <2>1. req[c].at = "active" /\ req[c].op # "cancel"
      BY <1>16 DEF ReadActive, At
    <2>2. \/ Return(c)
          \/ e = 0 /\ req[c].op = "execute" /\ GoTo(c, "start")
          \/ e = 0 /\ req[c].op = "stop" /\ GoTo(c, "find")
          \/ /\ e # 0 /\ req[c].op \in {"pause", "resume"}
             /\ req' = [req EXCEPT ![c] = [req[c] EXCEPT !.at = "signal", !.exec = e]]
          \/ /\ e # 0 /\ req[c].op = "stop"
             /\ req' = [req EXCEPT ![c] = [req[c] EXCEPT !.at = "cancel", !.exec = e,
                                                        !.run = rows[e].run]]
      BY <1>16 DEF ReadActive, e
    <2>3. {"start", "find", "signal", "cancel"} \subseteq Steps
      BY DEF Steps
    <2>4. CASE e = 0 /\ req[c].op = "execute" /\ GoTo(c, "start")
      <3>1. GoesOn(c, Step("start"))
        BY <1>3, <1>4, <2>1, <2>3, <2>4 DEF GoesOn
      <3>2. QED
        BY <1>7, <1>9, <2>3, <2>4, <3>1
    <2>5. CASE e = 0 /\ req[c].op = "stop" /\ GoTo(c, "find")
      <3>1. GoesOn(c, Step("find"))
        BY <1>3, <1>4, <2>1, <2>3, <2>5 DEF GoesOn
      <3>2. QED
        BY <1>7, <1>9, <2>3, <2>5, <3>1
    <2>6. CASE /\ e # 0 /\ req[c].op \in {"pause", "resume"}
               /\ req' = [req EXCEPT ![c] = [req[c] EXCEPT !.at = "signal", !.exec = e]]
      <3> DEFINE q == AtExec(req[c], "signal", e)
      <3>0. q = AtExec(req[c], "signal", e)
        OBVIOUS
      <3> HIDE DEF q
      <3>1. q \in Requested /\ q.op = req[c].op /\ q.at = "signal" /\ q.exec = e /\ q.run = req[c].run
        BY <1>1, <2>3, <3>0, AtExecType
      <3>2. Turns(c, q)
        BY <3>0, <2>6, Zenon DEF Turns, AtSeen, AtExec, AtBoth
      <3>3. Finds(c, q)
        BY <2>1, <2>6, <3>1 DEF Finds, e
      <3>4. QED
        BY <1>7, <3>1, <3>2, <3>3
    <2>7. CASE /\ e # 0 /\ req[c].op = "stop"
               /\ req' = [req EXCEPT ![c] = [req[c] EXCEPT !.at = "cancel", !.exec = e,
                                                          !.run = rows[e].run]]
      <3>9. PICK r \in Nat : r = rows[e].run
        BY <1>2, <2>7
      <3> DEFINE q == AtBoth(req[c], "cancel", e, r)
      <3>0. q = AtBoth(req[c], "cancel", e, r)
        OBVIOUS
      <3> HIDE DEF q
      <3>1. q \in Requested /\ q.op = req[c].op /\ q.at = "cancel" /\ q.exec = e /\ q.run = r
        <4>1. "cancel" \in Steps
          BY DEF Steps
        <4>2. QED
          BY <1>1, <3>0, <4>1, AtBothType
      <3>2. Turns(c, q)
        BY <3>0, <3>9, <2>7, Zenon DEF Turns, AtSeen, AtExec, AtBoth
      <3>3. Finds(c, q)
        BY <2>1, <2>7, <3>9, <3>1 DEF Finds, e
      <3>4. QED
        BY <1>7, <3>1, <3>2, <3>3
    <2>8. QED
      BY <1>8, <2>2, <2>4, <2>5, <2>6, <2>7
  <1>17. CASE ReadActiveToCancel(c)
    <2>1. req[c].at = "active" /\ req[c].op = "cancel"
      BY <1>17 DEF ReadActiveToCancel, At
    <2>2. \/ Return(c)
          \/ \E r \in Nat :
                /\ r \in 1 .. started \/ (e # 0 /\ r = rows[e].run)
                /\ req' = [req EXCEPT ![c] = [req[c] EXCEPT !.at = "cancel", !.exec = e, !.run = r]]
      <3> DEFINE own == IF e = 0 THEN 0 ELSE rows[e].run
      <3>1. PICK r \in (1 .. started) \cup {own} :
                IF r = 0 THEN Return(c)
                ELSE req' = [req EXCEPT ![c] = [req[c] EXCEPT !.at = "cancel", !.exec = e, !.run = r]]
        BY <1>17, ZenonT(40) DEF ReadActiveToCancel, e
      <3>2. r \in Nat /\ (r # 0 => r \in 1 .. started \/ (e # 0 /\ r = rows[e].run))
        <4>1. own \in Nat
          BY <1>2
        <4>2. started \in Nat
          BY <1>1 DEF ControlTypeOK
        <4>3. QED
          BY <4>1, <4>2
      <3>3. QED
        BY <3>1, <3>2, Zenon
    <2>3. CASE \E r \in Nat :
                /\ r \in 1 .. started \/ (e # 0 /\ r = rows[e].run)
                /\ req' = [req EXCEPT ![c] = [req[c] EXCEPT !.at = "cancel", !.exec = e, !.run = r]]
      <3>1. PICK r \in Nat :
                /\ r \in 1 .. started \/ (e # 0 /\ r = rows[e].run)
                /\ req' = [req EXCEPT ![c] = [req[c] EXCEPT !.at = "cancel", !.exec = e, !.run = r]]
        BY <2>3, Zenon
      <3> DEFINE q == AtBoth(req[c], "cancel", e, r)
      <3>0. q = AtBoth(req[c], "cancel", e, r)
        OBVIOUS
      <3> HIDE DEF q
      <3>2. q \in Requested /\ q.op = req[c].op /\ q.at = "cancel" /\ q.exec = e /\ q.run = r
        <4>1. "cancel" \in Steps
          BY DEF Steps
        <4>2. QED
          BY <1>1, <3>0, <4>1, AtBothType
      <3>3. Turns(c, q)
        BY <3>0, <3>1, Zenon DEF Turns, AtSeen, AtExec, AtBoth
      <3>4. Names(c, q)
        BY <2>1, <3>1, <3>2 DEF Names, e
      <3>5. QED
        BY <1>7, <3>2, <3>3, <3>4
    <2>4. QED
      BY <1>8, <2>2, <2>3, Zenon
  <1>18. QED
    BY <1>10, <1>11, <1>12, <1>13, <1>14, <1>15, <1>16, <1>17

LEMMA CancelTurns ==
    ASSUME HandOffInv, NEW c \in Clients, CancelWorkflow(c) \/ Compensate(c)
    PROVE  /\ \E q \in Requested :
                /\ Turns(c, q)
                /\ \/ q = NoRequest /\ (~Live(req[c].run) \/ req[c].at = "compensate")
                   \/ /\ req[c].at = "cancel" /\ q.at = "find" /\ Live(req[c].run)
                      /\ q.op = req[c].op /\ q.exec = req[c].exec /\ q.run = req[c].run
           /\ \/ Live(req[c].run) /\ EndCancelled(req[c].run)
              \/ ~Live(req[c].run) /\ UNCHANGED <<wf, late>>
           /\ req[c].at \in {"cancel", "compensate"}
           /\ UNCHANGED <<rows, started, overlapped, faults, crashes>>
  <1> DEFINE q == AtStep(req[c], "find")
  <1>1. req[c] \in Requested /\ "find" \in Steps
    BY DEF HandOffInv, ControlTypeOK, Steps
  <1>2. /\ q \in Requested /\ q.op = req[c].op /\ q.at = "find"
        /\ q.exec = req[c].exec /\ q.run = req[c].run
    BY <1>1, AtStepType
  <1>3. GoTo(c, "find") => Turns(c, q)
    BY DEF GoTo, Turns, AtStep
  <1>4. Return(c) => Turns(c, NoRequest) /\ NoRequest \in Requested
    BY EmptyRequest DEF Return, Turns
  <1> HIDE DEF q
  <1>5. CASE CancelWorkflow(c)
    BY <1>2, <1>3, <1>4, <1>5 DEF CancelWorkflow, At, countVars
  <1>6. CASE Compensate(c)
    BY <1>4, <1>6 DEF Compensate, At, countVars
  <1>7. QED
    BY <1>5, <1>6

\* The workflow of a request, when it ends as cancelled, alone changes.
LEMMA CancelledOnly ==
    ASSUME ControlTypeOK, NEW r \in Runs, Live(r), EndCancelled(r)
    PROVE  /\ wf'[r].step = "cancelled" /\ wf'[r].tries = 0 /\ ~Live(r)'
           /\ late'[r] # "load"
           /\ \A x \in Runs : x # r => wf'[x] = wf[x] /\ late'[x] = late[x]
  <1> DEFINE cancelled == [step |-> "cancelled", tries |-> 0]
  <1>1. PICK left \in {"none"} \cup ({wf[r].step} \ {"load"}) :
            /\ wf' = [wf EXCEPT ![r] = cancelled]
            /\ late' = [late EXCEPT ![r] = left]
    BY DEF EndCancelled
  <1>2. left # "load"
    OBVIOUS
  <1>3. wf'[r] = cancelled /\ late'[r] = left
    BY <1>1 DEF ControlTypeOK
  <1>4. ~Live(r)'
    BY <1>3, Disjoint DEF Live
  <1>5. QED
    BY <1>1, <1>2, <1>3, <1>4 DEF ControlTypeOK

LEMMA StartTurns ==
    ASSUME HandOffInv, NEW c \in Clients, StartWorkflow(c)
    PROVE  /\ \E q \in Requested :
                /\ Turns(c, q) /\ q.op = req[c].op /\ q.at = "create"
                /\ q.exec = req[c].exec /\ q.run = started + 1
           /\ req[c].at = "start" /\ started' = started + 1
           /\ wf' = [wf EXCEPT ![started + 1] = [step |-> "load", tries |-> 0]]
           /\ UNCHANGED <<rows, late, overlapped, faults, crashes>>
  <1> DEFINE q == AtRun(req[c], "create", started + 1)
  <1>1. req[c] \in Requested /\ "create" \in Steps /\ started + 1 \in Nat
    BY DEF HandOffInv, ControlTypeOK, Steps
  <1>2. /\ q \in Requested /\ q.op = req[c].op /\ q.at = "create"
        /\ q.exec = req[c].exec /\ q.run = started + 1
    BY <1>1, AtRunType
  <1>3. Turns(c, q)
    BY DEF StartWorkflow, Turns, AtRun
  <1> HIDE DEF q
  <1>4. QED
    BY <1>2, <1>3 DEF StartWorkflow, At, countVars

LEMMA CreateTurns ==
    ASSUME HandOffInv, NEW c \in Clients, CreateExecution(c)
    PROVE  /\ Turns(c, NoRequest) /\ req[c].at = "create"
           /\ Len(rows') = Len(rows) + 1 /\ DOMAIN rows' = 1 .. Len(rows) + 1
           /\ DOMAIN rows = 1 .. Len(rows) /\ Len(rows) \in Nat
           /\ \A i \in DOMAIN rows : rows'[i] = rows[i]
           /\ rows'[Len(rows) + 1].run = req[c].run
           /\ rows'[Len(rows) + 1].state = "RUNNING"
           /\ UNCHANGED <<wf, late, started, overlapped, faults, crashes>>
  <1> DEFINE row == [run |-> req[c].run, state |-> "RUNNING"]
  <1>1. rows \in Seq(RowRecords) /\ req[c].run \in Nat
    BY DEF HandOffInv, ControlTypeOK, Requested
  <1>2. rows' = Append(rows, row)
    BY DEF CreateExecution
  <1>3. row \in RowRecords /\ row.run = req[c].run /\ row.state = "RUNNING"
    BY <1>1 DEF RowRecords, ExecutionStatus, ActiveStatuses
  <1> HIDE DEF row
  <1>4. /\ Len(rows') = Len(rows) + 1 /\ DOMAIN rows' = 1 .. Len(rows) + 1
        /\ DOMAIN rows = 1 .. Len(rows) /\ Len(rows) \in Nat
        /\ \A i \in DOMAIN rows : rows'[i] = rows[i]
        /\ rows'[Len(rows) + 1] = row
    BY <1>1, <1>2, <1>3
  <1>5. QED
    BY <1>3, <1>4 DEF CreateExecution, At, Return, Turns, wfVars, countVars

LEMMA MarkTurns ==
    ASSUME HandOffInv, NEW c \in Clients, MarkExecution(c)
    PROVE  /\ Turns(c, NoRequest) /\ req[c].at = "mark"
           /\ DOMAIN rows' = DOMAIN rows /\ Len(rows') = Len(rows)
           /\ \A i \in DOMAIN rows :
                /\ rows'[i].run = rows[i].run
                /\ i # req[c].exec => rows'[i] = rows[i]
                /\ i = req[c].exec => rows'[i].state = MarkedState(req[c].op)
           /\ UNCHANGED <<wf, late, started, overlapped, faults, crashes>>
  <1> DEFINE e == req[c].exec
             state == MarkedState(req[c].op)
  <1>1. rows \in Seq(RowRecords)
    BY DEF HandOffInv, ControlTypeOK
  <1>2. rows' = [rows EXCEPT ![e] = [rows[e] EXCEPT !.state = state]]
    BY DEF MarkExecution
  <1> HIDE DEF e, state
  <1>3. \A i \in DOMAIN rows : rows[i] \in RowRecords
    BY <1>1
  <1>4. \A i \in DOMAIN rows : /\ [rows[i] EXCEPT !.state = state].run = rows[i].run
                               /\ [rows[i] EXCEPT !.state = state].state = state
    BY <1>3 DEF RowRecords
  <1>5. DOMAIN rows' = DOMAIN rows /\ Len(rows') = Len(rows)
    <2>1. Len(rows) \in Nat /\ DOMAIN rows = 1 .. Len(rows)
      BY <1>1
    <2>2. DOMAIN rows' = 1 .. Len(rows)
      BY <1>2, <2>1
    <2>3. QED
      BY <2>1, <2>2
  <1>6. ASSUME NEW i \in DOMAIN rows
        PROVE  /\ rows'[i].run = rows[i].run
               /\ i # e => rows'[i] = rows[i]
               /\ i = e => rows'[i].state = state
    <2>1. CASE i = e
      <3>1. rows'[i] = [rows[i] EXCEPT !.state = state]
        BY <1>2, <2>1, Zenon
      <3>2. QED
        BY <1>4, <2>1, <3>1
    <2>2. CASE i # e
      BY <1>2, <2>2, Zenon
    <2>3. QED
      BY <2>1, <2>2
  <1>7. Turns(c, NoRequest) /\ req[c].at = "mark"
        /\ UNCHANGED <<wf, late, started, overlapped, faults, crashes>>
    BY DEF MarkExecution, At, Return, Turns, wfVars, countVars
  <1>8. QED
    BY <1>5, <1>6, <1>7 DEF e, state

\* A workflow closes rows of its own only, with its last activity unless the
\* result of that is lost.
Closes(r) ==
    /\ DOMAIN rows' = DOMAIN rows /\ Len(rows') = Len(rows)
    /\ \A i \in DOMAIN rows :
         /\ rows'[i].run = rows[i].run
         /\ \/ rows'[i] = rows[i]
            \/ rows[i].run = r /\ rows'[i].state \in {"completed", "failed"}

LEMMA EffectCloses ==
    ASSUME ControlTypeOK, NEW r, NEW a \in Activities, Effect(r, a)
    PROVE  /\ Closes(r)
           /\ a \notin {"close", "fail"} => rows' = rows
  <1>1. CASE rows' = rows
    BY <1>1 DEF Closes
  <1>2. ASSUME NEW state \in {"completed", "failed"}, SetState(r, state) PROVE Closes(r)
    <2>1. \A i \in DOMAIN rows : rows[i] \in RowRecords
      BY DEF ControlTypeOK
    <2>2. \A i \in DOMAIN rows : /\ [rows[i] EXCEPT !.state = state].run = rows[i].run
                                 /\ [rows[i] EXCEPT !.state = state].state = state
      BY <2>1 DEF RowRecords
    <2>3. /\ DOMAIN rows' = DOMAIN rows
          /\ \A i \in DOMAIN rows :
                rows'[i] = IF rows[i].run = r THEN [rows[i] EXCEPT !.state = state] ELSE rows[i]
      BY <1>2, Zenon DEF SetState
    <2>4. Len(rows') = Len(rows)
      <3>1. Len(rows) \in Nat /\ DOMAIN rows = 1 .. Len(rows)
        BY DEF ControlTypeOK
      <3>2. QED
        BY <2>3, <3>1
    <2>5. QED
      BY <2>2, <2>3, <2>4 DEF Closes
  <1>3. \/ a = "close" /\ SetState(r, "completed")
        \/ a = "fail" /\ SetState(r, "failed")
        \/ a \notin {"close", "fail"} /\ rows' = rows
    BY Disjoint DEF Effect
  <1>4. QED
    BY <1>1, <1>2, <1>3

WorkMoves(r) ==
    /\ UNCHANGED <<req, started, overlapped, crashes>>
    /\ Closes(r)
    /\ \/ wf' = wf /\ wf[r].step = "cancelled"
       \/ /\ Live(r)
          /\ \E s \in WorkflowSteps, t \in Nat :
                /\ wf' = [wf EXCEPT ![r] = [step |-> s, tries |-> t]]
                /\ t < MaxAttempts
                /\ rows' = rows \/ faults' > 0 \/ s \in {"done", "failed"}
    /\ late' = late \/ late' = [late EXCEPT ![r] = "none"]

LEMMA WorkflowMoves ==
    ASSUME ControlAssumption, HandOffInv, NEW r \in Runs, Work(r) \/ LateEffect(r)
    PROVE  WorkMoves(r)
  <1> DEFINE a == wf[r].step
  <1>1. ControlTypeOK /\ RunInv(r) /\ faults \in Nat
    BY DEF HandOffInv, ControlTypeOK
  <1>2. CASE LoadFails(r) \/ AttemptFails(r)
    <2>1. Live(r) /\ Retry(r)
      BY <1>2, Disjoint DEF LoadFails, AttemptFails, NotFound, Live
    <2>2. UNCHANGED <<late, started, req, rows, overlapped, crashes>>
      BY <1>2 DEF LoadFails, AttemptFails, countVars
    <2>3. Closes(r)
      BY <2>2 DEF Closes
    <2>4. QED
      BY <1>1, <2>1, <2>2, <2>3, RetrySteps DEF WorkMoves
  <1>3. CASE ResultLost(r)
    <2>1. Live(r) /\ Retry(r) /\ Effect(r, a) /\ faults' > 0
      BY <1>1, <1>3 DEF ResultLost, Fault
    <2>2. UNCHANGED <<late, started, req, overlapped, crashes>>
      BY <1>3 DEF ResultLost
    <2>3. Closes(r)
      BY <1>1, <2>1, EffectCloses DEF Live
    <2>4. QED
      BY <1>1, <2>1, <2>2, <2>3, RetrySteps DEF WorkMoves
  <1>4. CASE AttemptSucceeds(r)
    <2>1. Live(r) /\ Effect(r, a) /\ a \in Activities
      BY <1>4 DEF AttemptSucceeds, Live
    <2>2. wf' = [wf EXCEPT ![r] = [step |-> StepAfter(a), tries |-> 0]]
      BY <1>4 DEF AttemptSucceeds, Proceed
    <2>3. UNCHANGED <<late, started, req, overlapped, crashes>>
      BY <1>4 DEF AttemptSucceeds, countVars
    <2>4. Closes(r) /\ (a \notin {"close", "fail"} => rows' = rows)
      BY <1>1, <2>1, EffectCloses
    <2>5. StepAfter(a) \in WorkflowSteps /\ (a \in {"close", "fail"} => StepAfter(a) \in {"done", "failed"})
      BY <2>1, Disjoint DEF StepAfter, WorkflowSteps
    <2>6. 0 < MaxAttempts /\ 0 \in Nat
      BY ControlAssumption
    <2>7. QED
      BY <2>1, <2>2, <2>3, <2>4, <2>5, <2>6 DEF WorkMoves
  <1>5. CASE LateEffect(r)
    <2>1. late[r] # "none" /\ late[r] \in Activities /\ wf[r].step = "cancelled"
      BY <1>1, <1>5 DEF LateEffect, RunInv, ControlTypeOK
    <2>2. UNCHANGED <<wf, started, req, overlapped, crashes>>
      BY <1>5 DEF LateEffect, countVars
    <2>3. late' = [late EXCEPT ![r] = "none"]
      BY <1>5 DEF LateEffect
    <2>4. Effect(r, late[r]) \/ rows' = rows
      BY <1>5 DEF LateEffect
    <2>5. Closes(r)
      BY <1>1, <2>1, <2>4, EffectCloses DEF Closes
    <2>6. QED
      BY <2>1, <2>2, <2>3, <2>5 DEF WorkMoves
  <1>6. QED
    BY <1>2, <1>3, <1>4, <1>5 DEF Work

-------------------------------------------------------------------------------
(* Requests, rows and workflows fit.                                         *)

\* What a request carries at each of its steps.
Shaped(q) ==
    /\ q.at \in {"exists", "start", "create", "compensate"} => q.op = "execute"
    /\ q.at \in {"idle", "exists", "active", "start", "create", "compensate"} => q.exec = 0
    /\ q.at = "cancel" => q.op \in {"stop", "cancel"}
    /\ q.at \in {"create", "compensate", "cancel"} => q.run > 0
    /\ q.at = "mark" => q.exec # 0
    /\ q.at = "signal" => q.exec # 0 /\ q.op \in {"pause", "resume"}
    /\ q.exec # 0 => q.op \in {"pause", "resume", "stop", "cancel"}

\* The requests that may still start a workflow.
Heading == {c \in Clients : req[c].op = "execute" /\ req[c].at \in {"exists", "active", "start"}}

FitRequest(q) == Shaped(q) /\ q.exec <= Len(rows) /\ q.run <= started

FitInv ==
    /\ \A c \in Clients : FitRequest(req[c])
    /\ started + Cardinality(Heading) <= MaxRuns
    /\ \A i \in DOMAIN rows : rows[i].run \in 1 .. started
    /\ \A r \in Runs : wf[r].tries < MaxAttempts /\ late[r] # "load"

CountInv ==
    /\ deleted \in BOOLEAN /\ overlapped \in BOOLEAN
    /\ requests \in 0 .. MaxRequests
    /\ faults \in 0 .. MaxFaults
    /\ crashes \in 0 .. MaxCrashes

\* One request at a time leaves one active row, and knows it.
GateInv ==
    ~overlapped =>
        /\ \A c, d \in Open : c = d
        /\ \A i, j \in ActiveRows : i = j
        /\ \A c \in Clients :
              /\ req[c].at \in {"start", "create", "compensate"} => ActiveRows = {}
              /\ req[c].exec # 0 => ActiveRows \subseteq {req[c].exec}

\* The workflow of a request that has not inserted its row yet.
Awaited(r) == \E c \in Clients : req[c].at \in {"create", "compensate"} /\ req[c].run = r

Smooth == Undisturbed /\ faults = 0

\* Stop and cancel mark the row of the workflow they have cancelled.
CancelsItsRow(q) ==
    q.exec # 0 /\ q.op \in {"stop", "cancel"} =>
        /\ q.at = "cancel" /\ Live(q.run) => rows[q.exec].run = q.run
        /\ q.at \in {"find", "save", "mark"} => wf[rows[q.exec].run].step = "cancelled"

SmoothInv ==
    Smooth =>
        /\ \A i \in DOMAIN rows : rows[i].state = "CANCELLED" => wf[rows[i].run].step = "cancelled"
        /\ \A r \in Runs : Live(r) => Awaited(r) \/ \E i \in ActiveRows : rows[i].run = r
        /\ \A c \in Clients : CancelsItsRow(req[c])

RowedInv ==
    crashes = 0 => \A r \in Runs :
        Live(r) => Awaited(r) \/ \E i \in DOMAIN rows : rows[i].run = r

RecordInv == HandOffInv /\ CountInv /\ FitInv /\ GateInv /\ SmoothInv /\ RowedInv

LEMMA CountsKept ==
    ASSUME ControlAssumption, CountInv, [Next]_vars
    PROVE  CountInv' /\ (Smooth' => Smooth) /\ (crashes' = 0 => crashes = 0)
  <1> DEFINE Kept == CountInv' /\ (Smooth' => Smooth) /\ (crashes' = 0 => crashes = 0)
  <1> USE DEF CountInv, Smooth, Undisturbed
  <1>1. ASSUME NEW c \in Clients, Begin(c) PROVE Kept
    <2>1. /\ requests < MaxRequests /\ requests' = requests + 1
          /\ overlapped' \in BOOLEAN /\ (overlapped => overlapped')
          /\ UNCHANGED <<deleted, faults, crashes>>
      BY <1>1, Zenon DEF Begin, campaignVars
    <2>2. QED
      BY <2>1, ControlAssumption DEF ControlAssumption
  <1>2. ASSUME NEW c \in Clients, Handle(c) PROVE Kept
    <2>1. CASE \/ CheckExists(c) \/ ReadActive(c) \/ ReadActiveToCancel(c) \/ Signal(c)
               \/ CancelWorkflow(c) \/ StartWorkflow(c) \/ CreateExecution(c)
               \/ Compensate(c) \/ Find(c) \/ MarkExecution(c)
      <3>1. UNCHANGED <<deleted, requests, overlapped, faults, crashes>>
        BY <2>1 DEF CheckExists, ReadActive, ReadActiveToCancel, Signal, CancelWorkflow,
           StartWorkflow, CreateExecution, Compensate, Find, MarkExecution, countVars, campaignVars
      <3>2. QED
        BY <3>1
    <2>2. CASE Save(c) \/ SoftRemove(c)
      <3>1. UNCHANGED <<requests, overlapped, faults, crashes>> /\ deleted' \in BOOLEAN
        BY <2>2 DEF Save, SoftRemove, countVars
      <3>2. QED
        BY <3>1
    <2>3. CASE CreateFails(c)
      <3>1. /\ UNCHANGED <<deleted, requests, overlapped, crashes>>
            /\ faults < MaxFaults /\ faults' = faults + 1
        BY <2>3 DEF CreateFails, campaignVars
      <3>2. QED
        BY <3>1, ControlAssumption DEF ControlAssumption
    <2>4. CASE RequestFails(c)
      <3>1. /\ UNCHANGED <<deleted, requests, overlapped, faults>>
            /\ crashes < MaxCrashes /\ crashes' = crashes + 1
        BY <2>4 DEF RequestFails, campaignVars
      <3>2. QED
        BY <3>1, ControlAssumption DEF ControlAssumption
    <2>5. QED
      BY <1>2, <2>1, <2>2, <2>3, <2>4 DEF Handle
  <1>3. ASSUME NEW r \in Runs, Work(r) \/ LateEffect(r) PROVE Kept
    <2>1. /\ UNCHANGED <<deleted, requests, overlapped, crashes>>
          /\ faults' = faults \/ (faults < MaxFaults /\ faults' = faults + 1)
      BY <1>3 DEF Work, AttemptSucceeds, LoadFails, AttemptFails, ResultLost, LateEffect, Fault,
         countVars, campaignVars
    <2>2. QED
      BY <2>1, ControlAssumption DEF ControlAssumption
  <1>4. CASE TrackerCompletes
    BY <1>4 DEF TrackerCompletes, countVars
  <1>5. CASE UNCHANGED vars
    BY <1>5 DEF vars, countVars, campaignVars
  <1>6. QED
    BY <1>1, <1>2, <1>3, <1>4, <1>5 DEF Next

LEMMA TurnsAlone ==
    ASSUME HandOffInv, NEW c \in Clients, NEW q \in Requested, Turns(c, q)
    PROVE  req'[c] = q /\ \A d \in Clients : d # c => req'[d] = req[d]
  BY DEF HandOffInv, ControlTypeOK, Turns

LEMMA HeadingCounts ==
    ASSUME ControlAssumption
    PROVE  /\ IsFiniteSet(Heading) /\ IsFiniteSet(Heading')
           /\ Cardinality(Heading) \in Nat /\ Cardinality(Heading') \in Nat
           /\ Heading' \subseteq Heading => Cardinality(Heading') <= Cardinality(Heading)
           /\ \A c : Heading' \subseteq Heading \ {c} /\ c \in Heading =>
                      Cardinality(Heading') < Cardinality(Heading)
           /\ \A c : Heading' \subseteq Heading \cup {c} =>
                      Cardinality(Heading') <= Cardinality(Heading) + 1
           /\ IsFiniteSet(Executing) /\ Cardinality(Executing) \in Nat
           /\ Heading \subseteq Executing => Cardinality(Heading) <= Cardinality(Executing)
  <1>1. Heading \subseteq Clients /\ Heading' \subseteq Clients /\ Executing \subseteq Clients
    BY DEF Heading, Executing, Open
  <1>2. IsFiniteSet(Heading) /\ IsFiniteSet(Heading') /\ IsFiniteSet(Executing)
    BY <1>1, FS_Subset DEF ControlAssumption
  <1>3. /\ Cardinality(Heading) \in Nat /\ Cardinality(Heading') \in Nat
        /\ Cardinality(Executing) \in Nat
    BY <1>2, FS_CardinalityType
  <1>4. /\ Heading' \subseteq Heading => Cardinality(Heading') <= Cardinality(Heading)
        /\ Heading \subseteq Executing => Cardinality(Heading) <= Cardinality(Executing)
    BY <1>2, FS_Subset
  <1>5. ASSUME NEW c, Heading' \subseteq Heading \ {c}, c \in Heading
        PROVE  Cardinality(Heading') < Cardinality(Heading)
    <2>1. Cardinality(Heading \ {c}) = Cardinality(Heading) - 1 /\ IsFiniteSet(Heading \ {c})
      BY <1>2, <1>5, FS_RemoveElement
    <2>2. Cardinality(Heading') <= Cardinality(Heading \ {c})
      BY <1>5, <2>1, FS_Subset
    <2>3. QED
      BY <1>3, <2>1, <2>2
  <1>6. ASSUME NEW c, Heading' \subseteq Heading \cup {c}
        PROVE  Cardinality(Heading') <= Cardinality(Heading) + 1
    <2>1. /\ Cardinality(Heading \cup {c}) \in {Cardinality(Heading), Cardinality(Heading) + 1}
          /\ IsFiniteSet(Heading \cup {c})
      BY <1>2, FS_AddElement
    <2>2. Cardinality(Heading') <= Cardinality(Heading \cup {c})
      BY <1>6, <2>1, FS_Subset
    <2>3. QED
      BY <1>3, <2>1, <2>2
  <1>7. QED
    BY <1>2, <1>3, <1>4, <1>5, <1>6

LEMMA NoRequestFits ==
    ASSUME HandOffInv
    PROVE  /\ FitRequest(NoRequest) /\ Shaped(NoRequest)
           /\ ~(NoRequest.op = "execute") /\ NoRequest.at = "idle" /\ NoRequest.exec = 0
           /\ Len(rows) \in Nat /\ DOMAIN rows = 1 .. Len(rows) /\ started \in Nat
  <1>1. Len(rows) \in Nat /\ DOMAIN rows = 1 .. Len(rows) /\ started \in Nat
    BY DEF HandOffInv, ControlTypeOK
  <1>2. QED
    BY <1>1 DEF FitRequest, Shaped, NoRequest

LEMMA NextRequestFits ==
    ASSUME HandOffInv, FitInv, NEW c \in Clients, NEW q \in Requested, RequestKind(c, q)
    PROVE  FitRequest(q)
  <1> DEFINE e == ActiveExecution
  <1>1. /\ Len(rows) \in Nat /\ DOMAIN rows = 1 .. Len(rows) /\ started \in Nat
        /\ FitRequest(NoRequest)
    BY NoRequestFits
  <1>2. /\ FitRequest(req[c]) /\ req[c] \in Requested /\ \A i \in DOMAIN rows : rows[i].run \in 1 .. started
    BY DEF FitInv, HandOffInv, ControlTypeOK
  <1>3. e \in Nat /\ (e # 0 => e \in DOMAIN rows)
    BY ActiveIsARow DEF HandOffInv
  <1>4. e # 0 => rows[e].run \in 1 .. started
    BY <1>2, <1>3
  <1>5. CASE q = NoRequest
    BY <1>1, <1>5
  <1>6. CASE Begins(c, q)
    <2>1. Shaped(q)
      BY <1>6 DEF Begins, Shaped, FirstStep
    <2>2. QED
      BY <1>1, <1>6, <2>1 DEF Begins, FitRequest
  <1>7. CASE GoesOn(c, q)
    <2>1. Shaped(q)
      BY <1>2, <1>7 DEF GoesOn, FitRequest, Shaped
    <2>2. QED
      BY <1>2, <1>7, <2>1 DEF GoesOn, FitRequest
  <1>8. CASE Finds(c, q)
    <2>1. q.exec <= Len(rows) /\ q.run <= started /\ q.exec # 0
      BY <1>1, <1>2, <1>3, <1>4, <1>8 DEF Finds, FitRequest
    <2>2. q.at = "cancel" => q.run > 0
      BY <1>1, <1>4, <1>8 DEF Finds
    <2>3. Shaped(q)
      BY <1>8, <2>2 DEF Finds, Shaped
    <2>4. QED
      BY <2>1, <2>3 DEF FitRequest
  <1>9. CASE Names(c, q)
    <2>1. q.exec <= Len(rows) /\ q.run \in 1 .. started
      BY <1>1, <1>2, <1>3, <1>4, <1>9 DEF Names
    <2>2. Shaped(q)
      BY <1>1, <1>9, <2>1 DEF Names, Shaped
    <2>3. QED
      BY <1>1, <2>1, <2>2 DEF FitRequest
  <1>10. QED
    BY <1>5, <1>6, <1>7, <1>8, <1>9 DEF RequestKind

LEMMA TurnsFit ==
    ASSUME ControlAssumption, HandOffInv, FitInv, NEW c \in Clients, NEW q \in Requested,
           Turns(c, q), RequestKind(c, q), UNCHANGED <<rows, wf, late, started>>
    PROVE  FitInv'
  <1>1. req'[c] = q /\ \A d \in Clients : d # c => req'[d] = req[d]
    BY TurnsAlone
  <1>2. \A d \in Clients : FitRequest(req[d])'
    <2>1. FitRequest(q)
      BY NextRequestFits
    <2>2. QED
      BY <1>1, <2>1 DEF FitInv, FitRequest
  <1>3. started' + Cardinality(Heading') <= MaxRuns
    <2>1. started \in Nat /\ MaxRuns \in Nat /\ started + Cardinality(Heading) <= MaxRuns
      BY NoRequestFits DEF FitInv, ControlAssumption
    <2>2. CASE Heading' \subseteq Heading
      BY <2>1, <2>2, HeadingCounts
    <2>3. CASE ~(Heading' \subseteq Heading)
      <3>1. Heading' \subseteq Heading \cup {c}
        BY <1>1 DEF Heading
      <3>2. q.op = "execute" /\ q.at \in {"exists", "active", "start"} /\ c \notin Heading
        BY <1>1, <2>3 DEF Heading
      <3>3. Begins(c, q)
        <4>1. ~(q = NoRequest)
          BY <3>2, NoRequestFits
        <4>2. ~Finds(c, q) /\ ~Names(c, q)
          BY <3>2 DEF Finds, Names
        <4>3. ~GoesOn(c, q)
          BY <3>2 DEF GoesOn, Heading
        <4>4. QED
          BY <4>1, <4>2, <4>3 DEF RequestKind
      <3>4. started + Cardinality(Executing) < MaxRuns
        BY <3>2, <3>3 DEF Begins
      <3>5. Heading \subseteq Executing
        BY DEF Heading, Executing, Open
      <3>6. /\ Cardinality(Heading') <= Cardinality(Heading) + 1
            /\ Cardinality(Heading) <= Cardinality(Executing)
            /\ Cardinality(Heading) \in Nat /\ Cardinality(Heading') \in Nat
            /\ Cardinality(Executing) \in Nat
        BY <3>1, <3>5, HeadingCounts
      <3>7. QED
        BY <2>1, <3>4, <3>6
    <2>4. QED
      BY <2>2, <2>3
  <1>4. QED
    BY <1>2, <1>3 DEF FitInv

\* A request that only leaves the gate makes no other start.
LEMMA LeavesFit ==
    ASSUME ControlAssumption, HandOffInv, FitInv, NEW c \in Clients, NEW q \in Requested,
           Turns(c, q), FitRequest(q)', Len(rows') >= Len(rows), started' = started,
           q.at \notin {"exists", "active", "start"},
           \A i \in DOMAIN rows' : rows'[i].run \in 1 .. started,
           \A r \in Runs : wf'[r].tries < MaxAttempts /\ late'[r] # "load"
    PROVE  FitInv'
  <1>1. req'[c] = q /\ \A d \in Clients : d # c => req'[d] = req[d]
    BY TurnsAlone
  <1>2. ASSUME NEW d \in Clients PROVE FitRequest(req[d])'
    <2>1. CASE d = c
      BY <1>1, <2>1 DEF FitRequest
    <2>2. CASE d # c
      <3>1. req[d] \in Requested /\ Len(rows) \in Nat
        BY DEF HandOffInv, ControlTypeOK
      <3>2. req[d].exec \in Nat /\ FitRequest(req[d])
        BY <3>1 DEF Requested, FitInv
      <3>3. QED
        BY <1>1, <2>2, <3>1, <3>2 DEF FitRequest
    <2>3. QED
      BY <2>1, <2>2
  <1>3. Heading' \subseteq Heading
    BY <1>1 DEF Heading
  <1>4. started' + Cardinality(Heading') <= MaxRuns
    BY <1>3, HeadingCounts, NoRequestFits DEF FitInv, ControlAssumption
  <1>5. QED
    BY <1>2, <1>4 DEF FitInv

LEMMA RunIsStarted ==
    ASSUME ControlAssumption, HandOffInv, FitInv, NEW c \in Clients,
           req[c].at \in {"create", "compensate", "cancel"}
    PROVE  req[c].run \in Runs /\ req[c].run \in 1 .. started
  <1>1. req[c].run \in Nat /\ started \in Nat
    BY DEF HandOffInv, ControlTypeOK, Requested
  <1>2. req[c].run > 0 /\ req[c].run <= started
    BY DEF FitInv, FitRequest, Shaped
  <1>3. started <= MaxRuns
    BY <1>1, HeadingCounts DEF FitInv, ControlAssumption
  <1>4. QED
    BY <1>1, <1>2, <1>3 DEF Runs, ControlAssumption

LEMMA CancelFits ==
    ASSUME ControlAssumption, HandOffInv, FitInv, NEW c \in Clients,
           CancelWorkflow(c) \/ Compensate(c)
    PROVE  FitInv'
  <1>1. PICK q \in Requested :
            /\ Turns(c, q)
            /\ \/ q = NoRequest
               \/ /\ req[c].at = "cancel" /\ q.at = "find"
                  /\ q.op = req[c].op /\ q.exec = req[c].exec /\ q.run = req[c].run
    BY CancelTurns
  <1>2. UNCHANGED <<rows, started>> /\ req[c].at \in {"cancel", "compensate"}
    BY CancelTurns
  <1>3. FitRequest(q)' /\ q.at \notin {"exists", "active", "start"}
    <2>1. FitRequest(req[c])
      BY DEF FitInv
    <2>2. FitRequest(q) /\ q.at \notin {"exists", "active", "start"}
      BY <1>1, <1>2, <2>1, NoRequestFits DEF FitRequest, Shaped
    <2>3. QED
      BY <1>2, <2>2 DEF FitRequest
  <1>4. \A r \in Runs : wf'[r].tries < MaxAttempts /\ late'[r] # "load"
    <2>1. CASE UNCHANGED <<wf, late>>
      BY <2>1 DEF FitInv
    <2>2. CASE Live(req[c].run) /\ EndCancelled(req[c].run)
      <3>1. req[c].run \in Runs
        BY <1>2, RunIsStarted
      <3>2. 0 < MaxAttempts
        BY DEF ControlAssumption
      <3>3. QED
        BY <2>2, <3>1, <3>2, CancelledOnly DEF FitInv, HandOffInv
    <2>3. QED
      BY <2>1, <2>2, CancelTurns
  <1>5. Len(rows') >= Len(rows) /\ \A i \in DOMAIN rows' : rows'[i].run \in 1 .. started
    BY <1>2, NoRequestFits DEF FitInv
  <1>6. QED
    BY <1>1, <1>2, <1>3, <1>4, <1>5, LeavesFit

LEMMA StartFits ==
    ASSUME ControlAssumption, HandOffInv, FitInv, NEW c \in Clients, StartWorkflow(c)
    PROVE  FitInv'
  <1>1. PICK q \in Requested :
            /\ Turns(c, q) /\ q.op = req[c].op /\ q.at = "create"
            /\ q.exec = req[c].exec /\ q.run = started + 1
    BY StartTurns
  <1>2. /\ req[c].at = "start" /\ started' = started + 1
        /\ wf' = [wf EXCEPT ![started + 1] = [step |-> "load", tries |-> 0]]
        /\ UNCHANGED <<rows, late>>
    BY StartTurns
  <1>3. req'[c] = q /\ \A d \in Clients : d # c => req'[d] = req[d]
    BY <1>1, TurnsAlone
  <1>4. started \in Nat /\ Len(rows) \in Nat /\ \A d \in Clients : req[d] \in Requested
    BY DEF HandOffInv, ControlTypeOK
  <1>5. ASSUME NEW d \in Clients PROVE FitRequest(req[d])'
    <2>1. FitRequest(req[d]) /\ FitRequest(req[c]) /\ req[d].run \in Nat
      BY <1>4 DEF FitInv, Requested
    <2>2. CASE d = c
      <3>1. Shaped(q)
        BY <1>1, <1>2, <1>4, <2>1 DEF FitRequest, Shaped
      <3>2. QED
        BY <1>1, <1>2, <1>3, <1>4, <2>1, <2>2, <3>1 DEF FitRequest
    <2>3. CASE d # c
      BY <1>2, <1>3, <1>4, <2>1, <2>3 DEF FitRequest
    <2>4. QED
      BY <2>2, <2>3
  <1>6. started' + Cardinality(Heading') <= MaxRuns
    <2>1. c \in Heading
      BY <1>2 DEF Heading, FitInv, FitRequest, Shaped
    <2>2. Heading' \subseteq Heading \ {c}
      BY <1>1, <1>3 DEF Heading
    <2>3. /\ Cardinality(Heading') < Cardinality(Heading)
          /\ Cardinality(Heading) \in Nat /\ Cardinality(Heading') \in Nat
      BY <2>1, <2>2, HeadingCounts
    <2>4. QED
      BY <1>2, <1>4, <2>3 DEF FitInv, ControlAssumption
  <1>7. \A i \in DOMAIN rows' : rows'[i].run \in 1 .. started'
    BY <1>2, <1>4 DEF FitInv
  <1>8. \A r \in Runs : wf'[r].tries < MaxAttempts /\ late'[r] # "load"
    <2>1. 0 < MaxAttempts
      BY DEF ControlAssumption
    <2>2. \A r \in Runs : r # started + 1 => wf'[r] = wf[r]
      BY <1>2 DEF HandOffInv, ControlTypeOK
    <2>3. started + 1 \in Runs => wf'[started + 1].tries = 0
      BY <1>2 DEF HandOffInv, ControlTypeOK
    <2>4. QED
      BY <1>2, <2>1, <2>2, <2>3 DEF FitInv
  <1>9. QED
    BY <1>5, <1>6, <1>7, <1>8 DEF FitInv

LEMMA CreateFits ==
    ASSUME ControlAssumption, HandOffInv, FitInv, NEW c \in Clients, CreateExecution(c)
    PROVE  FitInv'
  <1>1. /\ Turns(c, NoRequest) /\ req[c].at = "create"
        /\ Len(rows') = Len(rows) + 1 /\ DOMAIN rows' = 1 .. Len(rows) + 1
        /\ DOMAIN rows = 1 .. Len(rows) /\ Len(rows) \in Nat
        /\ \A i \in DOMAIN rows : rows'[i] = rows[i]
        /\ rows'[Len(rows) + 1].run = req[c].run
        /\ UNCHANGED <<wf, late, started>>
    BY CreateTurns
  <1>2. req[c].run \in 1 .. started
    BY <1>1, RunIsStarted
  <1>3. \A i \in DOMAIN rows' : rows'[i].run \in 1 .. started
    BY <1>1, <1>2 DEF FitInv
  <1>4. FitRequest(NoRequest)' /\ NoRequest \in Requested /\ NoRequest.at = "idle"
    <2>1. Shaped(NoRequest) /\ NoRequest.exec = 0 /\ NoRequest.run = 0 /\ NoRequest.at = "idle" /\ started \in Nat
      BY NoRequestFits, EmptyRequest
    <2>2. QED
      BY <1>1, <2>1, EmptyRequest DEF FitRequest
  <1>5. \A r \in Runs : wf'[r].tries < MaxAttempts /\ late'[r] # "load"
    BY <1>1 DEF FitInv
  <1>6. Len(rows') >= Len(rows)
    BY <1>1
  <1>7. QED
    BY <1>1, <1>3, <1>4, <1>5, <1>6, LeavesFit

LEMMA MarkFits ==
    ASSUME ControlAssumption, HandOffInv, FitInv, NEW c \in Clients, MarkExecution(c)
    PROVE  FitInv'
  <1>1. /\ Turns(c, NoRequest) /\ DOMAIN rows' = DOMAIN rows /\ Len(rows') = Len(rows)
        /\ \A i \in DOMAIN rows : rows'[i].run = rows[i].run
        /\ UNCHANGED <<wf, late, started>>
    BY MarkTurns
  <1>2. FitRequest(NoRequest)' /\ NoRequest \in Requested /\ NoRequest.at = "idle"
    BY <1>1, NoRequestFits, EmptyRequest DEF FitRequest
  <1>3. Len(rows') >= Len(rows)
    BY <1>1, NoRequestFits
  <1>4. \A i \in DOMAIN rows' : rows'[i].run \in 1 .. started
    BY <1>1 DEF FitInv
  <1>5. \A r \in Runs : wf'[r].tries < MaxAttempts /\ late'[r] # "load"
    BY <1>1 DEF FitInv
  <1>6. QED
    BY <1>1, <1>2, <1>3, <1>4, <1>5, LeavesFit

\* What a workflow's attempt leaves of the other workflows and of the rows.
LEMMA WorkLeaves ==
    ASSUME HandOffInv, NEW r \in Runs, WorkMoves(r)
    PROVE  /\ \A x \in Runs : x # r => wf'[x] = wf[x] /\ late'[x] = late[x]
           /\ late'[r] \in {late[r], "none"}
           /\ \/ wf'[r] = wf[r] /\ wf[r].step = "cancelled"
              \/ /\ Live(r) /\ wf'[r].tries < MaxAttempts
                 /\ rows' = rows \/ faults' > 0 \/ wf'[r].step \in {"done", "failed"}
  BY DEF WorkMoves, HandOffInv, ControlTypeOK

LEMMA WorkFits ==
    ASSUME ControlAssumption, HandOffInv, FitInv, NEW r \in Runs, WorkMoves(r)
    PROVE  FitInv'
  <1>1. /\ UNCHANGED <<req, started>> /\ DOMAIN rows' = DOMAIN rows /\ Len(rows') = Len(rows)
        /\ \A i \in DOMAIN rows : rows'[i].run = rows[i].run
    BY DEF WorkMoves, Closes
  <1>2. \A c \in Clients : FitRequest(req[c])'
    BY <1>1 DEF FitInv, FitRequest
  <1>3. Heading' = Heading
    BY <1>1 DEF Heading
  <1>4. \A x \in Runs : wf'[x].tries < MaxAttempts /\ late'[x] # "load"
    BY WorkLeaves DEF FitInv
  <1>5. \A i \in DOMAIN rows' : rows'[i].run \in 1 .. started'
    BY <1>1 DEF FitInv
  <1>6. QED
    BY <1>1, <1>2, <1>3, <1>4, <1>5 DEF FitInv

\* A request alone keeps the gate when it knows what it leaves active.
LEMMA GateAlone ==
    ASSUME HandOffInv, FitInv, GateInv, NEW c \in Open, NEW q \in Requested,
           Turns(c, q), overlapped' = overlapped,
           ~overlapped => /\ \A i, j \in ActiveRows' : i = j
                          /\ q.at \in {"start", "create", "compensate"} => ActiveRows' = {}
                          /\ q.exec # 0 => ActiveRows' \subseteq {q.exec}
    PROVE  GateInv'
  <1> SUFFICES ASSUME ~overlapped' PROVE /\ \A d, e \in Open' : d = e
                                         /\ \A i, j \in ActiveRows' : i = j
                                         /\ \A d \in Clients :
                                              /\ req'[d].at \in {"start", "create", "compensate"} => ActiveRows' = {}
                                              /\ req'[d].exec # 0 => ActiveRows' \subseteq {req'[d].exec}
    BY DEF GateInv
  <1>1. ~overlapped /\ c \in Clients
    BY DEF Open
  <1>2. req'[c] = q /\ \A d \in Clients : d # c => req'[d] = req[d]
    BY <1>1, TurnsAlone
  <1>3. \A d \in Clients : d # c => d \notin Open
    BY <1>1 DEF GateInv
  <1>4. \A d \in Clients : d # c => req'[d].at = "idle" /\ req'[d].exec = 0
    BY <1>2, <1>3 DEF Open, FitInv, FitRequest, Shaped
  <1>5. \A d \in Open' : d = c
    BY <1>4 DEF Open
  <1>6. ASSUME NEW d \in Clients
        PROVE  /\ req'[d].at \in {"start", "create", "compensate"} => ActiveRows' = {}
               /\ req'[d].exec # 0 => ActiveRows' \subseteq {req'[d].exec}
    BY <1>1, <1>2, <1>4
  <1>7. QED
    BY <1>1, <1>5, <1>6

LEMMA TurnsGate ==
    ASSUME HandOffInv, CountInv, FitInv, GateInv, NEW c \in Clients, NEW q \in Requested,
           Turns(c, q), RequestKind(c, q), UNCHANGED rows,
           Begins(c, q) \/ (overlapped' = overlapped /\ c \in Open)
    PROVE  GateInv'
  <1>1. req'[c] = q /\ \A d \in Clients : d # c => req'[d] = req[d]
    BY TurnsAlone
  <1>2. ActiveRows' = ActiveRows
    BY DEF ActiveRows
  <1>3. NoRequest.at = "idle" /\ NoRequest.exec = 0
    BY EmptyRequest
  <1>4. CASE Begins(c, q)
    <2> SUFFICES ASSUME ~overlapped' PROVE GateInv'
      BY DEF GateInv
    <2>1. ~overlapped /\ Open = {}
      BY <1>4, Zenon DEF Begins, Begin
    <2>2. \A d \in Clients : d # c => req'[d].at = "idle" /\ req'[d].exec = 0
      BY <1>1, <2>1 DEF Open, FitInv, FitRequest, Shaped
    <2>3. q.exec = 0 /\ q.at \notin {"start", "create", "compensate"}
      BY <1>4 DEF Begins, FirstStep
    <2>4. \A d \in Open' : d = c
      BY <2>2 DEF Open
    <2>5. \A d \in Clients : /\ req'[d].at \notin {"start", "create", "compensate"}
                             /\ req'[d].exec = 0
      BY <1>1, <2>2, <2>3
    <2>6. \A i, j \in ActiveRows' : i = j
      BY <1>2, <2>1 DEF GateInv
    <2>7. QED
      BY <2>4, <2>5, <2>6 DEF GateInv
  <1>5. CASE overlapped' = overlapped /\ c \in Open
    <2>1. ASSUME ~overlapped
          PROVE  /\ \A i, j \in ActiveRows : i = j
                 /\ req[c].at \in {"start", "create", "compensate"} => ActiveRows = {}
                 /\ req[c].exec # 0 => ActiveRows \subseteq {req[c].exec}
      BY <2>1 DEF GateInv
    <2>2. ASSUME ~overlapped
          PROVE  /\ q.at \in {"start", "create", "compensate"} => ActiveRows = {}
                 /\ q.exec # 0 => ActiveRows \subseteq {q.exec}
      <3>1. CASE q = NoRequest
        BY <1>3, <3>1
      <3>2. CASE Begins(c, q)
        BY <3>2 DEF Begins, FirstStep
      <3>3. CASE GoesOn(c, q)
        BY <2>1, <2>2, <3>3 DEF GoesOn
      <3>4. CASE Finds(c, q) \/ Names(c, q)
        <4>1. q.exec = ActiveExecution /\ q.at \in {"signal", "cancel"}
          BY <3>4 DEF Finds, Names
        <4>2. q.exec # 0 => q.exec \in ActiveRows
          BY <4>1, ActiveIsFound DEF HandOffInv
        <4>3. QED
          BY <2>1, <2>2, <4>1, <4>2
      <3>5. QED
        BY <3>1, <3>2, <3>3, <3>4 DEF RequestKind
    <2>3. QED
      BY <1>2, <1>5, <2>1, <2>2, GateAlone
  <1>6. QED
    BY <1>4, <1>5

LEMMA CancelGate ==
    ASSUME HandOffInv, FitInv, GateInv, NEW c \in Clients, CancelWorkflow(c) \/ Compensate(c)
    PROVE  GateInv'
  <1>1. PICK q \in Requested :
            /\ Turns(c, q)
            /\ q = NoRequest \/ (q.at = "find" /\ q.exec = req[c].exec)
    BY CancelTurns
  <1>2. UNCHANGED <<rows, overlapped>> /\ req[c].at \in {"cancel", "compensate"}
    BY CancelTurns
  <1>3. c \in Open /\ ActiveRows' = ActiveRows
    BY <1>2 DEF Open, ActiveRows
  <1>4. q.at \notin {"start", "create", "compensate"} /\ q.exec \in {0, req[c].exec}
    BY <1>1, EmptyRequest
  <1>5. QED
    BY <1>1, <1>2, <1>3, <1>4, GateAlone DEF GateInv

LEMMA StartGate ==
    ASSUME HandOffInv, FitInv, GateInv, NEW c \in Clients, StartWorkflow(c)
    PROVE  GateInv'
  <1>1. PICK q \in Requested : Turns(c, q) /\ q.at = "create" /\ q.exec = req[c].exec
    BY StartTurns
  <1>2. UNCHANGED <<rows, overlapped>> /\ req[c].at = "start"
    BY StartTurns
  <1>3. c \in Open /\ ActiveRows' = ActiveRows
    BY <1>2 DEF Open, ActiveRows
  <1>4. QED
    BY <1>1, <1>2, <1>3, GateAlone DEF GateInv

LEMMA CreateGate ==
    ASSUME HandOffInv, FitInv, GateInv, NEW c \in Clients, CreateExecution(c)
    PROVE  GateInv'
  <1>1. /\ Turns(c, NoRequest) /\ req[c].at = "create"
        /\ DOMAIN rows' = 1 .. Len(rows) + 1
        /\ DOMAIN rows = 1 .. Len(rows) /\ Len(rows) \in Nat
        /\ \A i \in DOMAIN rows : rows'[i] = rows[i]
        /\ overlapped' = overlapped
    BY CreateTurns
  <1>2. c \in Open
    BY <1>1 DEF Open
  <1>3. ASSUME ~overlapped PROVE ActiveRows' \subseteq {Len(rows) + 1}
    <2>1. ActiveRows = {}
      BY <1>1, <1>3 DEF GateInv
    <2>2. ASSUME NEW i \in ActiveRows' PROVE i = Len(rows) + 1
      <3>1. i \in DOMAIN rows' /\ rows'[i].state \in ActiveStatuses
        BY <2>2 DEF ActiveRows
      <3>2. i \notin DOMAIN rows
        BY <1>1, <2>1, <3>1 DEF ActiveRows
      <3>3. QED
        BY <1>1, <3>1, <3>2
    <2>3. QED
      BY <2>2
  <1>4. ~overlapped => \A i, j \in ActiveRows' : i = j
    BY <1>3
  <1>5. QED
    BY <1>1, <1>2, <1>4, EmptyRequest, GateAlone

LEMMA MarkGate ==
    ASSUME HandOffInv, FitInv, GateInv, NEW c \in Clients, MarkExecution(c)
    PROVE  GateInv'
  <1> DEFINE e == req[c].exec
  <1>1. /\ Turns(c, NoRequest) /\ req[c].at = "mark"
        /\ DOMAIN rows' = DOMAIN rows
        /\ \A i \in DOMAIN rows : i # e => rows'[i] = rows[i]
        /\ overlapped' = overlapped
    BY MarkTurns
  <1>2. c \in Open /\ e # 0
    BY <1>1 DEF Open, FitInv, FitRequest, Shaped
  <1>3. ASSUME ~overlapped, NEW i \in ActiveRows' PROVE i = e
    <2>1. ActiveRows \subseteq {e}
      BY <1>2, <1>3 DEF GateInv
    <2>2. i \in DOMAIN rows /\ rows'[i].state \in ActiveStatuses
      BY <1>1, <1>3 DEF ActiveRows
    <2>3. i # e => i \in ActiveRows
      BY <1>1, <2>2 DEF ActiveRows
    <2>4. QED
      BY <2>1, <2>3
  <1>4. ~overlapped => \A i, j \in ActiveRows' : i = j
    BY <1>3
  <1>5. QED
    BY <1>1, <1>2, <1>4, EmptyRequest, GateAlone

\* A workflow never re-opens a row.
LEMMA ClosedRows ==
    ASSUME NEW r, Closes(r)
    PROVE  /\ ActiveRows' \subseteq ActiveRows
           /\ \A i \in ActiveRows : rows[i].run # r => i \in ActiveRows'
           /\ rows' = rows => ActiveRows' = ActiveRows
  <1>1. ASSUME NEW i \in ActiveRows' PROVE i \in ActiveRows
    <2>1. i \in DOMAIN rows /\ rows'[i].state \in ActiveStatuses
      BY <1>1 DEF ActiveRows, Closes
    <2>2. rows'[i].state \notin {"completed", "failed"}
      BY <2>1 DEF ActiveStatuses
    <2>3. QED
      BY <2>1, <2>2 DEF Closes, ActiveRows
  <1>2. QED
    BY <1>1 DEF Closes, ActiveRows

LEMMA WorkGate ==
    ASSUME GateInv, NEW r, WorkMoves(r)
    PROVE  GateInv'
  <1>1. ActiveRows' \subseteq ActiveRows
    BY ClosedRows DEF WorkMoves
  <1>2. UNCHANGED <<req, overlapped>>
    BY DEF WorkMoves
  <1>3. Open' = Open
    BY <1>2 DEF Open
  <1>4. QED
    BY <1>1, <1>2, <1>3 DEF GateInv

\* Rows and cancelled workflows stay what they are; none but a new one is alive
\* that was not.
Steady ==
    /\ \A i \in DOMAIN rows : i \in DOMAIN rows' /\ rows'[i].run = rows[i].run
    /\ \A x \in 1 .. started : /\ wf[x].step = "cancelled" => wf'[x].step = "cancelled"
                               /\ Live(x)' => Live(x)

\* A workflow is awaited until its row is there.
AwaitedOn ==
    crashes' = 0 => \A x \in Runs : Live(x)' =>
        /\ x \in 1 .. started \/ Awaited(x)'
        /\ Awaited(x) => Awaited(x)' \/ \E i \in ActiveRows' : rows'[i].run = x

\* Without a fault only the rows of ended workflows are closed, and only those
\* of cancelled ones are marked so.
ClosesEnded ==
    Smooth' =>
        /\ \A i \in ActiveRows : Live(rows[i].run)' => i \in ActiveRows'
        /\ \A i \in DOMAIN rows' : rows'[i].state = "CANCELLED" =>
              i \in DOMAIN rows /\ (rows[i].state = "CANCELLED" \/ wf[rows[i].run].step = "cancelled")
        /\ \A c \in Clients : req'[c] = req[c] \/ CancelsItsRow(req[c])'

LEMMA NotLive == \A r : Live(r) => wf[r].step \notin Ended
  BY Disjoint DEF Live

LEMMA StartedAreRuns ==
    ASSUME ControlAssumption, HandOffInv, FitInv
    PROVE  1 .. started \subseteq Runs /\ started \in Nat
  <1>1. started \in Nat /\ started <= MaxRuns
    BY HeadingCounts, NoRequestFits DEF FitInv, ControlAssumption
  <1>2. QED
    BY <1>1 DEF Runs, ControlAssumption

LEMMA CancelsKept ==
    ASSUME ControlAssumption, HandOffInv, FitInv, NEW c \in Clients, Steady,
           req'[c] = req[c], CancelsItsRow(req[c])
    PROVE  CancelsItsRow(req[c])'
  <1>0. PICK q : q = req[c]
    OBVIOUS
  <1>1. q \in Requested /\ FitRequest(q) /\ DOMAIN rows = 1 .. Len(rows) /\ Len(rows) \in Nat
    BY <1>0, NoRequestFits DEF HandOffInv, ControlTypeOK, FitInv
  <1>2. q.exec # 0 => q.exec \in DOMAIN rows
    BY <1>1 DEF FitRequest, Requested
  <1>3. q.exec # 0 => /\ rows[q.exec].run \in 1 .. started
                      /\ rows'[q.exec].run = rows[q.exec].run
    BY <1>2 DEF FitInv, Steady
  <1>4. q.at = "cancel" => q.run \in 1 .. started
    BY <1>0, RunIsStarted
  <1>5. q.at = "cancel" /\ Live(q.run)' => Live(q.run)
    BY <1>4 DEF Steady
  <1>6. q.exec # 0 /\ wf[rows[q.exec].run].step = "cancelled" => wf'[rows'[q.exec].run].step = "cancelled"
    BY <1>3 DEF Steady
  <1>7. CancelsItsRow(q)
    BY <1>0
  <1>8. CancelsItsRow(q)'
    BY <1>3, <1>5, <1>6, <1>7 DEF CancelsItsRow
  <1>9. QED
    BY <1>0, <1>8 DEF CancelsItsRow, Live

LEMMA OnwardKeeps ==
    ASSUME ControlAssumption, HandOffInv, FitInv, SmoothInv, RowedInv,
           Smooth' => Smooth, crashes' = 0 => crashes = 0,
           Steady, AwaitedOn, ClosesEnded
    PROVE  SmoothInv' /\ RowedInv'
  <1>1. 1 .. started \subseteq Runs
    BY StartedAreRuns
  <1>2. \A i \in DOMAIN rows : rows[i].run \in 1 .. started
    BY DEF FitInv
  <1>3. ASSUME crashes' = 0, NEW x \in Runs, Live(x)'
        PROVE  Awaited(x)' \/ \E i \in DOMAIN rows' : rows'[i].run = x
    <2>1. CASE x \in 1 .. started
      <3>1. Live(x) /\ crashes = 0
        BY <1>3, <2>1 DEF Steady
      <3>2. Awaited(x) \/ \E i \in DOMAIN rows : rows[i].run = x
        BY <3>1 DEF RowedInv
      <3>3. \A i \in ActiveRows' : i \in DOMAIN rows'
        BY DEF ActiveRows
      <3>4. QED
        BY <1>3, <3>2, <3>3 DEF AwaitedOn, Steady
    <2>2. CASE x \notin 1 .. started
      BY <1>3, <2>2 DEF AwaitedOn
    <2>3. QED
      BY <2>1, <2>2
  <1>4. RowedInv'
    BY <1>3 DEF RowedInv
  <1>5. ASSUME Smooth' PROVE \A i \in DOMAIN rows' : rows'[i].state = "CANCELLED" =>
                                  wf'[rows'[i].run].step = "cancelled"
    BY <1>2, <1>5 DEF ClosesEnded, SmoothInv, Steady
  <1>6. ASSUME Smooth', NEW x \in Runs, Live(x)'
        PROVE  Awaited(x)' \/ \E i \in ActiveRows' : rows'[i].run = x
    <2>0. crashes' = 0
      BY <1>6 DEF Smooth, Undisturbed
    <2>1. CASE x \in 1 .. started
      <3>1. Live(x) /\ Smooth
        BY <1>6, <2>1 DEF Steady
      <3>2. Awaited(x) \/ \E i \in ActiveRows : rows[i].run = x
        BY <3>1 DEF SmoothInv
      <3>3. ASSUME NEW i \in ActiveRows, rows[i].run = x
            PROVE  i \in ActiveRows' /\ rows'[i].run = x
        <4>1. i \in DOMAIN rows
          BY DEF ActiveRows
        <4>2. Live(rows[i].run)'
          BY <1>6, <3>3, <4>1 DEF Steady, Live
        <4>3. QED
          BY <1>6, <3>3, <4>1, <4>2 DEF ClosesEnded, Steady
      <3>4. QED
        BY <1>6, <2>0, <3>2, <3>3 DEF AwaitedOn
    <2>2. CASE x \notin 1 .. started
      BY <1>6, <2>0, <2>2 DEF AwaitedOn
    <2>3. QED
      BY <2>1, <2>2
  <1>7. ASSUME Smooth', NEW c \in Clients PROVE CancelsItsRow(req[c])'
    <2>1. CASE req'[c] = req[c]
      <3>1. CancelsItsRow(req[c])
        BY <1>7 DEF SmoothInv
      <3>2. QED
        BY <2>1, <3>1, CancelsKept
    <2>2. CASE req'[c] # req[c]
      BY <1>7, <2>2 DEF ClosesEnded
    <2>3. QED
      BY <2>1, <2>2
  <1>8. SmoothInv'
    BY <1>5, <1>6, <1>7 DEF SmoothInv
  <1>9. QED
    BY <1>4, <1>8

LEMMA AwaitedByOthers ==
    ASSUME HandOffInv, NEW c \in Clients, NEW q \in Requested, Turns(c, q), NEW x, Awaited(x)
    PROVE  Awaited(x)' \/ (req[c].at \in {"create", "compensate"} /\ req[c].run = x)
  <1>1. \A d \in Clients : d # c => req'[d] = req[d]
    BY TurnsAlone
  <1>2. QED
    BY <1>1 DEF Awaited

LEMMA LiveIsStarted ==
    ASSUME HandOffInv, NEW x \in Runs, Live(x)
    PROVE  x \in 1 .. started
  <1>1. RunInv(x) /\ wf[x].step \in Activities /\ started \in Nat
    BY DEF HandOffInv, ControlTypeOK, Live
  <1>2. ~(x > started)
    BY <1>1, Disjoint DEF RunInv
  <1>3. QED
    BY <1>1, <1>2 DEF Runs

\* Without a crash a request leaves its insert only to compensate for it.
LEMMA ReadLeaves ==
    ASSUME HandOffInv, CountInv, NEW c \in Clients, req[c].at \in {"create", "compensate"},
           \/ CheckExists(c) \/ ReadActive(c) \/ ReadActiveToCancel(c) \/ Signal(c)
           \/ CreateFails(c) \/ Find(c) \/ Save(c) \/ SoftRemove(c) \/ RequestFails(c)
    PROVE  crashes' # 0 \/ (req'[c].at = "compensate" /\ req'[c].run = req[c].run)
  <1>1. CreateFails(c) \/ RequestFails(c)
    BY DEF CheckExists, ReadActive, ReadActiveToCancel, Signal, Find, Save, SoftRemove, At
  <1>2. CASE CreateFails(c)
    <2>1. "compensate" \in Steps /\ req[c] \in Requested
      BY DEF Steps, HandOffInv, ControlTypeOK
    <2>2. Turns(c, AtStep(req[c], "compensate"))
      BY <1>2 DEF CreateFails, GoTo, Turns, AtStep
    <2>3. QED
      BY <2>1, <2>2, AtStepType, TurnsAlone
  <1>3. CASE RequestFails(c)
    BY <1>3 DEF RequestFails, CountInv
  <1>4. QED
    BY <1>1, <1>2, <1>3

\* What stop and cancel find is the workflow's own row.
LEMMA NextCancelsItsRow ==
    ASSUME ControlAssumption, HandOffInv, FitInv, GateInv, SmoothInv, Smooth,
           NEW c \in Clients, NEW q \in Requested, RequestKind(c, q)
    PROVE  CancelsItsRow(q)
  <1>1. CancelsItsRow(req[c]) /\ FitRequest(req[c]) /\ FitRequest(q) /\ 1 .. started \subseteq Runs /\ started \in Nat
    BY NextRequestFits, StartedAreRuns DEF SmoothInv, FitInv
  <1>2. CASE q = NoRequest \/ Begins(c, q)
    BY <1>2, EmptyRequest DEF Begins, CancelsItsRow
  <1>3. CASE GoesOn(c, q)
    BY <1>1, <1>3 DEF GoesOn, CancelsItsRow, FitRequest, Shaped
  <1>4. CASE Finds(c, q)
    BY <1>4 DEF Finds, CancelsItsRow
  <1>5. CASE Names(c, q)
    <2>1. SUFFICES ASSUME q.exec # 0, Live(q.run) PROVE rows[q.exec].run = q.run
      BY <1>5 DEF Names, CancelsItsRow
    <2>2. q.exec \in ActiveRows /\ ~overlapped
      BY <1>5, <2>1, ActiveIsFound DEF Names, HandOffInv, Smooth, Undisturbed
    <2>3. CASE q.run \in 1 .. started
      <3>1. Awaited(q.run) \/ \E i \in ActiveRows : rows[i].run = q.run
        BY <1>1, <2>1, <2>3 DEF SmoothInv
      <3>2. ~Awaited(q.run)
        <4>1. c \in Open /\ req[c].at = "active"
          BY <1>5 DEF Names, Open
        <4>2. \A d \in Clients : req[d].at \in {"create", "compensate"} => d = c
          BY <2>2, <4>1 DEF GateInv, Open
        <4>3. QED
          BY <4>1, <4>2 DEF Awaited
      <3>3. QED
        BY <2>2, <3>1, <3>2 DEF GateInv
    <2>4. QED
      BY <1>5, <2>3 DEF Names
  <1>6. QED
    BY <1>2, <1>3, <1>4, <1>5 DEF RequestKind

LEMMA TurnsOnward ==
    ASSUME ControlAssumption, HandOffInv, FitInv, GateInv, SmoothInv, Smooth' => Smooth,
           NEW c \in Clients, NEW q \in Requested, Turns(c, q), RequestKind(c, q),
           UNCHANGED <<rows, wf, started>>,
           req[c].at \in {"create", "compensate"} =>
               crashes' # 0 \/ (q.at = "compensate" /\ q.run = req[c].run)
    PROVE  Steady /\ AwaitedOn /\ ClosesEnded
  <1>1. req'[c] = q /\ \A d \in Clients : d # c => req'[d] = req[d]
    BY TurnsAlone
  <1>2. /\ \A x : Live(x)' <=> Live(x)
        /\ ActiveRows' = ActiveRows
    BY DEF Live, ActiveRows
  <1>3. Steady
    BY <1>2 DEF Steady
  <1>4. AwaitedOn
    <2>1. ASSUME crashes' = 0, NEW x \in Runs, Live(x)'
          PROVE  /\ x \in 1 .. started \/ Awaited(x)'
                 /\ Awaited(x) => Awaited(x)'
      <3>1. x \in 1 .. started
        BY <1>2, <2>1, LiveIsStarted
      <3>2. Awaited(x) => Awaited(x)'
        <4>1. ASSUME req[c].at \in {"create", "compensate"}, req[c].run = x PROVE Awaited(x)'
          BY <1>1, <2>1, <4>1 DEF Awaited
        <4>2. QED
          BY <4>1, AwaitedByOthers
      <3>3. QED
        BY <3>1, <3>2
    <2>2. QED
      BY <2>1 DEF AwaitedOn
  <1>5. ClosesEnded
    <2>1. ASSUME Smooth', NEW d \in Clients PROVE req'[d] = req[d] \/ CancelsItsRow(req[d])'
      <3>1. CancelsItsRow(q)
        BY <2>1, NextCancelsItsRow
      <3>2. CancelsItsRow(req[c])'
        BY <1>1, <3>1 DEF CancelsItsRow, Live
      <3>3. QED
        BY <1>1, <3>2
    <2>2. QED
      BY <1>2, <2>1 DEF ClosesEnded
  <1>6. QED
    BY <1>3, <1>4, <1>5

\* The facts a step starts from.
Recorded ==
    HandOffInv /\ CountInv /\ FitInv /\ GateInv /\ SmoothInv /\ RowedInv /\ (Smooth' => Smooth)

LEMMA CancelOnward ==
    ASSUME ControlAssumption, Recorded, NEW c \in Clients, CancelWorkflow(c) \/ Compensate(c)
    PROVE  Steady /\ AwaitedOn /\ ClosesEnded
  <1> USE DEF Recorded
  <1>1. PICK q \in Requested :
            /\ Turns(c, q)
            /\ \/ q = NoRequest /\ (~Live(req[c].run) \/ req[c].at = "compensate")
               \/ /\ req[c].at = "cancel" /\ q.at = "find" /\ Live(req[c].run)
                  /\ q.op = req[c].op /\ q.exec = req[c].exec /\ q.run = req[c].run
    BY CancelTurns
  <1>2. PICK r \in Runs : r = req[c].run
    BY CancelTurns, RunIsStarted
  <1>3. UNCHANGED <<rows, started>> /\ req[c].at \in {"cancel", "compensate"} /\ 1 .. started \subseteq Runs
    BY CancelTurns, StartedAreRuns
  <1>4. /\ ~Live(r)' /\ (Live(r) => wf'[r].step = "cancelled")
        /\ \A x \in Runs : x # r => wf'[x] = wf[x]
        /\ wf[r].step = "cancelled" => wf'[r].step = "cancelled"
    <2>1. CASE Live(r) /\ EndCancelled(r)
      BY <2>1, CancelledOnly DEF HandOffInv
    <2>2. CASE ~Live(r) /\ wf' = wf
      BY <2>2 DEF Live
    <2>3. QED
      BY <1>2, <2>1, <2>2, CancelTurns
  <1>5. Steady
    BY <1>3, <1>4 DEF Steady, Live
  <1>6. \A x \in Runs : Live(x)' => Live(x) /\ x # r
    BY <1>4 DEF Live
  <1>7. AwaitedOn
    BY <1>1, <1>2, <1>6, AwaitedByOthers, LiveIsStarted DEF AwaitedOn
  <1>8. req'[c] = q /\ \A d \in Clients : d # c => req'[d] = req[d]
    BY <1>1, TurnsAlone
  <1>9. ASSUME Smooth' PROVE CancelsItsRow(req[c])'
    <2>1. CASE q = NoRequest
      BY <1>8, <2>1, EmptyRequest DEF CancelsItsRow
    <2>2. CASE /\ req[c].at = "cancel" /\ q.at = "find" /\ Live(req[c].run)
               /\ q.op = req[c].op /\ q.exec = req[c].exec /\ q.run = req[c].run
      <3>1. CancelsItsRow(req[c])
        BY <1>9 DEF SmoothInv
      <3>2. q.exec # 0 /\ q.op \in {"stop", "cancel"} => rows[q.exec].run = r
        BY <1>2, <2>2, <3>1 DEF CancelsItsRow
      <3>3. wf'[r].step = "cancelled"
        BY <1>2, <1>4, <2>2
      <3>4. CancelsItsRow(q)'
        BY <1>3, <2>2, <3>2, <3>3 DEF CancelsItsRow
      <3>5. QED
        BY <1>8, <3>4 DEF CancelsItsRow, Live
    <2>3. QED
      BY <1>1, <2>1, <2>2
  <1>10. ActiveRows' = ActiveRows
    BY <1>3 DEF ActiveRows
  <1>11. ClosesEnded
    BY <1>3, <1>8, <1>9, <1>10 DEF ClosesEnded
  <1>12. QED
    BY <1>5, <1>7, <1>11

LEMMA StartOnward ==
    ASSUME ControlAssumption, Recorded, NEW c \in Clients, StartWorkflow(c)
    PROVE  Steady /\ AwaitedOn /\ ClosesEnded
  <1> USE DEF Recorded
  <1>1. PICK q \in Requested :
            /\ Turns(c, q) /\ q.op = req[c].op /\ q.at = "create"
            /\ q.exec = req[c].exec /\ q.run = started + 1
    BY StartTurns
  <1>2. /\ req[c].at = "start" /\ started' = started + 1
        /\ wf' = [wf EXCEPT ![started + 1] = [step |-> "load", tries |-> 0]]
        /\ UNCHANGED rows
    BY StartTurns
  <1>3. req'[c] = q /\ \A d \in Clients : d # c => req'[d] = req[d]
    BY <1>1, TurnsAlone
  <1>4. started \in Nat /\ 1 .. started \subseteq Runs
    BY StartedAreRuns
  <1>5. \A x \in Runs : x # started + 1 => wf'[x] = wf[x]
    BY <1>2 DEF HandOffInv, ControlTypeOK
  <1>6. \A x \in 1 .. started : wf'[x] = wf[x]
    BY <1>4, <1>5
  <1>7. Steady
    BY <1>2, <1>6 DEF Steady, Live
  <1>8. AwaitedOn
    <2>1. ASSUME NEW x \in Runs, Live(x)'
          PROVE  /\ x \in 1 .. started \/ Awaited(x)'
                 /\ Awaited(x) => Awaited(x)'
      <3>1. Awaited(x) => Awaited(x)'
        BY <1>1, <1>2, AwaitedByOthers
      <3>2. CASE x = started + 1
        <4>1. Awaited(x)'
          BY <1>1, <1>3, <3>2 DEF Awaited
        <4>2. QED
          BY <4>1
      <3>3. CASE x # started + 1
        <4>1. Live(x)
          BY <1>5, <2>1, <3>3 DEF Live
        <4>2. QED
          BY <3>1, <4>1, LiveIsStarted
      <3>4. QED
        BY <3>2, <3>3
    <2>2. QED
      BY <2>1 DEF AwaitedOn
  <1>9. CancelsItsRow(req[c])'
    <2>1. q.exec = 0
      BY <1>1, <1>2 DEF FitInv, FitRequest, Shaped
    <2>2. QED
      BY <1>3, <2>1 DEF CancelsItsRow
  <1>10. ActiveRows' = ActiveRows
    BY <1>2 DEF ActiveRows
  <1>11. ClosesEnded
    BY <1>2, <1>3, <1>9, <1>10 DEF ClosesEnded
  <1>12. QED
    BY <1>7, <1>8, <1>11

LEMMA CreateOnward ==
    ASSUME ControlAssumption, Recorded, NEW c \in Clients, CreateExecution(c)
    PROVE  Steady /\ AwaitedOn /\ ClosesEnded
  <1> USE DEF Recorded
  <1> DEFINE n == Len(rows) + 1
  <1>1. /\ Turns(c, NoRequest) /\ req[c].at = "create"
        /\ DOMAIN rows' = 1 .. n
        /\ DOMAIN rows = 1 .. Len(rows) /\ Len(rows) \in Nat
        /\ \A i \in DOMAIN rows : rows'[i] = rows[i]
        /\ rows'[n].run = req[c].run
        /\ rows'[n].state = "RUNNING"
        /\ UNCHANGED wf
    BY CreateTurns
  <1>2. req'[c] = NoRequest /\ \A d \in Clients : d # c => req'[d] = req[d]
    BY <1>1, EmptyRequest, TurnsAlone
  <1>3. \A x : Live(x)' <=> Live(x)
    BY <1>1 DEF Live
  <1>4. n \in DOMAIN rows' /\ \A i \in DOMAIN rows' : i \in DOMAIN rows \/ i = n
    BY <1>1
  <1>5. n \in ActiveRows' /\ ActiveRows \subseteq ActiveRows'
    BY <1>1, <1>4 DEF ActiveRows, ActiveStatuses
  <1>6. Steady
    BY <1>1, <1>3 DEF Steady
  <1>7. AwaitedOn
    BY <1>1, <1>3, <1>5, EmptyRequest, AwaitedByOthers, LiveIsStarted DEF AwaitedOn
  <1>8. CancelsItsRow(req[c])'
    BY <1>2, EmptyRequest DEF CancelsItsRow
  <1>9. ClosesEnded
    BY <1>1, <1>2, <1>4, <1>5, <1>8 DEF ClosesEnded
  <1>10. QED
    BY <1>6, <1>7, <1>9

LEMMA MarkOnward ==
    ASSUME ControlAssumption, Recorded, NEW c \in Clients, MarkExecution(c)
    PROVE  Steady /\ AwaitedOn /\ ClosesEnded
  <1> USE DEF Recorded
  <1> DEFINE e == req[c].exec
  <1>1. /\ Turns(c, NoRequest) /\ req[c].at = "mark"
        /\ DOMAIN rows' = DOMAIN rows
        /\ \A i \in DOMAIN rows :
             /\ rows'[i].run = rows[i].run
             /\ i # e => rows'[i] = rows[i]
             /\ i = e => rows'[i].state = MarkedState(req[c].op)
        /\ UNCHANGED wf
    BY MarkTurns
  <1>2. req'[c] = NoRequest /\ \A d \in Clients : d # c => req'[d] = req[d]
    BY <1>1, EmptyRequest, TurnsAlone
  <1>3. \A x : Live(x)' <=> Live(x)
    BY <1>1 DEF Live
  <1>4. e # 0 /\ req[c].op \in {"pause", "resume", "stop", "cancel"}
    BY <1>1 DEF FitInv, FitRequest, Shaped
  <1>5. Steady
    BY <1>1, <1>3 DEF Steady
  <1>6. AwaitedOn
    BY <1>1, <1>3, EmptyRequest, AwaitedByOthers, LiveIsStarted DEF AwaitedOn
  <1>7. ASSUME Smooth', MarkedState(req[c].op) \notin ActiveStatuses
        PROVE  wf[rows[e].run].step = "cancelled"
    <2>1. req[c].op \in {"stop", "cancel"}
      BY <1>4, <1>7 DEF MarkedState, ActiveStatuses
    <2>2. CancelsItsRow(req[c])
      BY <1>7 DEF SmoothInv
    <2>3. QED
      BY <1>1, <1>4, <2>1, <2>2 DEF CancelsItsRow
  <1>8. ASSUME Smooth', NEW i \in ActiveRows, Live(rows[i].run)' PROVE i \in ActiveRows'
    <2>1. i \in DOMAIN rows /\ rows[i].state \in ActiveStatuses
      BY DEF ActiveRows
    <2>2. CASE i = e
      <3>1. wf[rows[e].run].step # "cancelled"
        BY <1>1, <1>8, <2>1, <2>2, Disjoint DEF Live
      <3>2. rows'[e].state \in ActiveStatuses
        BY <1>1, <1>7, <1>8, <2>1, <2>2, <3>1
      <3>3. QED
        BY <1>1, <2>1, <2>2, <3>2 DEF ActiveRows
    <2>3. CASE i # e
      BY <1>1, <2>1, <2>3 DEF ActiveRows
    <2>4. QED
      BY <2>2, <2>3
  <1>9. ASSUME Smooth', NEW i \in DOMAIN rows', rows'[i].state = "CANCELLED"
        PROVE  i \in DOMAIN rows /\ (rows[i].state = "CANCELLED" \/ wf[rows[i].run].step = "cancelled")
    <2>1. "CANCELLED" \notin ActiveStatuses
      BY DEF ActiveStatuses
    <2>2. QED
      BY <1>1, <1>7, <1>9, <2>1
  <1>10. CancelsItsRow(req[c])'
    BY <1>2, EmptyRequest DEF CancelsItsRow
  <1>11. ClosesEnded
    BY <1>2, <1>8, <1>9, <1>10 DEF ClosesEnded
  <1>12. QED
    BY <1>5, <1>6, <1>11

LEMMA WorkOnward ==
    ASSUME ControlAssumption, Recorded, NEW r \in Runs, WorkMoves(r)
    PROVE  Steady /\ AwaitedOn /\ ClosesEnded
  <1> USE DEF Recorded
  <1>1. /\ UNCHANGED <<req, started>> /\ Closes(r)
        /\ DOMAIN rows' = DOMAIN rows /\ \A i \in DOMAIN rows : rows'[i].run = rows[i].run
        /\ 1 .. started \subseteq Runs
    BY StartedAreRuns DEF WorkMoves, Closes
  <1>2. /\ \A x \in Runs : x # r => wf'[x] = wf[x]
        /\ \/ wf'[r] = wf[r] /\ wf[r].step = "cancelled"
           \/ Live(r) /\ (rows' = rows \/ faults' > 0 \/ wf'[r].step \in {"done", "failed"})
    BY WorkLeaves
  <1>3. \A x \in Runs : /\ Live(x)' => Live(x)
                        /\ wf[x].step = "cancelled" => wf'[x].step = "cancelled"
    BY <1>2, Disjoint DEF Live
  <1>4. Steady
    BY <1>1, <1>3 DEF Steady
  <1>5. \A x : Awaited(x)' <=> Awaited(x)
    BY <1>1 DEF Awaited
  <1>6. AwaitedOn
    BY <1>3, <1>5, LiveIsStarted DEF AwaitedOn
  <1>7. ASSUME Smooth', NEW i \in ActiveRows, Live(rows[i].run)' PROVE i \in ActiveRows'
    <2>0. i \in DOMAIN rows /\ rows'[i].run = rows[i].run
      BY <1>1 DEF ActiveRows
    <2>1. CASE rows[i].run # r
      BY <1>1, <2>1, ClosedRows
    <2>2. CASE rows[i].run = r
      <3>1. Live(r)' /\ ~(faults' > 0)
        BY <1>7, <2>0, <2>2 DEF Smooth, Live
      <3>2. wf'[r].step \notin Ended
        BY <3>1, Disjoint DEF Live
      <3>3. rows' = rows
        BY <1>2, <3>1, <3>2, Disjoint
      <3>4. QED
        BY <1>1, <3>3, ClosedRows
    <2>3. QED
      BY <2>1, <2>2
  <1>8. \A i \in DOMAIN rows' : rows'[i].state = "CANCELLED" => i \in DOMAIN rows /\ rows[i].state = "CANCELLED"
    BY <1>1 DEF Closes
  <1>9. ClosesEnded
    BY <1>1, <1>7, <1>8 DEF ClosesEnded
  <1>10. QED
    BY <1>4, <1>6, <1>9

LEMMA FactsKept ==
    ASSUME ControlAssumption, Recorded, HandOffInv', CountInv', crashes' = 0 => crashes = 0,
           FitInv', GateInv', Steady, AwaitedOn, ClosesEnded
    PROVE  RecordInv'
  BY OnwardKeeps DEF Recorded, RecordInv

LEMMA RequestKeepsRecord ==
    ASSUME ControlAssumption, RecordInv, NEW c \in Clients, Begin(c) \/ Handle(c)
    PROVE  RecordInv'
  <1>0. [Next]_vars
    BY DEF Next
  <1>1. /\ Recorded /\ HandOffInv' /\ CountInv' /\ (Smooth' => Smooth)
        /\ crashes' = 0 => crashes = 0
    BY <1>0, CountsKept, NextKeepsHandOff DEF RecordInv, Recorded
  <1>2. HandOffInv /\ CountInv /\ FitInv /\ GateInv /\ SmoothInv
    BY DEF RecordInv
  <1>3. CASE Begin(c)
    <2>1. PICK q \in Requested : Turns(c, q) /\ Begins(c, q)
      BY <1>2, <1>3, BeginTurns
    <2>2. UNCHANGED <<rows, wf, late, started>> /\ req[c].at = "idle" /\ RequestKind(c, q)
      <3>1. req[c].at = "idle"
        BY <1>3, Zenon DEF Begin, At
      <3>2. QED
        BY <1>2, <1>3, <2>1, <3>1, BeginTurns DEF RequestKind
    <2>3. Steady /\ AwaitedOn /\ ClosesEnded
      BY <1>1, <1>2, <2>1, <2>2, TurnsOnward
    <2>4. FitInv' /\ GateInv'
      BY <1>2, <2>1, <2>2, TurnsFit, TurnsGate
    <2>5. QED
      BY <1>1, <2>3, <2>4, FactsKept
  <1>4. CASE \/ CheckExists(c) \/ ReadActive(c) \/ ReadActiveToCancel(c) \/ Signal(c)
             \/ CreateFails(c) \/ Find(c) \/ Save(c) \/ SoftRemove(c) \/ RequestFails(c)
    <2>1. PICK q \in Requested :
              /\ Turns(c, q)
              /\ q = NoRequest \/ GoesOn(c, q) \/ Finds(c, q) \/ Names(c, q)
      BY <1>2, <1>4, ReadTurns
    <2>2. UNCHANGED <<rows, wf, late, started, overlapped>> /\ RequestKind(c, q)
      BY <1>2, <1>4, <2>1, ReadTurns DEF RequestKind
    <2>3. c \in Open
      BY <1>4 DEF CheckExists, ReadActive, ReadActiveToCancel, Signal, CreateFails, Find, Save,
         SoftRemove, RequestFails, At, Open
    <2>4. req[c].at \in {"create", "compensate"} =>
              crashes' # 0 \/ (q.at = "compensate" /\ q.run = req[c].run)
      <3>1. req'[c] = q
        BY <1>2, <2>1, TurnsAlone
      <3>2. QED
        BY <1>2, <1>4, <3>1, ReadLeaves
    <2>5. Steady /\ AwaitedOn /\ ClosesEnded
      BY <1>1, <1>2, <2>1, <2>2, <2>4, TurnsOnward
    <2>6. FitInv' /\ GateInv'
      BY <1>2, <2>1, <2>2, <2>3, TurnsFit, TurnsGate
    <2>7. QED
      BY <1>1, <2>5, <2>6, FactsKept
  <1>5. CASE CancelWorkflow(c) \/ Compensate(c)
    BY <1>1, <1>2, <1>5, CancelOnward, CancelFits, CancelGate, FactsKept
  <1>6. CASE StartWorkflow(c)
    BY <1>1, <1>2, <1>6, StartOnward, StartFits, StartGate, FactsKept
  <1>7. CASE CreateExecution(c)
    BY <1>1, <1>2, <1>7, CreateOnward, CreateFits, CreateGate, FactsKept
  <1>8. CASE MarkExecution(c)
    BY <1>1, <1>2, <1>8, MarkOnward, MarkFits, MarkGate, FactsKept
  <1>9. QED
    BY <1>3, <1>4, <1>5, <1>6, <1>7, <1>8 DEF Handle

LEMMA NextKeepsRecord ==
    ASSUME ControlAssumption, RecordInv, [Next]_vars
    PROVE  RecordInv'
  <1>1. ASSUME NEW c \in Clients, Begin(c) \/ Handle(c) PROVE RecordInv'
    BY <1>1, RequestKeepsRecord
  <1>2. /\ Recorded /\ HandOffInv' /\ CountInv'
        /\ crashes' = 0 => crashes = 0
    BY CountsKept, NextKeepsHandOff DEF RecordInv, Recorded
  <1>3. ASSUME NEW r \in Runs, Work(r) \/ LateEffect(r) PROVE RecordInv'
    <2>1. WorkMoves(r)
      BY <1>3, WorkflowMoves DEF RecordInv
    <2>2. Steady /\ AwaitedOn /\ ClosesEnded
      BY <1>2, <2>1, WorkOnward
    <2>3. FitInv' /\ GateInv'
      BY <2>1, WorkFits, WorkGate DEF RecordInv
    <2>4. QED
      BY <1>2, <2>2, <2>3, FactsKept
  <1>4. CASE UNCHANGED <<rows, wf, late, started, req, overlapped, faults, crashes>>
    <2>1. FitInv'
      BY <1>4 DEF RecordInv, FitInv, FitRequest, Heading
    <2>2. GateInv'
      BY <1>4 DEF RecordInv, GateInv, Open, ActiveRows
    <2>3. SmoothInv' /\ RowedInv'
      BY <1>4 DEF RecordInv, SmoothInv, RowedInv, Smooth, Undisturbed, Live, ActiveRows, Awaited,
         CancelsItsRow
    <2>4. QED
      BY <1>2, <2>1, <2>2, <2>3, Zenon DEF RecordInv
  <1>5. TrackerCompletes \/ UNCHANGED vars =>
            UNCHANGED <<rows, wf, late, started, req, overlapped, faults, crashes>>
    BY DEF TrackerCompletes, vars, wfVars, countVars
  <1>6. QED
    BY <1>1, <1>3, <1>4, <1>5 DEF Next

LEMMA InitRecord ==
    ASSUME ControlAssumption, Init
    PROVE  RecordInv
  <1>1. HandOffInv
    BY InitHandOff
  <1>2. CountInv
    <2>1. deleted = FALSE /\ overlapped = FALSE /\ requests = 0 /\ faults = 0 /\ crashes = 0
      BY DEF Init
    <2>2. 0 \in 0 .. MaxRequests /\ 0 \in 0 .. MaxFaults /\ 0 \in 0 .. MaxCrashes
      BY DEF ControlAssumption
    <2>3. QED
      BY <2>1, <2>2 DEF CountInv
  <1>3. /\ rows = <<>> /\ started = 0 /\ ActiveRows = {}
        /\ \A c \in Clients : req[c] = NoRequest
        /\ \A r \in Runs : wf[r].step = "none" /\ wf[r].tries = 0 /\ late[r] = "none"
    BY DEF Init, ActiveRows
  <1>4. FitInv
    <2>1. Heading = {}
      BY <1>3, EmptyRequest DEF Heading
    <2>2. \A c \in Clients : FitRequest(req[c])
      BY <1>1, <1>3, NoRequestFits
    <2>3. Cardinality(Heading) = 0
      BY <2>1, FS_EmptySet
    <2>4. QED
      BY <1>3, <2>2, <2>3 DEF FitInv, ControlAssumption
  <1>5. GateInv
    BY <1>3, EmptyRequest DEF GateInv, Open
  <1>6. \A r \in Runs : ~Live(r)
    BY <1>3, Disjoint DEF Live
  <1>7. SmoothInv /\ RowedInv
    BY <1>3, <1>6, EmptyRequest DEF SmoothInv, RowedInv, CancelsItsRow
  <1>8. QED
    BY <1>1, <1>2, <1>4, <1>5, <1>7 DEF RecordInv

LEMMA RecordsTyped ==
    ASSUME ControlAssumption, RecordInv
    PROVE  TypeOK
  <1>1. ControlTypeOK /\ CountInv /\ FitInv /\ 1 .. started \subseteq Runs /\ started \in Nat
    BY StartedAreRuns DEF RecordInv, HandOffInv
  <1>2. rows \in Seq([run : Runs, state : ExecutionStatus])
    <2>1. rows \in Seq(RowRecords) /\ Len(rows) \in Nat /\ DOMAIN rows = 1 .. Len(rows)
      BY <1>1 DEF ControlTypeOK
    <2>2. \A i \in DOMAIN rows : rows[i] \in [run : Runs, state : ExecutionStatus]
      <3>1. \A i \in DOMAIN rows : rows[i] \in RowRecords /\ rows[i].run \in Runs
        BY <1>1, <2>1 DEF FitInv
      <3>2. QED
        BY <3>1 DEF RowRecords
    <2>3. rows \in [1 .. Len(rows) -> [run : Runs, state : ExecutionStatus]]
      BY <2>1, <2>2
    <2> DEFINE T == [run : Runs, state : ExecutionStatus]
               n == Len(rows)
    <2>4. rows \in [1 .. n -> T] /\ n \in Nat
      BY <2>1, <2>3
    <2> HIDE DEF T, n
    <2>5. rows \in Seq(T)
      BY <2>4, SeqDef
    <2>6. QED
      BY <2>5 DEF T
  <1>3. started \in 0 .. MaxRuns
    BY <1>1, HeadingCounts DEF FitInv, ControlAssumption
  <1>4. wf \in [Runs -> [step : Activities \cup Ended \cup {"none"}, tries : 0 .. MaxAttempts - 1]]
    BY <1>1 DEF ControlTypeOK, FitInv, WorkflowSteps, ControlAssumption
  <1>5. late \in [Runs -> (Activities \ {"load"}) \cup {"none"}]
    BY <1>1 DEF ControlTypeOK, FitInv
  <1>6. req \in [Clients -> [op : Ops, to : Status, at : Steps, exec : 0 .. Len(rows),
                             run : 0 .. started, seen : Status]]
    <2>1. req \in [Clients -> Requested] /\ Len(rows) \in Nat
      BY <1>1 DEF ControlTypeOK
    <2>2. ASSUME NEW c \in Clients
          PROVE  req[c] \in [op : Ops, to : Status, at : Steps, exec : 0 .. Len(rows),
                             run : 0 .. started, seen : Status]
      <3>1. req[c] \in Requested /\ req[c].exec <= Len(rows) /\ req[c].run <= started
        BY <1>1, <2>1 DEF FitInv, FitRequest
      <3>2. req[c].exec \in 0 .. Len(rows) /\ req[c].run \in 0 .. started
        BY <1>1, <2>1, <3>1 DEF Requested
      <3>3. QED
        BY <3>1, <3>2 DEF Requested
    <2>3. QED
      BY <2>1, <2>2
  <1>7. QED
    BY <1>1, <1>2, <1>3, <1>4, <1>5, <1>6 DEF TypeOK, ControlTypeOK, CountInv

\* The rows of the executions tell of the workflows: one request at a time
\* leaves at most one active, undisturbed requests report cancelled only what
\* was cancelled, and leave no workflow without a row.
THEOREM RowsTellOfWorkflows == Spec => []RowsFollowWorkflows
  <1>1. Init => RecordInv
    BY InitRecord, ControlAssumption
  <1>2. RecordInv /\ [Next]_vars => RecordInv'
    BY NextKeepsRecord, ControlAssumption
  <1>3. RecordInv => RowsFollowWorkflows
    <2> SUFFICES ASSUME RecordInv PROVE RowsFollowWorkflows
      OBVIOUS
    <2>1. TypeOK
      BY RecordsTyped, ControlAssumption
    <2>2. OneActiveExecution
      <3>1. ASSUME ~overlapped PROVE Cardinality(ActiveRows) <= 1
        <4>1. \A i, j \in ActiveRows : i = j
          BY <3>1 DEF RecordInv, GateInv
        <4>2. ActiveRows = {} \/ \E i : ActiveRows = {i}
          BY <4>1
        <4>3. QED
          <5>1. \A i : Cardinality({i}) = 1
            BY FS_Singleton
          <5>2. Cardinality({}) = 0
            BY FS_EmptySet
          <5>3. QED
            BY <4>2, <5>1, <5>2
      <3>2. QED
        BY <3>1 DEF OneActiveExecution
    <2>3. CancelledIsCancelled
      BY DEF RecordInv, SmoothInv, Smooth, CancelledIsCancelled
    <2>4. NoOrphanWorkflow
      <3>1. ASSUME Undisturbed, Open = {}, NEW r \in Runs, Live(r)
            PROVE  \E i \in DOMAIN rows : rows[i].run = r
        <4>1. Awaited(r) \/ \E i \in DOMAIN rows : rows[i].run = r
          BY <3>1 DEF RecordInv, RowedInv, Undisturbed
        <4>2. ~Awaited(r)
          BY <3>1 DEF Awaited, Open
        <4>3. QED
          BY <4>1, <4>2
      <3>2. QED
        BY <3>1 DEF NoOrphanWorkflow
    <2>5. QED
      BY <2>1, <2>2, <2>3, <2>4 DEF RowsFollowWorkflows
  <1>4. QED
    BY <1>1, <1>2, <1>3, PTL DEF Spec
===============================================================================
