------------------------ MODULE SwitchBarrier_proofs ------------------------
(***************************************************************************)
(* Theorems about SwitchBarrier, for any number of threads, accounts and   *)
(* switches, and whatever calls time out where no theorem says otherwise.  *)
(***************************************************************************)
EXTENDS SwitchBarrier, SequenceTheorems, TLAPS

OpStates == {"unknown", "pending", "switching"} \cup Final
Callers == {"prep", "cancel", "defer"}
EarlyCallers == {"prep", "cancel"}

(* The records of the switch have the fields the control depends on.        *)
Shapes ==
  /\ op \in 0..MaxSwitches
  /\ opState \in [Ops -> OpStates]
  /\ pending \in BOOLEAN /\ timer \in BOOLEAN
  /\ recQ \in Seq(Callers)
  /\ {"canceled", "prepared"} \subseteq DOMAIN req
  /\ "at" \in DOMAIN prep
  /\ {"step", "at"} \subseteq DOMAIN tx

(* No switch is under way that has not been asked for.                      *)
FutureUnknown == \A o \in Ops : o > op => opState[o] = "unknown"

(* Where the request is, and what runtime/operation/status says of it.      *)
PendingPhase ==
  pending =>
    op \in Ops /\ opState[op] = "pending" /\ tx.step = "off" /\ recQ = <<>> /\ ~req.canceled
PreparingPhase ==
  prep.at # "off" =>
    /\ op \in Ops /\ opState[op] \in {"pending", "failed"} /\ tx.step = "off"
    /\ intWait = {} /\ ~timer
    /\ pending => ~req.prepared
    /\ ~req.canceled => pending
SwitchingPhase ==
  tx.step # "off" =>
    op \in Ops /\ opState[op] = "switching" /\ ~pending /\ recQ = <<>> /\ prep.at = "off"
DeferringPhase ==
  recQ = <<"defer">> => opState[op] = "pending" /\ prep.at = "off"
RecoveringPhase ==
  recQ # <<>> =>
    /\ op \in Ops /\ tx.step = "off" /\ ~pending
    /\ \/ recQ = <<"defer">>
       \/ recQ \in Seq(EarlyCallers) /\ opState[op] \in {"pending", "failed"}
TimerPhase == timer => pending

ControlInv ==
  /\ Shapes /\ FutureUnknown
  /\ PendingPhase /\ PreparingPhase /\ SwitchingPhase /\ DeferringPhase /\ RecoveringPhase
  /\ TimerPhase

(* The fields that the control of a switch reads.                           *)
RequestKeepsPhase ==
  /\ {"canceled", "prepared"} \subseteq DOMAIN req'
  /\ req'.canceled = req.canceled /\ req'.prepared = req.prepared

(* The step changes no outcome that is final.                               *)
OutcomesStay == \A o \in Ops : opState[o] \in Final => opState'[o] = opState[o]

-----------------------------------------------------------------------------
(* Nothing the phases depend on changes.                                    *)
LEMMA ControlKept ==
  ASSUME ControlInv, RequestKeepsPhase,
         UNCHANGED <<op, opState, pending, prep, recQ, intWait, timer, tx>>
  PROVE  ControlInv'
BY DEF ControlInv, Shapes, FutureUnknown, PendingPhase, PreparingPhase, SwitchingPhase,
       DeferringPhase, RecoveringPhase, TimerPhase, RequestKeepsPhase

(* A step inside the transaction.                                           *)
LEMMA TransactionGoesOn ==
  ASSUME ControlInv, tx.step # "off", {"step", "at"} \subseteq DOMAIN tx',
         {"canceled", "prepared"} \subseteq DOMAIN req',
         UNCHANGED <<op, opState, pending, prep, recQ, timer>>
  PROVE  ControlInv'
BY DEF ControlInv, Shapes, FutureUnknown, PendingPhase, PreparingPhase, SwitchingPhase,
       DeferringPhase, RecoveringPhase, TimerPhase

(* The transaction ends and its outcome is known.                           *)
LEMMA TransactionEnds ==
  ASSUME ControlInv, tx.step # "off", tx' = NoTx, NEW x \in Final,
         opState' = [opState EXCEPT ![op] = x],
         UNCHANGED <<op, pending, prep, recQ, timer, req>>
  PROVE  ControlInv' /\ OutcomesStay
<1>1. /\ op \in Ops /\ opState[op] = "switching" /\ ~pending /\ recQ = <<>>
      /\ prep.at = "off" /\ ~timer
  BY DEF ControlInv, SwitchingPhase, TimerPhase
<1>2. tx'.step = "off" /\ {"step", "at"} \subseteq DOMAIN tx'
  BY DEF NoTx
<1>3. Shapes' /\ FutureUnknown'
  BY <1>1, <1>2 DEF ControlInv, Shapes, FutureUnknown, OpStates, Ops
<1>4. OutcomesStay
  BY <1>1 DEF OutcomesStay, Final, ControlInv, Shapes
<1>5. QED
  BY <1>1, <1>2, <1>3, <1>4 DEF ControlInv, PendingPhase, PreparingPhase, SwitchingPhase,
     DeferringPhase, RecoveringPhase, TimerPhase

(* A request is deferred after the grace period.                            *)
LEMMA DeferControl ==
  ASSUME ControlInv, pending, prep.at = "off", Defer,
         {"canceled", "prepared"} \subseteq DOMAIN req',
         UNCHANGED <<op, opState, prep, tx>>
  PROVE  ControlInv'
<1>1. op \in Ops /\ opState[op] = "pending" /\ tx.step = "off" /\ recQ = <<>>
  BY DEF ControlInv, PendingPhase
<1>2. pending' = FALSE /\ timer' = FALSE /\ recQ' = <<"defer">>
  BY <1>1 DEF Defer
<1>3. recQ' \in Seq(Callers)
  BY <1>2 DEF Callers
<1>4. Shapes' /\ FutureUnknown'
  BY <1>2, <1>3 DEF ControlInv, Shapes, FutureUnknown
<1>5. RecoveringPhase'
  <2>1. op' \in Ops /\ tx'.step = "off"
    BY <1>1
  <2>2. QED BY <1>2, <2>1 DEF RecoveringPhase
<1>6. DeferringPhase'
  BY <1>1 DEF DeferringPhase
<1>7. PreparingPhase' /\ SwitchingPhase'
  BY <1>1 DEF PreparingPhase, SwitchingPhase
<1>8. PendingPhase' /\ TimerPhase'
  BY <1>2 DEF PendingPhase, TimerPhase
<1>9. QED
  BY <1>4, <1>5, <1>6, <1>7, <1>8 DEF ControlInv

-----------------------------------------------------------------------------
(* At first there is no request, and so no phase of one.                     *)
THEOREM InitControl == Init => ControlInv
<1> SUFFICES ASSUME Init PROVE ControlInv
  OBVIOUS
<1>1. op = 0 /\ opState = [o \in Ops |-> "unknown"] /\ pending = FALSE /\ timer = FALSE
      /\ recQ = <<>> /\ prep = Idle /\ tx = NoTx /\ req = NoRequest
  BY DEF Init
<1>2. prep.at = "off" /\ tx.step = "off" /\ "at" \in DOMAIN prep
      /\ {"step", "at"} \subseteq DOMAIN tx
  BY <1>1 DEF Idle, NoTx
<1>3. {"canceled", "prepared"} \subseteq DOMAIN req
  BY <1>1 DEF NoRequest
<1>4. op \in 0..MaxSwitches
  BY <1>1, SwitchBarrierAssumption
<1>5. recQ \in Seq(Callers) /\ recQ # <<"defer">>
  BY <1>1
<1>6. Shapes /\ FutureUnknown
  BY <1>1, <1>2, <1>3, <1>4, <1>5 DEF Shapes, FutureUnknown, OpStates
<1>7. QED
  BY <1>1, <1>2, <1>5, <1>6 DEF ControlInv, PendingPhase, PreparingPhase, SwitchingPhase,
     DeferringPhase, RecoveringPhase, TimerPhase

(* A request is accepted only when nothing is under way, under a new number. *)
LEMMA SwitchRequestControl ==
  ASSUME ControlInv, NEW policy \in Policies, NEW target \in Accounts, NEW recent \in RecentSets,
         SwitchRequest(policy, target, recent)
  PROVE  ControlInv' /\ OutcomesStay
<1>1. /\ ~pending /\ tx.step = "off" /\ prep.at = "off" /\ recQ = <<>> /\ ~timer
      /\ op < MaxSwitches
  BY DEF SwitchRequest, Barrier, ControlInv, TimerPhase
<1>2. op' = op + 1 /\ op + 1 \in Ops /\ op' \in 0..MaxSwitches /\ op \in Nat
  BY <1>1, SwitchBarrierAssumption DEF SwitchRequest, ControlInv, Shapes, Ops
<1>3. /\ opState' = [opState EXCEPT ![op + 1] = "pending"] /\ pending' = TRUE
      /\ UNCHANGED <<recQ, timer, tx>> /\ intWait' = {}
      /\ prep' = [prep EXCEPT !.at = "next", !.todo = submitted \cup ActiveThreads \cup recent]
  BY DEF SwitchRequest
<1>4. /\ {"canceled", "prepared"} \subseteq DOMAIN req'
      /\ req'.canceled = FALSE /\ req'.prepared = FALSE
  BY DEF SwitchRequest, NoRequest
<1>5. "at" \in DOMAIN prep'
  BY <1>3 DEF ControlInv, Shapes
<1>6. opState[op + 1] = "unknown" /\ opState'[op'] = "pending"
  BY <1>2, <1>3 DEF ControlInv, FutureUnknown, Shapes
<1>7. Shapes'
  BY <1>2, <1>3, <1>4, <1>5 DEF ControlInv, Shapes, OpStates
<1>8. FutureUnknown'
  BY <1>2, <1>3 DEF ControlInv, FutureUnknown, Shapes, Ops
<1>9. OutcomesStay
  BY <1>2, <1>3, <1>6 DEF OutcomesStay, Final, ControlInv, Shapes
<1>10. QED
  BY <1>1, <1>2, <1>3, <1>4, <1>6, <1>7, <1>8, <1>9 DEF ControlInv, PendingPhase, PreparingPhase,
     SwitchingPhase, DeferringPhase, RecoveringPhase, TimerPhase

-----------------------------------------------------------------------------
(* Records keep their fields under the handlers' updates of the request.    *)
LEMMA CanceledRequest ==
  ASSUME {"canceled", "prepared"} \subseteq DOMAIN req
  PROVE  LET r == [req EXCEPT !.canceled = TRUE] IN
         {"canceled", "prepared"} \subseteq DOMAIN r /\ r.canceled = TRUE /\ r.prepared = req.prepared
OBVIOUS

LEMMA PrepareNextControl ==
  ASSUME ControlInv, PrepareNext
  PROVE  ControlInv'
<1>1. /\ op \in Ops /\ opState[op] \in {"pending", "failed"} /\ tx.step = "off"
      /\ intWait = {} /\ ~timer /\ (pending => ~req.prepared) /\ (~req.canceled => pending)
      /\ prep.at = "next" /\ "at" \in DOMAIN prep
  BY DEF ControlInv, PreparingPhase, PrepareNext, Shapes
<1>2. UNCHANGED <<op, opState, pending, recQ, intWait, tx>>
  BY DEF PrepareNext
<1>3. CASE req.canceled /\ EndPrepare(req, timer)
  <2>1. req' = req /\ timer' = timer /\ prep'.at = "off" /\ "at" \in DOMAIN prep'
    BY <1>1, <1>3 DEF EndPrepare
  <2>2. QED
    BY <1>1, <1>2, <2>1 DEF ControlInv, Shapes, FutureUnknown, PendingPhase, PreparingPhase,
       SwitchingPhase, DeferringPhase, RecoveringPhase, TimerPhase
<1>4. CASE ~req.canceled /\ EndPrepare([req EXCEPT !.prepared = TRUE], ~NoTurnCounted)
  <2>1. /\ {"canceled", "prepared"} \subseteq DOMAIN req' /\ req'.canceled = req.canceled
        /\ timer' \in BOOLEAN /\ pending /\ prep'.at = "off" /\ "at" \in DOMAIN prep'
    BY <1>1, <1>4 DEF EndPrepare, ControlInv, Shapes, NoTurnCounted
  <2>2. QED
    BY <1>1, <1>2, <2>1 DEF ControlInv, Shapes, FutureUnknown, PendingPhase, PreparingPhase,
       SwitchingPhase, DeferringPhase, RecoveringPhase, TimerPhase
<1>5. CASE /\ \E t \in prep.todo : prep' = [at |-> "goalGet", t |-> t, todo |-> prep.todo \ {t}]
           /\ UNCHANGED <<req, timer>>
  <2>1. prep'.at = "goalGet" /\ "at" \in DOMAIN prep'
    BY <1>5
  <2>2. QED
    BY <1>1, <1>2, <1>5, <2>1 DEF ControlInv, Shapes, FutureUnknown, PendingPhase, PreparingPhase,
       SwitchingPhase, DeferringPhase, RecoveringPhase, TimerPhase
<1>6. QED BY <1>3, <1>4, <1>5 DEF PrepareNext

LEMMA EarlyCallersSeq ==
  ASSUME NEW s \in Seq(EarlyCallers)
  PROVE  s \in Seq(Callers) /\ s # <<"defer">>
BY DEF EarlyCallers, Callers

(* A preparation that failed, or found its request canceled, waits for its  *)
(* turn to recover the Goals behind an earlier recovery.                    *)
LEMMA PrepareRecoversControl ==
  ASSUME ControlInv, prep.at # "off", recQ' = Append(recQ, "prep"), pending' = FALSE,
         prep'.at # "off", "at" \in DOMAIN prep',
         {"canceled", "prepared"} \subseteq DOMAIN req', req'.canceled,
         UNCHANGED <<op, opState, intWait, timer, tx>>
  PROVE  ControlInv'
<1>1. /\ op \in Ops /\ opState[op] \in {"pending", "failed"} /\ tx.step = "off"
      /\ intWait = {} /\ ~timer
  BY DEF ControlInv, PreparingPhase
<1>2. recQ \in Seq(EarlyCallers)
  <2>1. CASE recQ = <<>>
    BY <2>1
  <2>2. CASE recQ # <<>>
    BY <2>2 DEF ControlInv, DeferringPhase, RecoveringPhase
  <2>3. QED BY <2>1, <2>2
<1>3. recQ' \in Seq(EarlyCallers)
  BY <1>2 DEF EarlyCallers
<1>4. recQ' \in Seq(Callers) /\ recQ' # <<"defer">>
  BY <1>3, EarlyCallersSeq
<1>5. Shapes' /\ FutureUnknown'
  BY <1>4 DEF ControlInv, Shapes, FutureUnknown
<1>6. QED
  BY <1>1, <1>3, <1>4, <1>5 DEF ControlInv, PendingPhase, PreparingPhase, SwitchingPhase,
     DeferringPhase, RecoveringPhase, TimerPhase

LEMMA PrepareFailsControl ==
  ASSUME ControlInv, prep.at # "off", PrepareFails, UNCHANGED <<op, opState, intWait, timer, tx>>
  PROVE  ControlInv'
<1>1. /\ recQ' = Append(recQ, "prep") /\ pending' = FALSE
      /\ prep'.at = "recover" /\ "at" \in DOMAIN prep'
      /\ {"canceled", "prepared"} \subseteq DOMAIN req' /\ req'.canceled
  BY CanceledRequest DEF PrepareFails, ControlInv, Shapes
<1>2. QED BY <1>1, PrepareRecoversControl

LEMMA PrepareReplyControl ==
  ASSUME ControlInv, NEW val, PrepareReply(val), UNCHANGED <<op, opState, intWait, timer, tx>>
  PROVE  ControlInv'
<1> DEFINE t == prep.t
<1>1. prep.at # "off" /\ {"canceled", "prepared"} \subseteq DOMAIN req /\ "at" \in DOMAIN prep
  BY DEF PrepareReply, ControlInv, Shapes
<1>2. ASSUME prep'.at # "off", "at" \in DOMAIN prep', RequestKeepsPhase, UNCHANGED <<pending, recQ>>
      PROVE  ControlInv'
  BY <1>1, <1>2 DEF ControlInv, Shapes, FutureUnknown, PendingPhase, PreparingPhase,
     SwitchingPhase, DeferringPhase, RecoveringPhase, TimerPhase, RequestKeepsPhase
<1>3. CASE PrepareFails
  BY <1>1, <1>3, PrepareFailsControl
<1>4. CASE PrepareMissing(t)
  <2>1. prep'.at # "off" /\ "at" \in DOMAIN prep' /\ RequestKeepsPhase
    BY <1>1, <1>4 DEF PrepareMissing, ThreadGone, RequestKeepsPhase
  <2>2. QED BY <1>2, <1>4, <2>1 DEF PrepareMissing
<1>5. CASE PrepareAsksPause(t)
  <2>1. prep'.at # "off" /\ "at" \in DOMAIN prep' /\ RequestKeepsPhase
    BY <1>1, <1>5 DEF PrepareAsksPause, RequestKeepsPhase
  <2>2. QED BY <1>2, <1>5, <2>1 DEF PrepareAsksPause
<1>6. CASE PrepareContinues(IF req.canceled THEN req ELSE NoActiveGoal(req, t, val))
  <2>1. prep'.at # "off" /\ "at" \in DOMAIN prep' /\ RequestKeepsPhase
    BY <1>1, <1>6 DEF PrepareContinues, NoActiveGoal, RequestKeepsPhase
  <2>2. QED BY <1>2, <1>6, <2>1 DEF PrepareContinues
<1>7. CASE PreparePaused(t)
  <2>1. prep'.at # "off" /\ "at" \in DOMAIN prep' /\ RequestKeepsPhase
    BY <1>1, <1>7 DEF PreparePaused, GoalPaused, RequestKeepsPhase
  <2>2. CASE req.canceled
    <3>1. recQ' = Append(recQ, "prep") /\ req'.canceled
      BY <1>7, <2>1, <2>2 DEF PreparePaused, RequestKeepsPhase
    <3>2. pending = FALSE
      BY <2>2 DEF ControlInv, PendingPhase, Shapes
    <3>3. pending' = FALSE
      BY <1>7, <3>2 DEF PreparePaused
    <3>4. QED BY <1>1, <2>1, <3>1, <3>3, PrepareRecoversControl DEF RequestKeepsPhase
  <2>3. CASE ~req.canceled
    BY <1>2, <1>7, <2>1, <2>3 DEF PreparePaused
  <2>4. QED BY <2>2, <2>3
<1>8. QED BY <1>3, <1>4, <1>5, <1>6, <1>7 DEF PrepareReply

-----------------------------------------------------------------------------
(* Recoveries are served in the order they were asked for; the deferral's   *)
(* is never behind another one.                                             *)
LEMMA RecoverNextControl ==
  ASSUME ControlInv, RecoverNext
  PROVE  ControlInv' /\ OutcomesStay
<1>1. /\ op \in Ops /\ tx.step = "off" /\ pending = FALSE /\ recQ # <<>>
      /\ opState[op] \in {"pending", "failed"}
  BY DEF RecoverNext, ControlInv, Shapes, RecoveringPhase, DeferringPhase
<1>2. UNCHANGED <<op, pending, req, intWait, timer, tx>>
  BY DEF RecoverNext
<1>3. CASE UNCHANGED <<recQ, prep, opState>>
  BY <1>2, <1>3, ControlKept DEF RequestKeepsPhase, ControlInv, Shapes, OutcomesStay
<1>4. ASSUME recQ' = Tail(recQ), NEW ok \in BOOLEAN,
             prep' = IF Head(recQ) = "prep" THEN [prep EXCEPT !.at = "off", !.todo = {}] ELSE prep,
             opState' = [opState EXCEPT ![op] = RecoveredOutcome(Head(recQ), ok)]
      PROVE  ControlInv' /\ OutcomesStay
  <2>1. /\ "at" \in DOMAIN prep' /\ (prep'.at # "off" => prep' = prep)
    BY <1>4 DEF ControlInv, Shapes
  <2>2. opState'[op] = RecoveredOutcome(Head(recQ), ok)
    BY <1>1, <1>4 DEF ControlInv, Shapes
  <2>3. \A o \in Ops \ {op} : opState'[o] = opState[o]
    BY <1>4 DEF ControlInv, Shapes
  <2>4. RecoveredOutcome(Head(recQ), ok) \in {"deferred", "failed"}
    BY DEF RecoveredOutcome
  <2>5. Shapes' /\ FutureUnknown'
    <3>1. recQ' \in Seq(Callers)
      BY <1>1, <1>4 DEF ControlInv, Shapes
    <3>2. opState' \in [Ops -> OpStates]
      BY <1>4, <2>4 DEF ControlInv, Shapes, OpStates, Final
    <3>3. \A o \in Ops : o > op => opState'[o] = "unknown"
      BY <1>1, <1>4 DEF ControlInv, Shapes, FutureUnknown, Ops
    <3>4. QED BY <1>2, <2>1, <3>1, <3>2, <3>3 DEF ControlInv, Shapes, FutureUnknown
  <2>6. CASE recQ = <<"defer">>
    <3>1. recQ' = <<>> /\ prep' = prep /\ prep.at = "off" /\ opState[op] = "pending"
      BY <1>4, <2>6 DEF ControlInv, DeferringPhase
    <3>2. recQ' # <<"defer">>
      BY <3>1
    <3>3. QED
      BY <1>1, <1>2, <2>3, <2>5, <3>1, <3>2 DEF ControlInv, PendingPhase, PreparingPhase,
         OutcomesStay, Final, SwitchingPhase, DeferringPhase, RecoveringPhase, TimerPhase
  <2>7. CASE recQ # <<"defer">>
    <3>1. recQ \in Seq(EarlyCallers)
      BY <1>1, <2>7 DEF ControlInv, RecoveringPhase
    <3>2. Tail(recQ) \in Seq(EarlyCallers) /\ Head(recQ) \in EarlyCallers
      BY <1>1, <3>1
    <3>3. recQ' # <<"defer">> /\ opState'[op] = "failed"
      BY <1>4, <2>2, <3>2, EarlyCallersSeq DEF EarlyCallers, RecoveredOutcome
    <3>4. QED
      BY <1>1, <1>2, <1>4, <2>1, <2>3, <2>5, <3>2, <3>3 DEF ControlInv, PendingPhase,
         OutcomesStay, Final, PreparingPhase, SwitchingPhase, DeferringPhase, RecoveringPhase, TimerPhase
  <2>8. QED BY <2>6, <2>7
<1>5. \/ UNCHANGED <<recQ, prep, opState>>
      \/ /\ recQ' = Tail(recQ)
         /\ prep' = IF Head(recQ) = "prep" THEN [prep EXCEPT !.at = "off", !.todo = {}] ELSE prep
         /\ opState' = [opState EXCEPT ![op] = RecoveredOutcome(Head(recQ), rec.at # "failed")]
      \/ /\ Again /\ recQ' = Append(Tail(recQ), "prep")
         /\ prep' = [prep EXCEPT !.at = "recover"] /\ opState' = opState
  BY DEF RecoverNext
<1>6. CASE Again /\ recQ' = Append(Tail(recQ), "prep") /\ prep' = [prep EXCEPT !.at = "recover"] /\ opState' = opState
  <2>1. /\ recQ # <<"defer">> /\ prep.at # "off" /\ prep'.at = "recover" /\ "at" \in DOMAIN prep'
    BY <1>6 DEF Again, ControlInv, Shapes
  <2>2. recQ \in Seq(EarlyCallers)
    BY <1>1, <2>1 DEF ControlInv, RecoveringPhase
  <2>3. recQ' \in Seq(EarlyCallers)
    <3>1. Tail(recQ) \in Seq(EarlyCallers) /\ "prep" \in EarlyCallers
      BY <1>1, <2>2 DEF EarlyCallers
    <3> QED BY <1>6, <3>1
  <2>4. recQ' \in Seq(Callers) /\ recQ' # <<"defer">>
    BY <2>3, EarlyCallersSeq
  <2>5. Shapes' /\ FutureUnknown' /\ OutcomesStay
    BY <1>2, <1>6, <2>1, <2>4 DEF ControlInv, Shapes, FutureUnknown, OutcomesStay
  <2>6. PreparingPhase'
    BY <1>1, <1>2, <1>6, <2>1 DEF ControlInv, PreparingPhase
  <2>7. RecoveringPhase' /\ DeferringPhase'
    BY <1>1, <1>2, <1>6, <2>3, <2>4 DEF RecoveringPhase, DeferringPhase
  <2>8. PendingPhase' /\ SwitchingPhase' /\ TimerPhase'
    BY <1>1, <1>2 DEF ControlInv, PendingPhase, SwitchingPhase, TimerPhase
  <2> QED
    BY <2>5, <2>6, <2>7, <2>8 DEF ControlInv
<1>7. QED BY <1>1, <1>3, <1>4, <1>5, <1>6

LEMMA CancelControl ==
  ASSUME ControlInv, Cancel
  PROVE  ControlInv' /\ OutcomesStay
<1>1. op \in Ops /\ opState[op] = "pending" /\ tx.step = "off" /\ recQ = <<>>
  BY DEF Cancel, ControlInv, PendingPhase
<1>2. /\ pending' = FALSE /\ timer' = FALSE /\ intWait' = {} /\ recQ' = <<"cancel">>
      /\ opState' = [opState EXCEPT ![op] = "failed"] /\ UNCHANGED <<op, prep, tx>>
  BY <1>1 DEF Cancel
<1>3. {"canceled", "prepared"} \subseteq DOMAIN req' /\ req'.canceled = TRUE
  BY CanceledRequest DEF Cancel, ControlInv, Shapes
<1>4. recQ' \in Seq(EarlyCallers) /\ recQ' \in Seq(Callers) /\ recQ' # <<"defer">>
  <2>1. recQ' \in Seq(EarlyCallers)
    BY <1>2 DEF EarlyCallers
  <2>2. QED BY <2>1, EarlyCallersSeq
<1>5. opState'[op] = "failed"
  BY <1>1, <1>2 DEF ControlInv, Shapes
<1>6. Shapes' /\ FutureUnknown'
  BY <1>1, <1>2, <1>3, <1>4 DEF ControlInv, Shapes, FutureUnknown, OpStates, Final, Ops
<1>7. OutcomesStay
  BY <1>1, <1>2 DEF OutcomesStay, Final, ControlInv, Shapes
<1>8. QED
  BY <1>1, <1>2, <1>3, <1>4, <1>5, <1>6, <1>7 DEF ControlInv, PendingPhase, PreparingPhase,
     SwitchingPhase, DeferringPhase, RecoveringPhase, TimerPhase

(* The request stays pending, or not, with its preparation over.            *)
LEMMA GraceControl ==
  ASSUME ControlInv, pending, prep.at = "off", timer' = FALSE, RequestKeepsPhase,
         UNCHANGED <<op, opState, pending, prep, recQ, tx>>
  PROVE  ControlInv'
BY DEF ControlInv, Shapes, FutureUnknown, PendingPhase, PreparingPhase, SwitchingPhase,
       DeferringPhase, RecoveringPhase, TimerPhase, RequestKeepsPhase

LEMMA GraceExpiredControl ==
  ASSUME ControlInv, GraceExpired
  PROVE  ControlInv'
<1>1. timer /\ pending /\ prep.at = "off"
  BY DEF GraceExpired, ControlInv, TimerPhase, PreparingPhase
<1>2. UNCHANGED <<op, opState, prep, tx>>
  BY DEF GraceExpired
<1>3. CASE UNCHANGED <<pending, req, recQ>> /\ timer' = FALSE
  BY <1>1, <1>2, <1>3, GraceControl DEF RequestKeepsPhase, ControlInv, Shapes
<1>4. CASE Defer /\ req' = [req EXCEPT !.canceled = TRUE]
  BY <1>1, <1>2, <1>4, DeferControl, CanceledRequest DEF ControlInv, Shapes
<1>5. CASE /\ timer' = FALSE
           /\ req' = [req EXCEPT !.interrupted = [t \in Threads |->
                                   IF active[t] # 0 THEN active[t] ELSE @[t]]]
           /\ UNCHANGED <<pending, recQ>>
  <2>1. RequestKeepsPhase
    BY <1>5 DEF RequestKeepsPhase, ControlInv, Shapes
  <2>2. QED BY <1>1, <1>2, <1>5, <2>1, GraceControl
<1>6. QED BY <1>3, <1>4, <1>5 DEF GraceExpired

(* The interrupts of a request leave the phase as it is until the last one. *)
LEMMA InterruptDoneControl ==
  ASSUME ControlInv, NEW t \in Threads, NEW r, InterruptDone(t, r),
         {"canceled", "prepared"} \subseteq DOMAIN r,
         r.canceled = req.canceled, r.prepared = req.prepared,
         UNCHANGED <<op, opState, prep, tx>>
  PROVE  ControlInv'
<1>1. ASSUME req' = r, UNCHANGED <<pending, timer, recQ>>
      PROVE  ControlInv'
  BY <1>1 DEF ControlInv, Shapes, FutureUnknown, PendingPhase, PreparingPhase, SwitchingPhase,
     DeferringPhase, RecoveringPhase, TimerPhase, InterruptDone
<1>2. CASE intWait = {t} /\ pending /\ Defer /\ req' = [r EXCEPT !.canceled = TRUE]
  <2>1. prep.at = "off"
    BY <1>2 DEF ControlInv, PreparingPhase
  <2>2. {"canceled", "prepared"} \subseteq DOMAIN req'
    BY <1>2
  <2>3. QED BY <1>2, <2>1, <2>2, DeferControl
<1>3. QED BY <1>1, <1>2 DEF InterruptDone

LEMMA InterruptReplyControl ==
  ASSUME ControlInv, NEW t \in Threads, NEW by, NEW val, NEW n, InterruptReply(t, by, val, n),
         UNCHANGED <<op, opState, prep, tx>>
  PROVE  ControlInv'
<1> DEFINE U == [req EXCEPT !.interrupted = [@ EXCEPT ![t] = 0]]
<1>1. {"canceled", "prepared"} \subseteq DOMAIN req
  BY DEF ControlInv, Shapes
<1>2. CASE UNCHANGED <<intWait, req, pending, timer, recQ>>
  BY <1>1, <1>2, ControlKept DEF RequestKeepsPhase
<1>3. CASE InterruptDone(t, req)
  BY <1>1, <1>3, InterruptDoneControl
<1>4. CASE InterruptDone(t, U)
  <2>1. {"canceled", "prepared"} \subseteq DOMAIN U
        /\ U.canceled = req.canceled /\ U.prepared = req.prepared
    BY <1>1
  <2>2. QED BY <1>4, <2>1, InterruptDoneControl
<1>5. CASE InterruptDone(t, [U EXCEPT !.intFailed = TRUE])
  <2>1. LET r == [U EXCEPT !.intFailed = TRUE] IN
        {"canceled", "prepared"} \subseteq DOMAIN r
        /\ r.canceled = req.canceled /\ r.prepared = req.prepared
    BY <1>1
  <2>2. QED BY <1>5, <2>1, InterruptDoneControl
<1>6. CASE /\ req' = [req EXCEPT !.interrupted = [@ EXCEPT ![t] = n]] \/ req' = req
           /\ UNCHANGED <<intWait, pending, timer, recQ>>
  <2>1. RequestKeepsPhase
    BY <1>1, <1>6 DEF RequestKeepsPhase
  <2>2. QED BY <1>6, <2>1, ControlKept
<1>7. QED BY <1>2, <1>3, <1>4, <1>5, <1>6 DEF InterruptReply, OlderSettled

-----------------------------------------------------------------------------
LEMMA DrainPendingControl ==
  ASSUME ControlInv, DrainPending
  PROVE  ControlInv' /\ OutcomesStay
<1>1. UNCHANGED <<op, req, prep, recQ, intWait>>
  BY DEF DrainPending
<1>2. CASE UNCHANGED <<pending, timer, opState, tx>>
  BY <1>1, <1>2, ControlKept DEF RequestKeepsPhase, ControlInv, Shapes, OutcomesStay
<1>3. CASE /\ pending /\ req.prepared
           /\ pending' = FALSE /\ timer' = FALSE
           /\ opState' = [opState EXCEPT ![op] = "switching"]
           /\ tx' = Enter(NoTx, "login", {})
  <2>1. op \in Ops /\ opState[op] = "pending" /\ recQ = <<>> /\ prep.at = "off"
    BY <1>3 DEF ControlInv, PendingPhase, PreparingPhase
  <2>2. {"step", "at"} \subseteq DOMAIN tx' /\ opState'[op] = "switching"
    BY <1>3, <2>1 DEF Enter, NoTx, ControlInv, Shapes
  <2>3. Shapes' /\ FutureUnknown'
    BY <1>1, <1>3, <2>1, <2>2 DEF ControlInv, Shapes, FutureUnknown, OpStates, Ops
  <2>4. OutcomesStay
    BY <1>3, <2>1 DEF OutcomesStay, Final, ControlInv, Shapes
  <2>5. recQ' # <<"defer">>
    BY <1>1, <2>1
  <2>6. QED
    BY <1>1, <1>3, <2>1, <2>2, <2>3, <2>4, <2>5 DEF ControlInv, PendingPhase, PreparingPhase,
       SwitchingPhase, DeferringPhase, RecoveringPhase, TimerPhase
<1>4. QED BY <1>2, <1>3 DEF DrainPending

LEMMA TxCallControl ==
  ASSUME ControlInv, TxCall \/ TxNoCredentials
  PROVE  ControlInv' /\ OutcomesStay
<1>1. /\ tx.step # "off" /\ UNCHANGED <<op, opState, pending, req, prep, recQ, timer>>
      /\ \/ tx' = [tx EXCEPT !.at = "await", !.attempted = @ \/ tx.step = "activate"]
         \/ tx' = [tx EXCEPT !.at = "await"]
  BY DEF TxCall, TxNoCredentials
<1>2. {"step", "at"} \subseteq DOMAIN tx' /\ {"canceled", "prepared"} \subseteq DOMAIN req'
  BY <1>1 DEF ControlInv, Shapes
<1>3. QED BY <1>1, <1>2, TransactionGoesOn DEF OutcomesStay

LEMMA TxNextThreadControl ==
  ASSUME ControlInv, TxNextThread
  PROVE  ControlInv' /\ OutcomesStay
<1>1. tx.step # "off" /\ UNCHANGED <<op, pending, req, prep, recQ, timer>>
  BY DEF TxNextThread, ThreadStepKind
<1>2. {"canceled", "prepared"} \subseteq DOMAIN req' /\ {"step", "at"} \subseteq DOMAIN tx
  BY <1>1 DEF ControlInv, Shapes
<1>3. CASE /\ UNCHANGED opState
           /\ \/ \E t \in tx.todo : tx' = [tx EXCEPT !.at = "await", !.t = t, !.todo = @ \ {t}]
              \/ tx' = Enter(tx, "continue", req.recovery)
  <2>1. {"step", "at"} \subseteq DOMAIN tx'
    BY <1>2, <1>3 DEF Enter
  <2>2. QED BY <1>1, <1>2, <1>3, <2>1, TransactionGoesOn DEF OutcomesStay
<1>4. CASE /\ tx' = NoTx
           /\ opState' = [opState EXCEPT ![op] = IF tx.step = "continue" THEN "switched" ELSE "failed"]
  BY <1>1, <1>4, TransactionEnds DEF Final
<1>5. QED BY <1>3, <1>4 DEF TxNextThread

LEMMA AccountStepControl ==
  ASSUME ControlInv, tx.step # "off", NEW ok, AccountStepSettles(ok),
         UNCHANGED <<op, opState, pending, req, prep, recQ, timer>>
  PROVE  ControlInv' /\ OutcomesStay
<1>1. {"step", "at"} \subseteq DOMAIN tx /\ {"canceled", "prepared"} \subseteq DOMAIN req'
  BY DEF ControlInv, Shapes
<1>2. ASSUME NEW x, {"step", "at"} \subseteq DOMAIN x, NEW step, NEW todo
      PROVE  {"step", "at"} \subseteq DOMAIN Enter(x, step, todo)
  BY <1>2 DEF Enter
<1>3. {"step", "at"} \subseteq DOMAIN [tx EXCEPT !.applied = TRUE]
  BY <1>1
<1>4. \E x, step, todo : /\ x = tx \/ x = [tx EXCEPT !.applied = TRUE]
                         /\ tx' = Enter(x, step, todo)
  BY DEF AccountStepSettles, UndoFrom, UndoAfterLogin
<1>5. {"step", "at"} \subseteq DOMAIN tx'
  BY <1>1, <1>2, <1>3, <1>4
<1>6. QED BY <1>1, <1>5, TransactionGoesOn DEF OutcomesStay

LEMMA ThreadStepControl ==
  ASSUME ControlInv, NEW val, NEW n, ThreadStepSettles(val, n),
         UNCHANGED <<op, pending, prep, recQ, timer>>
  PROVE  ControlInv' /\ OutcomesStay
<1>1. tx.step # "off" /\ {"step", "at"} \subseteq DOMAIN tx
      /\ {"canceled", "prepared"} \subseteq DOMAIN req
  BY DEF ThreadStepSettles, ControlInv, Shapes
<1>2. CASE tx' = NoTx /\ opState' = [opState EXCEPT ![op] = "failed"] /\ UNCHANGED req
  BY <1>1, <1>2, TransactionEnds DEF Final
<1>3. CASE UNCHANGED opState
  <2>1. {"canceled", "prepared"} \subseteq DOMAIN req'
    BY <1>1, <1>3 DEF ThreadStepSettles
  <2>2. {"step", "at"} \subseteq DOMAIN tx'
    <3>1. CASE tx' = [tx EXCEPT !.at = "next"]
      BY <1>1, <3>1
    <3>2. CASE tx' = UndoFrom(tx)
      <4>1. \E step, todo : tx' = Enter(tx, step, todo)
        BY <3>2 DEF UndoFrom, UndoAfterLogin
      <4>2. QED BY <1>1, <4>1 DEF Enter
    <3>3. CASE tx' = NoTx
      BY <3>3 DEF NoTx
    <3>4. QED BY <3>1, <3>2, <3>3 DEF ThreadStepSettles
  <2>3. QED BY <1>1, <1>3, <2>1, <2>2, TransactionGoesOn DEF OutcomesStay
<1>4. QED BY <1>2, <1>3 DEF ThreadStepSettles

-----------------------------------------------------------------------------
LEMMA ReadInternalAnswerControl ==
  ASSUME ControlInv, NEW t \in Threads, ReadInternalAnswer(t)
  PROVE  ControlInv' /\ OutcomesStay
<1> DEFINE m == Head(pipe[t])
<1>1. op' = op
  BY DEF ReadInternalAnswer
<1>2. CASE PrepareReply(m.val) /\ UNCHANGED <<opState, intWait, timer, tx>>
  BY <1>1, <1>2, PrepareReplyControl DEF OutcomesStay
<1>3. CASE RecoverReply(m.val) /\ UNCHANGED <<opState, pending, prep, recQ, intWait, timer, tx>>
  <2>1. RequestKeepsPhase
    BY <1>3 DEF RecoverReply, RequestKeepsPhase, ControlInv, Shapes
  <2>2. QED BY <1>1, <1>3, <2>1, ControlKept DEF OutcomesStay
<1>4. CASE InterruptReply(t, m.by, m.val, m.n) /\ UNCHANGED <<opState, prep, tx>>
  BY <1>1, <1>4, InterruptReplyControl DEF OutcomesStay
<1>5. CASE ThreadStepSettles(m.val, m.n) /\ UNCHANGED <<pending, prep, recQ, intWait, timer>>
  BY <1>1, <1>5, ThreadStepControl
<1>6. CASE UNCHANGED <<opState, pending, req, prep, recQ, intWait, timer, tx>>
  BY <1>1, <1>6, ControlKept DEF RequestKeepsPhase, ControlInv, Shapes, OutcomesStay
<1>7. QED BY <1>2, <1>3, <1>4, <1>5, <1>6 DEF ReadInternalAnswer

LEMMA ReadEndedControl ==
  ASSUME ControlInv, NEW t \in Threads, ReadEnded(t)
  PROVE  ControlInv' /\ OutcomesStay
<1>1. UNCHANGED <<op, opState, pending, prep, recQ, intWait, timer, tx>>
  BY DEF ReadEnded
<1>2. RequestKeepsPhase
  BY DEF ReadEnded, RequestKeepsPhase, ControlInv, Shapes
<1>3. QED BY <1>1, <1>2, ControlKept DEF OutcomesStay

LEMMA TimersControl ==
  ASSUME ControlInv, TimerStep
  PROVE  ControlInv' /\ OutcomesStay
<1>1. CASE PrepareTimer
  <2>1. prep.at # "off" /\ PrepareFails /\ UNCHANGED <<op, opState, intWait, timer, tx>>
    BY <1>1 DEF PrepareTimer
  <2>2. QED BY <2>1, PrepareFailsControl DEF OutcomesStay
<1>2. CASE RecoverTimer
  <2>1. UNCHANGED <<op, opState, pending, prep, recQ, intWait, timer, tx, req>>
    BY <1>2 DEF RecoverTimer, RecoverReply
  <2>2. QED BY <2>1, ControlKept DEF RequestKeepsPhase, ControlInv, Shapes, OutcomesStay
<1>3. CASE ThreadStepTimer
  <2>1. ThreadStepSettles("error", 0) /\ UNCHANGED <<op, pending, prep, recQ, timer>>
    BY <1>3 DEF ThreadStepTimer
  <2>2. QED BY <2>1, ThreadStepControl
<1>4. CASE AccountStepTimer
  <2>1. /\ tx.step # "off" /\ AccountStepSettles(FALSE)
        /\ UNCHANGED <<op, opState, pending, req, prep, recQ, timer>>
    BY <1>4 DEF AccountStepTimer
  <2>2. QED BY <2>1, AccountStepControl
<1>5. CASE GraceExpired
  BY <1>5, GraceExpiredControl DEF OutcomesStay, GraceExpired
<1>6. ASSUME NEW t \in Threads, InterruptTimer(t)
      PROVE  ControlInv' /\ OutcomesStay
  <2> DEFINE r == [req EXCEPT !.interrupted = [@ EXCEPT ![t] = 0], !.intFailed = TRUE]
  <2>1. InterruptDone(t, r) /\ UNCHANGED <<op, opState, prep, tx>>
    BY <1>6 DEF InterruptTimer
  <2>2. {"canceled", "prepared"} \subseteq DOMAIN r
        /\ r.canceled = req.canceled /\ r.prepared = req.prepared
    BY DEF ControlInv, Shapes
  <2> HIDE DEF r
  <2>3. QED BY <2>1, <2>2, InterruptDoneControl DEF OutcomesStay
<1>7. QED BY <1>1, <1>2, <1>3, <1>4, <1>5, <1>6 DEF TimerStep

(* One step per action.                                                     *)
THEOREM ControlStep ==
  ASSUME ControlInv, [Next]_vars
  PROVE  ControlInv' /\ OutcomesStay
<1> DEFINE kept == UNCHANGED <<op, opState, pending, prep, recQ, intWait, timer, tx, req>>
<1>1. ASSUME kept PROVE ControlInv' /\ OutcomesStay
  BY <1>1, ControlKept DEF RequestKeepsPhase, ControlInv, Shapes, OutcomesStay
<1>2. CASE UNCHANGED vars
  <2>1. kept
    BY <1>2 DEF vars, switchVars
  <2>2. QED BY <1>1, <2>1
<1>3. ASSUME NEW t \in Threads, WorkStart(t) PROVE ControlInv' /\ OutcomesStay
  <2>1. kept
    BY <1>3 DEF WorkStart, switchVars
  <2>2. QED BY <1>1, <2>1
<1>4. ASSUME NEW policy \in Policies, NEW target \in Accounts, NEW recent \in RecentSets,
             SwitchRequest(policy, target, recent)
      PROVE  ControlInv' /\ OutcomesStay
  BY <1>4, SwitchRequestControl
<1>5. CASE Cancel
  BY <1>5, CancelControl
<1>6. CASE ShimStep
  <2>1. CASE PrepareNext
    BY <2>1, PrepareNextControl DEF OutcomesStay, PrepareNext
  <2>2. CASE RecoverNext
    BY <2>2, RecoverNextControl
  <2>3. CASE DrainPending
    BY <2>3, DrainPendingControl
  <2>4. CASE TxCall \/ TxNoCredentials
    BY <2>4, TxCallControl
  <2>5. CASE TxNextThread
    BY <2>5, TxNextThreadControl
  <2>6. ASSUME NEW t \in Threads, FlushHeld(t) PROVE ControlInv' /\ OutcomesStay
    <3>1. kept
      BY <2>6 DEF FlushHeld, switchVars
    <3>2. QED BY <1>1, <3>1
  <2>7. QED BY <1>6, <2>1, <2>2, <2>3, <2>4, <2>5, <2>6 DEF ShimStep
<1>7. CASE TimerStep
  BY <1>7, TimersControl
<1>8. CASE ReadStep
  <2>1. CASE ReadAccountAnswer
    <3>1. UNCHANGED <<op, opState, pending, req, prep, recQ, timer>>
      BY <2>1 DEF ReadAccountAnswer
    <3>2. CASE AccountStepSettles(answer = "ok")
      <4>1. tx.step # "off"
        BY <3>2 DEF AccountStepSettles
      <4>2. QED BY <3>1, <3>2, <4>1, AccountStepControl
    <3>3. CASE tx.step \in {"identity", "undoIdentity"} /\ tx' = [tx EXCEPT !.at = "next"]
      <4>1. {"step", "at"} \subseteq DOMAIN tx' /\ {"canceled", "prepared"} \subseteq DOMAIN req'
        BY <3>1, <3>3 DEF ControlInv, Shapes
      <4>2. QED BY <3>1, <3>3, <4>1, TransactionGoesOn DEF OutcomesStay
    <3>4. QED BY <2>1, <3>2, <3>3 DEF ReadAccountAnswer
  <2>2. ASSUME NEW t \in Threads, ReadStarted(t) \/ ReadStartAnswer(t)
        PROVE  ControlInv' /\ OutcomesStay
    <3>1. kept
      BY <2>2 DEF ReadStarted, ReadStartAnswer, switchVars
    <3>2. QED BY <1>1, <3>1
  <2>3. ASSUME NEW t \in Threads, ReadEnded(t) PROVE ControlInv' /\ OutcomesStay
    BY <2>3, ReadEndedControl
  <2>4. ASSUME NEW t \in Threads, ReadInternalAnswer(t) PROVE ControlInv' /\ OutcomesStay
    BY <2>4, ReadInternalAnswerControl
  <2>5. QED BY <1>8, <2>1, <2>2, <2>3, <2>4 DEF ReadStep
<1>9. CASE ChildAccountCall \/ ManagerActivate
  <2>1. kept
    BY <1>9 DEF ChildAccountCall, ManagerActivate, switchVars
  <2>2. QED BY <1>1, <2>1
<1>10. ASSUME NEW t \in Threads,
              \/ ChildAnswer(t) \/ ChildFinish(t) \/ ChildGoalTurn(t)
              \/ ChildStart(t) \/ ChildGoalCall(t) \/ ChildInterrupt(t)
       PROVE  ControlInv' /\ OutcomesStay
  <2>1. UNCHANGED switchVars
    BY <1>10 DEF ChildAnswer, ChildFinish, ChildGoalTurn, ChildStart, ChildGoalCall, ChildInterrupt
  <2>2. kept
    BY <2>1 DEF switchVars
  <2>3. QED BY <1>1, <2>2
<1>11. QED
  BY <1>2, <1>3, <1>4, <1>5, <1>6, <1>7, <1>8, <1>9, <1>10 DEF Next

(* The phases of a switch exclude each other in every reachable state: a    *)
(* request that is pending has no transaction and no recovery, and so on.   *)
THEOREM ControlIsInvariant == Spec => []ControlInv
<1>1. Init => ControlInv
  BY InitControl
<1>2. ControlInv /\ [Next]_vars => ControlInv'
  BY ControlStep
<1>3. QED BY <1>1, <1>2, PTL DEF Spec

(* What runtime/operation/status has reported as switched, deferred or      *)
(* failed is never changed, whatever calls time out and whatever is         *)
(* canceled, deferred, rolled back or answered late.                        *)
THEOREM OutcomeIsFinal == Spec => OutcomeFinal
<1>1. ControlInv /\ [Next]_vars => [\A o \in Ops : opState[o] \in Final => opState'[o] = opState[o]]_vars
  BY ControlStep DEF OutcomesStay
<1>2. QED BY <1>1, ControlIsInvariant, PTL DEF Spec, OutcomeFinal

-----------------------------------------------------------------------------
(* Where the accounts are while a switch moves them.                        *)

AccountCall == [kind : {"login", "read"}, account : Accounts, by : {"main", "stale"}]
ManagerCall == [account : Accounts, by : {"main", "stale"}]

(* No call of s is waited for; the last one alone is, and it is c.          *)
NoMain(s) == \A i \in 1..Len(s) : s[i].by = "stale"
MainLast(s, c) ==
  s # <<>> /\ s[Len(s)] = c /\ \A i \in 1..Len(s) : i < Len(s) => s[i].by = "stale"

NoLogins == \A i \in 1..Len(auth) : auth[i].kind # "login"
NoStaleLogins == \A i \in 1..Len(auth) : auth[i].kind = "login" => auth[i].by = "main"

QuietCalls == NoMain(auth) /\ NoMain(mgr) /\ answer = "none"

(* A call to the child, or to the manager, is under way, or its result is    *)
(* known: one that is done was the last of its queue.                       *)
ChildAsked(c) ==
  /\ NoMain(mgr)
  /\ \/ MainLast(auth, c) /\ answer = "none"
     \/ NoMain(auth) /\ answer = "bad"
     \/ auth = <<>> /\ answer = "ok" /\ (c.kind = "login" => childAccount = c.account)
ManagerAsked(a) ==
  /\ NoMain(auth)
  /\ \/ MainLast(mgr, [account |-> a, by |-> "main"]) /\ answer = "none"
     \/ NoMain(mgr) /\ answer = "bad"
     \/ mgr = <<>> /\ answer = "ok" /\ managerAccount = a

TxShape(x) ==
  /\ {"step", "at", "applied", "attempted"} \subseteq DOMAIN x
  /\ x.step \in {"off"} \cup ForwardSteps \cup UndoSteps /\ x.at \in {"next", "await"}
  /\ x.applied \in BOOLEAN /\ x.attempted \in BOOLEAN
ReqShape(r) ==
  {"target", "previous"} \subseteq DOMAIN r /\ r.target \in Accounts /\ r.previous \in Accounts
AccountShapes ==
  /\ TxShape(tx) /\ ReqShape(req) /\ managerAccount \in Accounts
  /\ auth \in Seq(AccountCall) /\ mgr \in Seq(ManagerCall)
  /\ answer \in {"none", "ok", "bad"} /\ uncertain \in BOOLEAN

(* Which call each step of the transaction waits for.                       *)
CallsInv ==
  /\ (tx.step \in {"off", "resume", "continue", "undoResume"} \/ tx.at = "next") => QuietCalls
  /\ tx.at = "await" =>
       /\ tx.step = "login" => ChildAsked(AuthCall("login", req.target))
       /\ tx.step = "undoLogin" => ChildAsked(AuthCall("login", req.previous))
       /\ tx.step \in {"identity", "undoIdentity"} => ChildAsked(AuthCall("read", InitAccount))
       /\ tx.step = "activate" => ManagerAsked(req.target)
       /\ tx.step = "undoActivate" => ManagerAsked(req.previous)

(* What the transaction has reached on its way forward.                     *)
ForwardInv ==
  /\ tx.step = "login" => ~tx.applied /\ ~tx.attempted
  /\ tx.step \in {"identity", "activate", "resume", "continue"} =>
       tx.applied /\ childAccount = req.target /\ NoLogins
  /\ (tx.step = "identity" \/ (tx.step = "activate" /\ tx.at = "next")) => ~tx.attempted
  /\ tx.step = "activate" /\ tx.at = "await" => tx.attempted
  /\ tx.step \in {"resume", "continue"} =>
       tx.attempted /\ managerAccount = req.target /\ shimAccount = req.target /\ mgr = <<>>

(* What it has not moved yet, or has moved back, when no rollback failed.   *)
ManagerStays == managerAccount = req.previous /\ mgr = <<>>
RestTrust ==
  /\ NoLogins /\ mgr = <<>>
  /\ childAccount = managerAccount /\ shimAccount = managerAccount
  /\ pending => managerAccount = req.previous
ForwardTrust ==
  /\ tx.step = "login" =>
       /\ NoStaleLogins /\ ManagerStays /\ shimAccount = req.previous
       /\ answer # "ok" => childAccount = req.previous
  /\ tx.step \in {"identity", "activate"} => shimAccount = req.previous
  /\ (tx.step = "identity" \/ (tx.step = "activate" /\ tx.at = "next")) => ManagerStays
UndoTrust ==
  /\ tx.step = "undoLogin" => NoStaleLogins
  /\ tx.step \in {"undoLogin", "undoIdentity"} => tx.attempted \/ ManagerStays
  /\ tx.step \in {"undoIdentity", "undoActivate", "undoResume"} =>
       NoLogins /\ childAccount = req.previous
  /\ tx.step \in {"undoActivate", "undoResume"} => shimAccount = req.previous
  /\ tx.step = "undoResume" => ManagerStays
TrustedInv ==
  ~uncertain => (tx.step = "off" => RestTrust) /\ ForwardTrust /\ UndoTrust

AccountsInv == AccountShapes /\ CallsInv /\ ForwardInv /\ TrustedInv

(* The request keeps its two accounts.                                      *)
RequestKeepsAccounts ==
  ReqShape(req') /\ req'.target = req.target /\ req'.previous = req.previous

accountVars == <<auth, mgr, answer, childAccount, managerAccount, shimAccount, uncertain>>

(* Nothing the accounts depend on changes.                                  *)
LEMMA AccountsKept ==
  ASSUME AccountsInv, RequestKeepsAccounts, UNCHANGED <<tx, accountVars>>, pending' => pending
  PROVE  AccountsInv'
<1>1. AccountShapes'
  BY DEF AccountsInv, AccountShapes, RequestKeepsAccounts, accountVars
<1>2. CallsInv'
  BY DEF AccountsInv, CallsInv, QuietCalls, ChildAsked, ManagerAsked, AuthCall,
         RequestKeepsAccounts, accountVars
<1>3. ForwardInv'
  BY DEF AccountsInv, ForwardInv, NoLogins, RequestKeepsAccounts, accountVars
<1>4. TrustedInv'
  BY DEF AccountsInv, TrustedInv, RestTrust, ForwardTrust, UndoTrust, ManagerStays, NoLogins,
         NoStaleLogins, RequestKeepsAccounts, accountVars
<1>5. QED
  BY <1>1, <1>2, <1>3, <1>4 DEF AccountsInv

LEMMA EnterFields ==
  ASSUME NEW x, TxShape(x), NEW step, step \in ForwardSteps \/ step \in UndoSteps, NEW todo
  PROVE  /\ TxShape(Enter(x, step, todo))
         /\ Enter(x, step, todo).step = step /\ Enter(x, step, todo).at = "next"
         /\ Enter(x, step, todo).applied = x.applied
         /\ Enter(x, step, todo).attempted = x.attempted
BY DEF TxShape, Enter

(* The steps that a transaction at x may go on with.                        *)
LEMMA EnterSteps ==
  ASSUME NEW x, TxShape(x), NEW todo,
         NEW step \in {"login", "identity", "activate", "resume", "continue",
                       "undoLogin", "undoIdentity", "undoActivate", "undoResume"}
  PROVE  /\ TxShape(Enter(x, step, todo))
         /\ Enter(x, step, todo).step = step /\ Enter(x, step, todo).at = "next"
         /\ Enter(x, step, todo).applied = x.applied
         /\ Enter(x, step, todo).attempted = x.attempted
<1>1. step \in ForwardSteps \/ step \in UndoSteps
  BY DEF ForwardSteps, UndoSteps
<1>2. QED
  BY <1>1, EnterFields

LEMMA NoTxFields ==
  TxShape(NoTx) /\ NoTx.step = "off" /\ ~NoTx.applied /\ ~NoTx.attempted
BY DEF TxShape, NoTx

(* A call that is waited for joins a queue of calls that are not.           *)
LEMMA MainAppended ==
  ASSUME NEW S, NEW s \in Seq(S), NoMain(s), NEW c \in S
  PROVE  MainLast(Append(s, c), c)
<1>1. /\ Len(Append(s, c)) = Len(s) + 1 /\ Append(s, c)[Len(s) + 1] = c /\ Len(s) \in Nat
      /\ \A i \in 1..Len(s) : Append(s, c)[i] = s[i]
      /\ \A i \in 1..Len(s) + 1 : i < Len(s) + 1 => i \in 1..Len(s)
      /\ Append(s, c) # <<>>
  OBVIOUS
<1>2. QED
  BY <1>1 DEF NoMain, MainLast

(* The first call of a queue is taken.                                      *)
LEMMA CallTaken ==
  ASSUME NEW S, NEW s \in Seq(S), s # <<>>
  PROVE  /\ Tail(s) \in Seq(S) /\ Head(s) \in S
         /\ NoMain(s) => Head(s).by = "stale" /\ NoMain(Tail(s))
         /\ \A c \in S : MainLast(s, c) /\ c.by = "main" =>
              \/ Head(s) = c /\ Tail(s) = <<>>
              \/ Head(s).by = "stale" /\ MainLast(Tail(s), c)
         /\ \A i \in 1..Len(Tail(s)) : i + 1 \in 1..Len(s) /\ Tail(s)[i] = s[i + 1]
<1>1. /\ Tail(s) \in Seq(S) /\ Head(s) \in S /\ Head(s) = s[1] /\ Len(s) \in Nat \ {0}
      /\ Len(Tail(s)) = Len(s) - 1 /\ 1 \in 1..Len(s)
      /\ \A i \in 1..Len(Tail(s)) : i + 1 \in 1..Len(s) /\ Tail(s)[i] = s[i + 1]
  OBVIOUS
<1>2. NoMain(s) => Head(s).by = "stale" /\ NoMain(Tail(s))
  BY <1>1 DEF NoMain
<1>3. ASSUME NEW c \in S, MainLast(s, c), c.by = "main"
      PROVE  \/ Head(s) = c /\ Tail(s) = <<>>
             \/ Head(s).by = "stale" /\ MainLast(Tail(s), c)
  <2>1. CASE Len(s) = 1
    <3>1. Len(Tail(s)) = 0
      BY <1>1, <2>1
    <3>2. Tail(s) = <<>>
      BY <1>1, <3>1, EmptySeq
    <3>3. QED
      BY <1>1, <1>3, <2>1, <3>2 DEF MainLast
  <2>2. CASE Len(s) # 1
    <3>1. /\ 1 < Len(s) /\ Len(Tail(s)) \in 1..Len(Tail(s)) /\ Len(Tail(s)) + 1 = Len(s)
          /\ \A i \in 1..Len(Tail(s)) : i < Len(Tail(s)) => i + 1 < Len(s)
      BY <1>1, <2>2
    <3>2. Tail(s) # <<>> /\ Tail(s)[Len(Tail(s))] = c
      <4>1. Tail(s)[Len(Tail(s))] = s[Len(s)]
        BY <1>1, <3>1
      <4>2. Tail(s) # <<>>
        <5>1. Len(Tail(s)) # 0
          BY <1>1, <2>2
        <5>2. Len(<<>>) = 0
          OBVIOUS
        <5>3. QED
          BY <5>1, <5>2, Zenon
      <4>3. QED
        BY <1>3, <4>1, <4>2 DEF MainLast
    <3>3. QED
      BY <1>1, <1>3, <3>1, <3>2 DEF MainLast
  <2>3. QED
    BY <2>1, <2>2
<1>4. QED
  BY <1>1, <1>2, <1>3

(* Calls whose timer has fired are waited for no longer.                    *)
LEMMA Disowned ==
  ASSUME NEW S, \A c \in S : "by" \in DOMAIN c /\ [c EXCEPT !.by = "stale"] \in S, NEW s \in Seq(S)
  PROVE  /\ NoMain(Disown(s)) /\ Disown(s) \in Seq(S)
         /\ Len(Disown(s)) = Len(s)
         /\ \A i \in 1..Len(s) : Disown(s)[i] = [s[i] EXCEPT !.by = "stale"]
<1>1. /\ Len(s) \in Nat /\ DOMAIN s = 1..Len(s)
      /\ Disown(s) = [i \in 1..Len(s) |-> [s[i] EXCEPT !.by = "stale"]]
      /\ \A i \in 1..Len(s) : s[i] \in S
  BY DEF Disown
<1>2. \A i \in 1..Len(s) : [s[i] EXCEPT !.by = "stale"] \in S
  BY <1>1
<1>3. Disown(s) \in Seq(S) /\ Len(Disown(s)) = Len(s)
  BY <1>1, <1>2
<1>4. \A i \in 1..Len(s) : Disown(s)[i] = [s[i] EXCEPT !.by = "stale"]
  BY <1>1
<1>5. \A i \in 1..Len(s) : Disown(s)[i].by = "stale"
  BY <1>1, <1>4
<1>6. QED
  BY <1>3, <1>4, <1>5 DEF NoMain

LEMMA CallsDisowned ==
  ASSUME AccountShapes
  PROVE  /\ NoMain(Disown(auth)) /\ Disown(auth) \in Seq(AccountCall)
         /\ NoMain(Disown(mgr)) /\ Disown(mgr) \in Seq(ManagerCall)
         /\ mgr = <<>> => Disown(mgr) = <<>>
         /\ NoLogins => \A i \in 1..Len(Disown(auth)) : Disown(auth)[i].kind # "login"
<1>1. auth \in Seq(AccountCall) /\ mgr \in Seq(ManagerCall)
  BY DEF AccountShapes
<1>2. /\ \A c \in AccountCall : /\ "by" \in DOMAIN c /\ [c EXCEPT !.by = "stale"] \in AccountCall
                                /\ [c EXCEPT !.by = "stale"].kind = c.kind
      /\ \A c \in ManagerCall : "by" \in DOMAIN c /\ [c EXCEPT !.by = "stale"] \in ManagerCall
  BY DEF AccountCall, ManagerCall
<1>3. /\ NoMain(Disown(auth)) /\ Disown(auth) \in Seq(AccountCall) /\ Len(Disown(auth)) = Len(auth)
      /\ \A i \in 1..Len(auth) : Disown(auth)[i] = [auth[i] EXCEPT !.by = "stale"]
  BY <1>1, <1>2, Disowned
<1>4. /\ NoMain(Disown(mgr)) /\ Disown(mgr) \in Seq(ManagerCall) /\ Len(Disown(mgr)) = Len(mgr)
  BY <1>1, <1>2, Disowned
<1>5. mgr = <<>> => Disown(mgr) = <<>>
  BY <1>1, <1>4, EmptySeq
<1>6. \A i \in 1..Len(auth) : auth[i] \in AccountCall
  BY <1>1
<1>7. NoLogins => \A i \in 1..Len(Disown(auth)) : Disown(auth)[i].kind # "login"
  <2>1. \A i \in 1..Len(auth) : Disown(auth)[i].kind = auth[i].kind
    BY <1>2, <1>3, <1>6
  <2>2. QED
    BY <1>3, <2>1 DEF NoLogins
<1>8. QED
  BY <1>3, <1>4, <1>5, <1>7

-----------------------------------------------------------------------------
(* A switch is asked for at rest: the manager's account is where it begins.  *)
LEMMA SwitchRequestAccounts ==
  ASSUME ControlInv, AccountsInv, NEW policy \in Policies, NEW target \in Accounts,
         NEW recent \in RecentSets, SwitchRequest(policy, target, recent)
  PROVE  AccountsInv'
<1>1. tx.step = "off" /\ UNCHANGED <<tx, accountVars>>
  BY DEF SwitchRequest, Barrier, managerVars, tableVars, givenUp, switchVars, accountVars
<1>2. req'.target = target /\ req'.previous = managerAccount /\ ReqShape(req')
  BY DEF SwitchRequest, NoRequest, ReqShape, AccountsInv, AccountShapes
<1>3. AccountShapes'
  BY <1>1, <1>2 DEF AccountsInv, AccountShapes, accountVars
<1>4. CallsInv' /\ ForwardInv'
  BY <1>1 DEF AccountsInv, CallsInv, ForwardInv, QuietCalls, accountVars
<1>5. TrustedInv'
  BY <1>1, <1>2 DEF AccountsInv, TrustedInv, RestTrust, ForwardTrust, UndoTrust, NoLogins, accountVars
<1>6. QED
  BY <1>3, <1>4, <1>5 DEF AccountsInv

(* The transaction begins where the accounts are.                           *)
LEMMA DrainPendingAccounts ==
  ASSUME AccountsInv, DrainPending
  PROVE  AccountsInv'
<1>1. UNCHANGED <<req, accountVars>>
  BY DEF DrainPending, childVars, managerVars, tableVars, observed, givenUp, accountVars
<1>2. CASE UNCHANGED <<pending, tx>>
  BY <1>1, <1>2, AccountsKept DEF RequestKeepsAccounts, AccountsInv, AccountShapes
<1>3. CASE pending /\ tx.step = "off" /\ pending' = FALSE /\ tx' = Enter(NoTx, "login", {})
  <2>1. TxShape(tx') /\ tx'.step = "login" /\ tx'.at = "next" /\ ~tx'.applied /\ ~tx'.attempted
    BY <1>3, EnterSteps, NoTxFields
  <2>2. AccountShapes'
    BY <1>1, <2>1 DEF AccountsInv, AccountShapes, accountVars
  <2>3. CallsInv' /\ ForwardInv'
    BY <1>1, <1>3, <2>1 DEF AccountsInv, CallsInv, ForwardInv, QuietCalls, accountVars
  <2>4. TrustedInv'
    BY <1>1, <1>3, <2>1 DEF AccountsInv, TrustedInv, RestTrust, ForwardTrust, UndoTrust, NoLogins,
       NoStaleLogins, ManagerStays, accountVars
  <2>5. QED
    BY <2>2, <2>3, <2>4 DEF AccountsInv
<1>4. QED
  BY <1>2, <1>3 DEF DrainPending

(* A call of the transaction is the only one of its queue to be waited for.  *)
LEMMA TxCallAccounts ==
  ASSUME AccountsInv, TxCall
  PROVE  AccountsInv'
<1>1. /\ UNCHANGED <<req, childAccount, managerAccount, shimAccount, uncertain, answer>>
      /\ tx.step # "off" /\ tx.at = "next"
  BY DEF TxCall, ChildStep, ManagerStep, tableVars, observed, givenUp
<1>2. /\ TxShape(tx') /\ tx'.step = tx.step /\ tx'.at = "await" /\ tx'.applied = tx.applied
      /\ tx'.attempted = (tx.attempted \/ tx.step = "activate")
  BY DEF TxCall, TxShape, AccountsInv, AccountShapes
<1>3. /\ NoMain(auth) /\ NoMain(mgr) /\ answer = "none"
      /\ auth \in Seq(AccountCall) /\ mgr \in Seq(ManagerCall)
  BY <1>1 DEF AccountsInv, AccountShapes, CallsInv, QuietCalls
<1>4. ASSUME NEW c \in AccountCall, auth' = Append(auth, c), UNCHANGED mgr, c.by = "main"
      PROVE  /\ auth' \in Seq(AccountCall) /\ ChildAsked(c)'
             /\ (NoLogins \/ NoStaleLogins) => NoStaleLogins'
             /\ NoLogins /\ c.kind # "login" => NoLogins'
  <2>1. MainLast(auth', c) /\ auth' \in Seq(AccountCall)
    BY <1>3, <1>4, MainAppended
  <2>2. /\ Len(auth') = Len(auth) + 1 /\ auth'[Len(auth) + 1] = c /\ Len(auth) \in Nat
        /\ \A i \in 1..Len(auth) : auth'[i] = auth[i]
        /\ \A i \in 1..Len(auth) + 1 : i \in 1..Len(auth) \/ i = Len(auth) + 1
    BY <1>3, <1>4
  <2>3. (NoLogins \/ NoStaleLogins) => NoStaleLogins'
    BY <1>4, <2>2 DEF NoLogins, NoStaleLogins
  <2>4. NoLogins /\ c.kind # "login" => NoLogins'
    BY <2>2 DEF NoLogins
  <2>5. ChildAsked(c)'
    BY <1>1, <1>3, <1>4, <2>1 DEF ChildAsked
  <2>6. QED
    BY <2>1, <2>3, <2>4, <2>5
<1>5. ASSUME NEW a \in Accounts, mgr' = Append(mgr, [account |-> a, by |-> "main"]), UNCHANGED auth
      PROVE  mgr' \in Seq(ManagerCall) /\ ManagerAsked(a)'
  <2>1. PICK c \in ManagerCall : c = [account |-> a, by |-> "main"]
    BY DEF ManagerCall
  <2>2. MainLast(mgr', c) /\ mgr' \in Seq(ManagerCall)
    BY <1>3, <1>5, <2>1, MainAppended
  <2>3. QED
    BY <1>1, <1>3, <1>5, <2>1, <2>2 DEF ManagerAsked
<1>6. InitAccount \in Accounts /\ req.target \in Accounts /\ req.previous \in Accounts
  BY SwitchBarrierAssumption DEF AccountsInv, AccountShapes, ReqShape
<1>7. \A kind \in {"login", "read"}, a \in Accounts :
        /\ AuthCall(kind, a) \in AccountCall /\ AuthCall(kind, a).by = "main"
        /\ AuthCall(kind, a).kind = kind
  BY DEF AuthCall, AccountCall
<1>8. CASE tx.step = "login" /\ ChildStep("login", req.target)
  <2>1. /\ auth' \in Seq(AccountCall) /\ ChildAsked(AuthCall("login", req.target))'
        /\ (NoLogins \/ NoStaleLogins) => NoStaleLogins'
        /\ UNCHANGED mgr
    <3>1. PICK c \in AccountCall : c = AuthCall("login", req.target) /\ c.by = "main"
      BY <1>6, <1>7
    <3>2. auth' = Append(auth, c) /\ UNCHANGED mgr
      BY <1>8, <3>1 DEF ChildStep
    <3>3. c = AuthCall("login", req'.target)
      BY <1>1, <3>1
    <3>4. QED
      BY <1>4, <3>1, <3>2, <3>3 DEF ChildAsked
  <2>2. AccountShapes' /\ CallsInv' /\ ForwardInv'
    BY <1>1, <1>2, <1>8, <2>1 DEF AccountsInv, AccountShapes, CallsInv, ForwardInv, AuthCall, ChildAsked
  <2>3. TrustedInv'
    BY <1>1, <1>2, <1>8, <2>1 DEF AccountsInv, TrustedInv, ForwardTrust, UndoTrust, ManagerStays
  <2>4. QED
    BY <2>2, <2>3 DEF AccountsInv
<1>9. CASE tx.step = "undoLogin" /\ ChildStep("login", req.previous)
  <2>1. /\ auth' \in Seq(AccountCall) /\ ChildAsked(AuthCall("login", req.previous))'
        /\ (NoLogins \/ NoStaleLogins) => NoStaleLogins'
        /\ UNCHANGED mgr
    <3>1. PICK c \in AccountCall : c = AuthCall("login", req.previous) /\ c.by = "main"
      BY <1>6, <1>7
    <3>2. auth' = Append(auth, c) /\ UNCHANGED mgr
      BY <1>9, <3>1 DEF ChildStep
    <3>3. c = AuthCall("login", req'.previous)
      BY <1>1, <3>1
    <3>4. QED
      BY <1>4, <3>1, <3>2, <3>3 DEF ChildAsked
  <2>2. AccountShapes' /\ CallsInv' /\ ForwardInv'
    BY <1>1, <1>2, <1>9, <2>1 DEF AccountsInv, AccountShapes, CallsInv, ForwardInv, AuthCall, ChildAsked
  <2>3. TrustedInv'
    BY <1>1, <1>2, <1>9, <2>1 DEF AccountsInv, TrustedInv, ForwardTrust, UndoTrust, ManagerStays
  <2>4. QED
    BY <2>2, <2>3 DEF AccountsInv
<1>10. CASE tx.step \in {"identity", "undoIdentity"} /\ ChildStep("read", InitAccount)
  <2>1. /\ auth' \in Seq(AccountCall) /\ ChildAsked(AuthCall("read", InitAccount))'
        /\ NoLogins => NoLogins'
        /\ UNCHANGED mgr
    BY <1>4, <1>6, <1>7, <1>10 DEF ChildStep
  <2>2. AccountShapes' /\ CallsInv' /\ ForwardInv'
    BY <1>1, <1>2, <1>10, <2>1 DEF AccountsInv, AccountShapes, CallsInv, ForwardInv, AuthCall, ChildAsked
  <2>3. TrustedInv'
    BY <1>1, <1>2, <1>10, <2>1 DEF AccountsInv, TrustedInv, ForwardTrust, UndoTrust, ManagerStays
  <2>4. QED
    BY <2>2, <2>3 DEF AccountsInv
<1>11. CASE tx.step = "activate" /\ ManagerStep(req.target)
  <2>1. mgr' \in Seq(ManagerCall) /\ ManagerAsked(req.target)' /\ UNCHANGED auth
    <3>1. PICK a \in Accounts : a = req.target /\ a = req'.target
      BY <1>1, <1>6
    <3>2. mgr' = Append(mgr, [account |-> a, by |-> "main"]) /\ UNCHANGED auth
      BY <1>11, <3>1 DEF ManagerStep
    <3>3. QED
      BY <1>5, <3>1, <3>2 DEF ManagerAsked
  <2>2. AccountShapes' /\ CallsInv' /\ ForwardInv'
    BY <1>1, <1>2, <1>11, <2>1 DEF AccountsInv, AccountShapes, CallsInv, ForwardInv, ManagerAsked, NoLogins
  <2>3. TrustedInv'
    BY <1>1, <1>2, <1>11, <2>1 DEF AccountsInv, TrustedInv, ForwardTrust, UndoTrust
  <2>4. QED
    BY <2>2, <2>3 DEF AccountsInv
<1>12. CASE tx.step = "undoActivate" /\ ManagerStep(req.previous)
  <2>1. mgr' \in Seq(ManagerCall) /\ ManagerAsked(req.previous)' /\ UNCHANGED auth
    <3>1. PICK a \in Accounts : a = req.previous /\ a = req'.previous
      BY <1>1, <1>6
    <3>2. mgr' = Append(mgr, [account |-> a, by |-> "main"]) /\ UNCHANGED auth
      BY <1>12, <3>1 DEF ManagerStep
    <3>3. QED
      BY <1>5, <3>1, <3>2 DEF ManagerAsked
  <2>2. AccountShapes' /\ CallsInv' /\ ForwardInv'
    BY <1>1, <1>2, <1>12, <2>1 DEF AccountsInv, AccountShapes, CallsInv, ForwardInv, ManagerAsked, NoLogins
  <2>3. TrustedInv'
    BY <1>1, <1>2, <1>12, <2>1 DEF AccountsInv, TrustedInv, ForwardTrust, UndoTrust, NoLogins
  <2>4. QED
    BY <2>2, <2>3 DEF AccountsInv
<1>13. QED
  BY <1>8, <1>9, <1>10, <1>11, <1>12 DEF TxCall

LEMMA TxNoCredentialsAccounts ==
  ASSUME AccountsInv, TxNoCredentials
  PROVE  AccountsInv'
<1>1. /\ UNCHANGED <<req, auth, mgr, childAccount, managerAccount, shimAccount, uncertain, pending>>
      /\ tx.step = "undoLogin" /\ tx.at = "next" /\ answer' = "bad"
  BY DEF TxNoCredentials, childVars, tableVars, observed, givenUp
<1>2. /\ TxShape(tx') /\ tx'.step = "undoLogin" /\ tx'.at = "await" /\ tx'.applied = tx.applied
      /\ tx'.attempted = tx.attempted
  BY DEF TxNoCredentials, TxShape, AccountsInv, AccountShapes
<1>3. NoMain(auth) /\ NoMain(mgr)
  BY <1>1 DEF AccountsInv, CallsInv, QuietCalls
<1>4. AccountShapes'
  BY <1>1, <1>2 DEF AccountsInv, AccountShapes
<1>5. CallsInv' /\ ForwardInv'
  BY <1>1, <1>2, <1>3 DEF CallsInv, ForwardInv, ChildAsked
<1>6. TrustedInv'
  BY <1>1, <1>2 DEF AccountsInv, TrustedInv, ForwardTrust, UndoTrust, NoStaleLogins, ManagerStays
<1>7. QED
  BY <1>4, <1>5, <1>6 DEF AccountsInv

(* A call of the transaction has settled, or its timer has fired.           *)
LEMMA AccountStepAccounts ==
  ASSUME AccountsInv, NEW ok \in BOOLEAN, AccountStepSettles(ok), tx.at = "await",
         QuietCalls', auth' \in Seq(AccountCall), mgr' \in Seq(ManagerCall),
         UNCHANGED <<req, childAccount, managerAccount>>,
         NoLogins => NoLogins', mgr = <<>> => mgr' = <<>>,
         ok => answer = "ok" /\ UNCHANGED <<auth, mgr>>,
         ~ok /\ tx.step = "login" => answer = "bad" /\ UNCHANGED auth
  PROVE  AccountsInv'
<1>1. TxShape(tx) /\ ReqShape(req) /\ managerAccount \in Accounts /\ uncertain \in BOOLEAN
  BY DEF AccountsInv, AccountShapes
<1>2. ASSUME NEW x, TxShape(x), x.attempted = tx.attempted
      PROVE  /\ TxShape(UndoAfterLogin(x)) /\ UndoAfterLogin(x).at = "next"
             /\ UndoAfterLogin(x).step = IF tx.attempted THEN "undoActivate" ELSE "undoResume"
             /\ UndoAfterLogin(x).attempted = tx.attempted
  BY <1>2, EnterSteps DEF UndoAfterLogin
<1>3. ASSUME TxShape(tx'), tx'.at = "next", tx'.step # "off", uncertain' \in BOOLEAN,
             ForwardInv', ~uncertain' => ForwardTrust' /\ UndoTrust'
      PROVE  AccountsInv'
  <2>1. AccountShapes'
    BY <1>1, <1>3 DEF AccountShapes, QuietCalls
  <2>2. CallsInv'
    BY <1>3 DEF CallsInv
  <2>3. QED
    BY <1>3, <2>1, <2>2 DEF AccountsInv, TrustedInv
<1>4. CASE ok /\ tx.step = "login"
  <2>1. /\ TxShape([tx EXCEPT !.applied = TRUE]) /\ [tx EXCEPT !.applied = TRUE].applied
        /\ [tx EXCEPT !.applied = TRUE].attempted = tx.attempted
    BY <1>1 DEF TxShape
  <2>2. tx' = Enter([tx EXCEPT !.applied = TRUE], "identity", {}) /\ UNCHANGED <<shimAccount, uncertain>>
    BY <1>4 DEF AccountStepSettles
  <2>3. /\ TxShape(tx') /\ tx'.step = "identity" /\ tx'.at = "next" /\ tx'.applied
        /\ tx'.attempted = tx.attempted
    <3>1. PICK x : x = [tx EXCEPT !.applied = TRUE]
      OBVIOUS
    <3>2. TxShape(x) /\ x.applied /\ x.attempted = tx.attempted
      BY <2>1, <3>1
    <3>3. tx' = Enter(x, "identity", {})
      BY <2>2, <3>1
    <3>4. /\ TxShape(Enter(x, "identity", {})) /\ Enter(x, "identity", {}).step = "identity"
          /\ Enter(x, "identity", {}).at = "next" /\ Enter(x, "identity", {}).applied
          /\ Enter(x, "identity", {}).attempted = tx.attempted
      BY <3>2, EnterSteps
    <3>5. QED
      BY <3>3, <3>4
  <2>4. auth = <<>> /\ childAccount = req.target
    BY <1>4 DEF AccountsInv, CallsInv, ChildAsked, MainLast, AuthCall
  <2>5. NoLogins'
    BY <1>4, <2>4 DEF NoLogins
  <2>6. ForwardInv'
    BY <1>4, <2>3, <2>4, <2>5 DEF AccountsInv, ForwardInv
  <2>7. ~uncertain' => ForwardTrust' /\ UndoTrust'
    BY <1>4, <2>2, <2>3 DEF AccountsInv, TrustedInv, ForwardTrust, UndoTrust, ManagerStays
  <2>8. QED
    BY <1>1, <1>3, <2>2, <2>3, <2>6, <2>7
<1>5. CASE ok /\ tx.step = "identity"
  <2>1. tx' = Enter(tx, "activate", {}) /\ UNCHANGED <<shimAccount, uncertain>>
    BY <1>5 DEF AccountStepSettles
  <2>2. /\ TxShape(tx') /\ tx'.step = "activate" /\ tx'.at = "next" /\ tx'.applied = tx.applied
        /\ tx'.attempted = tx.attempted
    BY <1>1, <2>1, EnterSteps
  <2>3. ForwardInv'
    BY <1>5, <2>2 DEF AccountsInv, ForwardInv
  <2>4. ~uncertain' => ForwardTrust' /\ UndoTrust'
    BY <1>5, <2>1, <2>2 DEF AccountsInv, TrustedInv, ForwardTrust, UndoTrust, ManagerStays
  <2>5. QED
    BY <1>1, <1>3, <2>1, <2>2, <2>3, <2>4
<1>6. CASE ok /\ tx.step = "activate"
  <2>1. /\ tx' = Enter(tx, "resume", req.paused \cup req.limited)
        /\ shimAccount' = req.target /\ UNCHANGED uncertain
    BY <1>6 DEF AccountStepSettles
  <2>2. /\ TxShape(tx') /\ tx'.step = "resume" /\ tx'.at = "next" /\ tx'.applied = tx.applied
        /\ tx'.attempted = tx.attempted
    BY <1>1, <2>1, EnterSteps
  <2>3. mgr = <<>> /\ managerAccount = req.target
    BY <1>6 DEF AccountsInv, CallsInv, ManagerAsked
  <2>4. ForwardInv'
    BY <1>6, <2>1, <2>2, <2>3 DEF AccountsInv, ForwardInv
  <2>5. ~uncertain' => ForwardTrust' /\ UndoTrust'
    BY <2>2 DEF ForwardTrust, UndoTrust
  <2>6. QED
    BY <1>1, <1>3, <2>1, <2>2, <2>4, <2>5
<1>7. CASE ok /\ tx.step = "undoLogin"
  <2>1. tx' = Enter(tx, "undoIdentity", {}) /\ UNCHANGED <<shimAccount, uncertain>>
    BY <1>7 DEF AccountStepSettles
  <2>2. /\ TxShape(tx') /\ tx'.step = "undoIdentity" /\ tx'.at = "next" /\ tx'.attempted = tx.attempted
    BY <1>1, <2>1, EnterSteps
  <2>3. auth = <<>> /\ childAccount = req.previous
    BY <1>7 DEF AccountsInv, CallsInv, ChildAsked, MainLast, AuthCall
  <2>4. NoLogins'
    BY <1>7, <2>3 DEF NoLogins
  <2>5. ForwardInv'
    BY <2>2 DEF ForwardInv
  <2>6. ~uncertain' => ForwardTrust' /\ UndoTrust'
    BY <1>7, <2>1, <2>2, <2>3, <2>4 DEF AccountsInv, TrustedInv, ForwardTrust, UndoTrust, ManagerStays
  <2>7. QED
    BY <1>1, <1>3, <2>1, <2>2, <2>5, <2>6
<1>8. CASE ok /\ tx.step = "undoIdentity"
  <2>1. tx' = UndoAfterLogin(tx) /\ shimAccount' = req.previous /\ UNCHANGED uncertain
    BY <1>8 DEF AccountStepSettles
  <2>2. ForwardInv'
    BY <1>1, <1>2, <2>1 DEF ForwardInv
  <2>3. ~uncertain' => ForwardTrust' /\ UndoTrust'
    BY <1>1, <1>2, <1>8, <2>1 DEF AccountsInv, TrustedInv, ForwardTrust, UndoTrust, ManagerStays
  <2>4. QED
    BY <1>1, <1>2, <1>3, <2>1, <2>2, <2>3
<1>9. CASE ok /\ tx.step = "undoActivate"
  <2>1. tx' = Enter(tx, "undoResume", req.paused) /\ UNCHANGED <<shimAccount, uncertain>>
    BY <1>9 DEF AccountStepSettles
  <2>2. TxShape(tx') /\ tx'.step = "undoResume" /\ tx'.at = "next"
    BY <1>1, <2>1, EnterSteps
  <2>3. mgr = <<>> /\ managerAccount = req.previous
    BY <1>9 DEF AccountsInv, CallsInv, ManagerAsked
  <2>4. ForwardInv'
    BY <2>2 DEF ForwardInv
  <2>5. ~uncertain' => ForwardTrust' /\ UndoTrust'
    BY <1>9, <2>1, <2>2, <2>3 DEF AccountsInv, TrustedInv, ForwardTrust, UndoTrust, ManagerStays
  <2>6. QED
    BY <1>1, <1>3, <2>1, <2>2, <2>4, <2>5
<1>10. CASE ~ok /\ tx.step \in {"login", "identity", "activate"}
  <2>1. tx' = UndoFrom(tx) /\ UNCHANGED <<shimAccount, uncertain>>
    BY <1>10 DEF AccountStepSettles
  <2>2. /\ TxShape(tx') /\ tx'.at = "next" /\ tx'.attempted = tx.attempted
        /\ tx'.step = IF tx.applied THEN "undoLogin"
                      ELSE IF tx.attempted THEN "undoActivate" ELSE "undoResume"
    BY <1>1, <1>2, <2>1, EnterSteps DEF UndoFrom
  <2>3. ForwardInv'
    BY <2>2 DEF ForwardInv
  <2>4. ~uncertain' => ForwardTrust' /\ UndoTrust'
    <3>1. CASE tx.step = "login"
      <4>1. /\ tx'.step = "undoResume"
            /\ NoMain(auth) /\ answer = "bad" /\ UNCHANGED auth
        BY <1>10, <2>2, <3>1 DEF AccountsInv, ForwardInv, CallsInv, ChildAsked
      <4>2. NoStaleLogins => NoLogins'
        BY <4>1 DEF NoStaleLogins, NoLogins, NoMain
      <4>3. QED
        BY <2>1, <3>1, <4>1, <4>2 DEF AccountsInv, TrustedInv, ForwardTrust, UndoTrust, ManagerStays
    <3>2. CASE tx.step \in {"identity", "activate"}
      <4>1. tx'.step = "undoLogin" /\ NoLogins'
        BY <2>2, <3>2 DEF AccountsInv, ForwardInv
      <4>2. NoStaleLogins'
        BY <4>1 DEF NoLogins, NoStaleLogins
      <4>3. tx.step = "activate" => tx.attempted
        BY DEF AccountsInv, ForwardInv
      <4>4. ~uncertain => tx.attempted \/ ManagerStays
        BY <3>2, <4>3 DEF AccountsInv, TrustedInv, ForwardTrust
      <4>5. QED
        BY <2>1, <2>2, <4>1, <4>2, <4>4 DEF ForwardTrust, UndoTrust, ManagerStays
    <3>3. QED
      BY <1>10, <3>1, <3>2
  <2>5. QED
    BY <1>1, <1>3, <2>1, <2>2, <2>3, <2>4
<1>11. CASE ~ok /\ tx.step \in {"undoLogin", "undoIdentity", "undoActivate"}
  <2>1. /\ tx' = IF tx.step = "undoActivate" THEN Enter(tx, "undoResume", req.paused)
                 ELSE UndoAfterLogin(tx)
        /\ uncertain' = TRUE
    BY <1>11 DEF AccountStepSettles
  <2>2. TxShape(tx') /\ tx'.at = "next" /\ tx'.step \in {"undoActivate", "undoResume"}
    BY <1>1, <1>2, <2>1, EnterSteps
  <2>3. ForwardInv'
    BY <2>2 DEF ForwardInv
  <2>4. QED
    BY <1>3, <2>1, <2>2, <2>3
<1>12. QED
  BY <1>4, <1>5, <1>6, <1>7, <1>8, <1>9, <1>10, <1>11 DEF AccountStepSettles

LEMMA ReadAccountAnswerAccounts ==
  ASSUME AccountsInv, ReadAccountAnswer
  PROVE  AccountsInv'
<1>1. /\ answer # "none" /\ answer' = "none"
      /\ UNCHANGED <<auth, mgr, req, childAccount, managerAccount, pending>>
  BY DEF ReadAccountAnswer, childVars
<1>2. tx.at = "await" /\ tx.step \notin {"off", "resume", "continue", "undoResume"}
  BY <1>1 DEF AccountsInv, AccountShapes, TxShape, CallsInv, QuietCalls
<1>3. NoMain(auth) /\ NoMain(mgr)
  BY <1>1, <1>2 DEF AccountsInv, AccountShapes, TxShape, CallsInv, ChildAsked, ManagerAsked, NoMain,
     ForwardSteps, UndoSteps
<1>4. QuietCalls' /\ auth' \in Seq(AccountCall) /\ mgr' \in Seq(ManagerCall)
  BY <1>1, <1>3 DEF QuietCalls, NoMain, AccountsInv, AccountShapes
<1>5. CASE AccountStepSettles(answer = "ok")
  <2>1. PICK ok \in BOOLEAN : ok <=> (answer = "ok")
    OBVIOUS
  <2>2. AccountStepSettles(ok) /\ (~ok => answer = "bad")
    BY <1>1, <1>5, <2>1 DEF AccountsInv, AccountShapes, AccountStepSettles
  <2>3. NoLogins => NoLogins'
    BY <1>1 DEF NoLogins
  <2>4. QED
    BY <1>1, <1>2, <1>4, <2>1, <2>2, <2>3, AccountStepAccounts
<1>6. CASE /\ answer = "bad" /\ tx.step \in {"identity", "undoIdentity"}
           /\ tx' = [tx EXCEPT !.at = "next"] /\ UNCHANGED <<uncertain, shimAccount>>
  <2>1. /\ TxShape(tx') /\ tx'.at = "next" /\ tx'.step = tx.step
        /\ tx'.applied = tx.applied /\ tx'.attempted = tx.attempted
    BY <1>6 DEF TxShape, AccountsInv, AccountShapes
  <2>2. AccountShapes' /\ CallsInv'
    BY <1>1, <1>4, <1>6, <2>1 DEF AccountsInv, AccountShapes, CallsInv
  <2>3. ForwardInv' /\ TrustedInv'
    BY <1>1, <1>6, <2>1 DEF AccountsInv, ForwardInv, TrustedInv, ForwardTrust, UndoTrust, NoLogins,
       ManagerStays
  <2>4. QED
    BY <2>2, <2>3 DEF AccountsInv
<1>7. QED
  BY <1>5, <1>6 DEF ReadAccountAnswer

(* A login whose timer fires may still be carried out; of any other call     *)
(* that is carried out late the accounts know.                              *)
LEMMA AccountStepTimerAccounts ==
  ASSUME AccountsInv, "login" \notin Timeouts, AccountStepTimer
  PROVE  AccountsInv'
<1>1. /\ tx.step \notin {"off", "login"} /\ tx.at = "await" /\ answer' = "none"
      /\ auth' = Disown(auth) /\ mgr' = Disown(mgr)
      /\ UNCHANGED <<req, childAccount, managerAccount>>
      /\ AccountStepSettles(FALSE)
  BY DEF AccountStepTimer, EventLoopFree
<1>2. /\ QuietCalls' /\ auth' \in Seq(AccountCall) /\ mgr' \in Seq(ManagerCall)
      /\ mgr = <<>> => mgr' = <<>>
      /\ NoLogins => NoLogins'
  BY <1>1, CallsDisowned DEF AccountsInv, QuietCalls, NoLogins, NoMain
<1>3. QED
  BY <1>1, <1>2, AccountStepAccounts

-----------------------------------------------------------------------------
(* The transaction ends: where it ends the accounts are together.           *)
LEMMA TransactionEndsAccounts ==
  ASSUME ControlInv, AccountsInv, tx' = NoTx,
         \/ tx.step = "continue" /\ uncertain' = FALSE
         \/ tx.step = "undoResume" /\ uncertain' = uncertain,
         UNCHANGED <<req, pending, auth, mgr, answer, childAccount, managerAccount, shimAccount>>
  PROVE  AccountsInv'
<1>1. TxShape(tx') /\ tx'.step = "off"
  BY NoTxFields
<1>2. ~pending
  BY DEF ControlInv, SwitchingPhase
<1>3. AccountShapes'
  BY <1>1 DEF AccountsInv, AccountShapes
<1>4. CallsInv' /\ ForwardInv'
  BY <1>1, NoTxFields DEF AccountsInv, CallsInv, QuietCalls, ForwardInv, NoTx
<1>5. TrustedInv'
  <2>1. ~uncertain' => RestTrust'
    BY <1>2 DEF AccountsInv, ForwardInv, TrustedInv, UndoTrust, RestTrust, ManagerStays, NoLogins
  <2>2. ForwardTrust' /\ UndoTrust'
    BY <1>1 DEF ForwardTrust, UndoTrust
  <2>3. QED
    BY <2>1, <2>2 DEF TrustedInv
<1>6. QED
  BY <1>3, <1>4, <1>5 DEF AccountsInv

(* A call about a thread has settled: the Goals and turns that are resumed   *)
(* leave the accounts alone, and a Goal that cannot be sends them back.     *)
LEMMA ThreadStepAccounts ==
  ASSUME ControlInv, AccountsInv, NEW val, NEW n, ThreadStepSettles(val, n),
         UNCHANGED <<pending, accountVars>>
  PROVE  AccountsInv'
<1>1. RequestKeepsAccounts
  BY DEF ThreadStepSettles, RequestKeepsAccounts, AccountsInv, AccountShapes, ReqShape
<1>2. TxShape(tx) /\ UNCHANGED <<auth, mgr, answer, childAccount, managerAccount, shimAccount, uncertain>>
  BY DEF AccountsInv, AccountShapes, accountVars
<1>3. CASE tx.step \in {"resume", "undoResume", "continue"} /\ tx' = [tx EXCEPT !.at = "next"]
  <2>1. /\ TxShape(tx') /\ tx'.step = tx.step /\ tx'.at = "next" /\ tx'.applied = tx.applied
        /\ tx'.attempted = tx.attempted
    BY <1>2, <1>3 DEF TxShape
  <2>2. AccountShapes' /\ CallsInv'
    BY <1>1, <1>2, <1>3, <2>1 DEF AccountsInv, AccountShapes, CallsInv, QuietCalls, RequestKeepsAccounts
  <2>3. ForwardInv' /\ TrustedInv'
    BY <1>1, <1>2, <1>3, <2>1 DEF AccountsInv, ForwardInv, TrustedInv, ForwardTrust, UndoTrust,
       NoLogins, ManagerStays, RequestKeepsAccounts
  <2>4. QED
    BY <2>2, <2>3 DEF AccountsInv
<1>4. CASE tx.step = "resume" /\ tx' = UndoFrom(tx) /\ UNCHANGED req
  <2>1. tx.applied /\ tx.attempted /\ NoLogins
    BY <1>4 DEF AccountsInv, ForwardInv
  <2>2. tx' = Enter(tx, "undoLogin", {})
    BY <1>4, <2>1 DEF UndoFrom
  <2>3. TxShape(tx') /\ tx'.step = "undoLogin" /\ tx'.at = "next" /\ tx'.attempted
    BY <1>2, <2>1, <2>2, EnterSteps
  <2>4. AccountShapes' /\ CallsInv'
    BY <1>2, <1>4, <2>3 DEF AccountsInv, AccountShapes, CallsInv, QuietCalls
  <2>5. ForwardInv' /\ TrustedInv'
    BY <1>2, <2>1, <2>3 DEF ForwardInv, TrustedInv, ForwardTrust, UndoTrust, NoLogins, NoStaleLogins
  <2>6. QED
    BY <2>4, <2>5 DEF AccountsInv
<1>5. CASE tx.step = "undoResume" /\ tx' = NoTx /\ UNCHANGED req
  BY <1>2, <1>5, TransactionEndsAccounts
<1>6. QED
  BY <1>3, <1>4, <1>5 DEF ThreadStepSettles

LEMMA TxNextThreadAccounts ==
  ASSUME ControlInv, AccountsInv, TxNextThread
  PROVE  AccountsInv'
<1>1. /\ tx.step \in {"resume", "undoResume", "continue"}
      /\ UNCHANGED <<req, pending, auth, mgr, answer, childAccount, managerAccount, shimAccount>>
  BY DEF TxNextThread, ThreadStepKind, managerVars, tableVars
<1>2. TxShape(tx)
  BY DEF AccountsInv, AccountShapes
<1>3. ASSUME NEW t, tx' = [tx EXCEPT !.at = "await", !.t = t, !.todo = @ \ {t}], UNCHANGED uncertain
      PROVE  AccountsInv'
  <2>1. /\ TxShape(tx') /\ tx'.step = tx.step /\ tx'.at = "await" /\ tx'.applied = tx.applied
        /\ tx'.attempted = tx.attempted
    BY <1>2, <1>3 DEF TxShape
  <2>2. AccountShapes' /\ CallsInv'
    BY <1>1, <1>3, <2>1 DEF AccountsInv, AccountShapes, CallsInv, QuietCalls
  <2>3. ForwardInv' /\ TrustedInv'
    BY <1>1, <1>3, <2>1 DEF AccountsInv, ForwardInv, TrustedInv, ForwardTrust, UndoTrust,
       NoLogins, ManagerStays
  <2>4. QED
    BY <2>2, <2>3 DEF AccountsInv
<1>4. CASE tx.step = "resume" /\ tx' = Enter(tx, "continue", req.recovery) /\ UNCHANGED uncertain
  <2>1. /\ TxShape(tx') /\ tx'.step = "continue" /\ tx'.at = "next" /\ tx'.applied = tx.applied
        /\ tx'.attempted = tx.attempted
    BY <1>2, <1>4, EnterSteps
  <2>2. AccountShapes' /\ CallsInv'
    BY <1>1, <1>4, <2>1 DEF AccountsInv, AccountShapes, CallsInv, QuietCalls
  <2>3. ForwardInv' /\ TrustedInv'
    BY <1>1, <1>4, <2>1 DEF AccountsInv, ForwardInv, TrustedInv, ForwardTrust, UndoTrust, NoLogins
  <2>4. QED
    BY <2>2, <2>3 DEF AccountsInv
<1>5. CASE tx.step # "resume" /\ tx' = NoTx /\ uncertain' = (uncertain /\ tx.step # "continue")
  <2>1. uncertain \in BOOLEAN
    BY DEF AccountsInv, AccountShapes
  <2>2. \/ tx.step = "continue" /\ uncertain' = FALSE
        \/ tx.step = "undoResume" /\ uncertain' = uncertain
    BY <1>1, <1>5, <2>1
  <2>3. QED
    BY <1>1, <1>5, <2>2, TransactionEndsAccounts
<1>6. QED
  BY <1>3, <1>4, <1>5 DEF TxNextThread

-----------------------------------------------------------------------------
(* The child carries out the oldest account call.                           *)
LEMMA ChildAccountCallAccounts ==
  ASSUME AccountsInv, ChildAccountCall
  PROVE  AccountsInv'
<1>1. /\ auth # <<>> /\ auth' = Tail(auth)
      /\ UNCHANGED <<mgr, managerAccount, shimAccount, req, pending, tx, uncertain>>
  BY DEF ChildAccountCall, tableVars, switchVars, observed, givenUp
<1>2. AccountShapes /\ auth \in Seq(AccountCall)
  BY DEF AccountsInv, AccountShapes
<1>3. PICK c : c = Head(auth)
  OBVIOUS
<1>4. /\ c \in AccountCall /\ auth' \in Seq(AccountCall)
      /\ NoMain(auth) => c.by = "stale" /\ NoMain(auth')
      /\ \A i \in 1..Len(auth') : i + 1 \in 1..Len(auth) /\ auth'[i] = auth[i + 1]
      /\ \A m \in AccountCall : MainLast(auth, m) /\ m.by = "main" =>
           \/ c = m /\ auth' = <<>>
           \/ c.by = "stale" /\ MainLast(auth', m)
  BY <1>1, <1>2, <1>3, CallTaken
<1>5. /\ 1 \in 1..Len(auth) /\ auth[1] = c
  BY <1>1, <1>2, <1>3
<1>6. /\ NoLogins => NoLogins' /\ c.kind # "login"
      /\ NoStaleLogins => NoStaleLogins' /\ (c.kind = "login" => c.by = "main")
  BY <1>4, <1>5 DEF NoLogins, NoStaleLogins
<1>7. PICK done \in BOOLEAN :
        /\ childAccount' = IF c.kind = "login" /\ done THEN c.account ELSE childAccount
        /\ answer' = IF c.by = "stale" THEN answer
                     ELSE IF c.kind = "login" THEN IF done THEN "ok" ELSE "bad"
                     ELSE IF done /\ childAccount =
                               (IF tx.step = "identity" THEN req.target ELSE req.previous)
                     THEN "ok" ELSE "bad"
  BY <1>3 DEF ChildAccountCall
<1>8. AccountShapes'
  BY <1>1, <1>2, <1>4, <1>7 DEF AccountShapes
<1>9. NoMain(auth) => NoMain(auth') /\ answer' = answer
  BY <1>4, <1>7
<1>10. ASSUME NEW m \in AccountCall, m.by = "main", ChildAsked(m) PROVE ChildAsked(m)'
  <2>1. NoMain(mgr)'
    BY <1>1, <1>10 DEF ChildAsked
  <2>2. auth' = <<>> => NoMain(auth')
    BY DEF NoMain
  <2>3. CASE MainLast(auth, m) /\ answer = "none"
    <3>1. CASE c = m /\ auth' = <<>>
      BY <1>7, <1>10, <2>1, <2>2, <3>1 DEF ChildAsked
    <3>2. CASE c.by = "stale" /\ MainLast(auth', m)
      BY <1>7, <2>1, <2>3, <3>2 DEF ChildAsked
    <3>3. QED
      BY <1>4, <1>10, <2>3, <3>1, <3>2
  <2>4. CASE NoMain(auth) /\ answer = "bad"
    BY <1>9, <2>1, <2>4 DEF ChildAsked
  <2>5. QED
    BY <1>1, <1>10, <2>3, <2>4 DEF ChildAsked
<1>11. ASSUME NEW a, ManagerAsked(a) PROVE ManagerAsked(a)'
  BY <1>1, <1>9, <1>11 DEF ManagerAsked
<1>12. QuietCalls => QuietCalls'
  BY <1>1, <1>9 DEF QuietCalls
<1>13. CallsInv'
  <2>1. PICK target, previous : target = req.target /\ previous = req.previous
    OBVIOUS
  <2>2. target \in Accounts /\ previous \in Accounts /\ InitAccount \in Accounts
    BY <1>2, <2>1, SwitchBarrierAssumption DEF AccountShapes, ReqShape
  <2>3. \A kind \in {"login", "read"}, a \in Accounts :
          AuthCall(kind, a) \in AccountCall /\ AuthCall(kind, a).by = "main"
    BY DEF AuthCall, AccountCall
  <2>4. \A kind \in {"login", "read"}, a \in Accounts :
          ChildAsked(AuthCall(kind, a)) => ChildAsked(AuthCall(kind, a))'
    <3>1. SUFFICES ASSUME NEW kind \in {"login", "read"}, NEW a \in Accounts,
                          ChildAsked(AuthCall(kind, a))
                   PROVE  ChildAsked(AuthCall(kind, a))'
      OBVIOUS
    <3>2. PICK m \in AccountCall : m = AuthCall(kind, a) /\ m.by = "main"
      BY <2>3
    <3>3. ChildAsked(m)
      BY <3>1, <3>2
    <3>4. ChildAsked(m)'
      BY <1>10, <3>2, <3>3
    <3>5. QED
      BY <3>2, <3>4 DEF ChildAsked
  <2>5. tx' = tx /\ req' = req /\ req'.target = target /\ req'.previous = previous
    BY <1>1, <2>1
  <2>6. CallsInv
    BY DEF AccountsInv
  <2>7. /\ tx.step \in {"off", "resume", "continue", "undoResume"} \/ tx.at = "next" => QuietCalls'
    BY <1>12, <2>6 DEF CallsInv
  <2>8. tx.at = "await" /\ tx.step = "login" => ChildAsked(AuthCall("login", target))'
    BY <2>1, <2>2, <2>4, <2>6 DEF CallsInv
  <2>9. tx.at = "await" /\ tx.step = "undoLogin" => ChildAsked(AuthCall("login", previous))'
    BY <2>1, <2>2, <2>4, <2>6 DEF CallsInv
  <2>10. tx.at = "await" /\ tx.step \in {"identity", "undoIdentity"} =>
           ChildAsked(AuthCall("read", InitAccount))'
    BY <2>2, <2>4, <2>6 DEF CallsInv
  <2>11. tx.at = "await" /\ tx.step = "activate" => ManagerAsked(target)'
    BY <1>11, <2>1, <2>6 DEF CallsInv
  <2>12. tx.at = "await" /\ tx.step = "undoActivate" => ManagerAsked(previous)'
    BY <1>11, <2>1, <2>6 DEF CallsInv
  <2>13. QED
    BY <2>5, <2>7, <2>8, <2>9, <2>10, <2>11, <2>12 DEF CallsInv, ChildAsked, ManagerAsked
<1>14. ForwardInv'
  BY <1>1, <1>6, <1>7 DEF AccountsInv, ForwardInv
<1>15. TrustedInv'
  <2>1. SUFFICES ASSUME ~uncertain PROVE (tx.step = "off" => RestTrust') /\ ForwardTrust' /\ UndoTrust'
    BY <1>1 DEF TrustedInv
  <2>2. (tx.step = "off" => RestTrust) /\ ForwardTrust /\ UndoTrust
    BY <2>1 DEF AccountsInv, TrustedInv
  <2>3. tx.step = "off" => RestTrust'
    BY <1>1, <1>6, <1>7, <2>2 DEF RestTrust
  <2>4. tx.step = "login" /\ answer' # "ok" => childAccount' = req.previous
    <3>1. CASE tx.step = "login" /\ c.kind = "login" /\ answer' # "ok"
      <4>1. c.by = "main" /\ ~done
        BY <1>6, <1>7, <2>2, <3>1 DEF ForwardTrust
      <4>2. answer # "ok"
        BY <1>1, <1>4, <3>1, <4>1 DEF AccountsInv, AccountShapes, TxShape, CallsInv, QuietCalls, ChildAsked
      <4>3. QED
        BY <1>7, <2>2, <3>1, <4>1, <4>2 DEF ForwardTrust
    <3>2. CASE tx.step = "login" /\ c.kind # "login" /\ answer' # "ok"
      <4>1. answer # "ok"
        BY <1>1, <1>7, <3>2 DEF AccountsInv, AccountShapes, TxShape, CallsInv, QuietCalls, ChildAsked
      <4>2. QED
        BY <1>7, <2>2, <3>2, <4>1 DEF ForwardTrust
    <3>3. QED
      BY <3>1, <3>2
  <2>5. ForwardTrust'
    BY <1>1, <1>6, <2>2, <2>4 DEF ForwardTrust, ManagerStays
  <2>6. UndoTrust'
    BY <1>1, <1>6, <1>7, <2>2 DEF UndoTrust, ManagerStays
  <2>7. QED
    BY <2>3, <2>5, <2>6
<1>16. QED
  BY <1>8, <1>13, <1>14, <1>15 DEF AccountsInv

(* The manager carries out the oldest activation.                           *)
LEMMA ManagerActivateAccounts ==
  ASSUME AccountsInv, ManagerActivate
  PROVE  AccountsInv'
<1>1. /\ mgr # <<>> /\ mgr' = Tail(mgr)
      /\ UNCHANGED <<auth, childAccount, shimAccount, req, pending, tx, uncertain>>
  BY DEF ManagerActivate, childVars, tableVars, switchVars, observed, givenUp
<1>2. AccountShapes /\ mgr \in Seq(ManagerCall)
  BY DEF AccountsInv, AccountShapes
<1>3. PICK c : c = Head(mgr)
  OBVIOUS
<1>4. /\ c \in ManagerCall /\ mgr' \in Seq(ManagerCall)
      /\ NoMain(mgr) => c.by = "stale" /\ NoMain(mgr')
      /\ \A m \in ManagerCall : MainLast(mgr, m) /\ m.by = "main" =>
           \/ c = m /\ mgr' = <<>>
           \/ c.by = "stale" /\ MainLast(mgr', m)
  BY <1>1, <1>2, <1>3, CallTaken
<1>5. PICK done \in BOOLEAN, ok \in BOOLEAN :
        /\ ok => done
        /\ managerAccount' = IF done THEN c.account ELSE managerAccount
        /\ answer' = IF c.by = "stale" THEN answer ELSE IF ok THEN "ok" ELSE "bad"
  BY <1>3 DEF ManagerActivate
<1>6. AccountShapes'
  BY <1>1, <1>2, <1>4, <1>5 DEF AccountShapes, ManagerCall
<1>7. NoMain(mgr) => NoMain(mgr') /\ answer' = answer
  BY <1>4, <1>5
<1>8. ASSUME NEW m, ChildAsked(m) PROVE ChildAsked(m)'
  BY <1>1, <1>7, <1>8 DEF ChildAsked
<1>9. ASSUME NEW a \in Accounts, ManagerAsked(a) PROVE ManagerAsked(a)'
  <2>1. NoMain(auth)'
    BY <1>1, <1>9 DEF ManagerAsked
  <2>2. mgr' = <<>> => NoMain(mgr')
    BY DEF NoMain
  <2>3. PICK m \in ManagerCall : m = [account |-> a, by |-> "main"] /\ m.by = "main" /\ m.account = a
    <3>1. [account |-> a, by |-> "main"] \in ManagerCall
      BY DEF ManagerCall
    <3>2. QED
      BY <3>1, Zenon
  <2>4. CASE MainLast(mgr, m) /\ answer = "none"
    <3>1. CASE c = m /\ mgr' = <<>>
      BY <1>5, <2>1, <2>2, <2>3, <3>1 DEF ManagerAsked
    <3>2. CASE c.by = "stale" /\ MainLast(mgr', m)
      BY <1>5, <2>1, <2>3, <2>4, <3>2 DEF ManagerAsked
    <3>3. QED
      BY <1>4, <2>3, <2>4, <3>1, <3>2
  <2>5. CASE NoMain(mgr) /\ answer = "bad"
    BY <1>7, <2>1, <2>5 DEF ManagerAsked
  <2>6. QED
    BY <1>1, <1>9, <2>3, <2>4, <2>5 DEF ManagerAsked
<1>10. QuietCalls => QuietCalls'
  BY <1>1, <1>7 DEF QuietCalls
<1>11. CallsInv'
  <2>1. PICK target, previous : target = req.target /\ previous = req.previous
    OBVIOUS
  <2>2. target \in Accounts /\ previous \in Accounts
    BY <1>2, <2>1 DEF AccountShapes, ReqShape
  <2>3. tx' = tx /\ req' = req /\ req'.target = target /\ req'.previous = previous
    BY <1>1, <2>1
  <2>4. CallsInv
    BY DEF AccountsInv
  <2>5. /\ tx.step \in {"off", "resume", "continue", "undoResume"} \/ tx.at = "next" => QuietCalls'
    BY <1>10, <2>4 DEF CallsInv
  <2>6. tx.at = "await" /\ tx.step = "login" => ChildAsked(AuthCall("login", target))'
    <3>1. PICK m : m = AuthCall("login", target)
      OBVIOUS
    <3>2. tx.at = "await" /\ tx.step = "login" => ChildAsked(m)'
      BY <1>8, <2>1, <2>4, <3>1 DEF CallsInv
    <3>3. QED
      BY <3>1, <3>2 DEF ChildAsked
  <2>7. tx.at = "await" /\ tx.step = "undoLogin" => ChildAsked(AuthCall("login", previous))'
    <3>1. PICK m : m = AuthCall("login", previous)
      OBVIOUS
    <3>2. tx.at = "await" /\ tx.step = "undoLogin" => ChildAsked(m)'
      BY <1>8, <2>1, <2>4, <3>1 DEF CallsInv
    <3>3. QED
      BY <3>1, <3>2 DEF ChildAsked
  <2>8. tx.at = "await" /\ tx.step \in {"identity", "undoIdentity"} =>
          ChildAsked(AuthCall("read", InitAccount))'
    <3>1. PICK m : m = AuthCall("read", InitAccount)
      OBVIOUS
    <3>2. tx.at = "await" /\ tx.step \in {"identity", "undoIdentity"} => ChildAsked(m)'
      BY <1>8, <2>4, <3>1 DEF CallsInv
    <3>3. QED
      BY <3>1, <3>2 DEF ChildAsked
  <2>9. tx.at = "await" /\ tx.step = "activate" => ManagerAsked(target)'
    BY <1>9, <2>1, <2>2, <2>4 DEF CallsInv
  <2>10. tx.at = "await" /\ tx.step = "undoActivate" => ManagerAsked(previous)'
    BY <1>9, <2>1, <2>2, <2>4 DEF CallsInv
  <2>11. QED
    BY <2>3, <2>5, <2>6, <2>7, <2>8, <2>9, <2>10 DEF CallsInv, ChildAsked, ManagerAsked
<1>12. ForwardInv'
  BY <1>1 DEF AccountsInv, ForwardInv, NoLogins
<1>13. TrustedInv'
  <2>1. SUFFICES ASSUME ~uncertain PROVE (tx.step = "off" => RestTrust') /\ ForwardTrust' /\ UndoTrust'
    BY <1>1 DEF TrustedInv
  <2>2. (tx.step = "off" => RestTrust) /\ ForwardTrust /\ UndoTrust
    BY <2>1 DEF AccountsInv, TrustedInv
  <2>3. tx.step # "off" /\ tx.step \notin {"login", "identity", "undoResume"}
    BY <1>1, <2>2 DEF RestTrust, ForwardTrust, UndoTrust, ManagerStays
  <2>4. ~(tx.step = "activate" /\ tx.at = "next")
    BY <1>1, <2>2 DEF ForwardTrust, ManagerStays
  <2>5. ForwardTrust'
    BY <1>1, <2>2, <2>3, <2>4 DEF ForwardTrust
  <2>6. UndoTrust'
    BY <1>1, <2>2, <2>3 DEF UndoTrust, ManagerStays, NoLogins, NoStaleLogins
  <2>7. QED
    BY <2>3, <2>5, <2>6
<1>14. QED
  BY <1>6, <1>11, <1>12, <1>13 DEF AccountsInv

-----------------------------------------------------------------------------
(* A switch whose outcome is open is the last one, and something is left to  *)
(* decide it.                                                               *)
OpenState(o) == opState[o] \in {"pending", "switching"}
OpenInv == \A o \in Ops : OpenState(o) => o = op /\ (pending \/ recQ # <<>> \/ tx.step # "off")

CutoverInv == ControlInv /\ AccountsInv /\ OpenInv

(* A step that neither moves an account nor decides the switch.             *)
QuietStep ==
  /\ RequestKeepsAccounts /\ UNCHANGED <<tx, accountVars, op, opState>>
  /\ pending' => pending
  /\ pending => pending' \/ recQ' # <<>>
  /\ recQ # <<>> => recQ' # <<>>

LEMMA QuietAccounts ==
  ASSUME CutoverInv, QuietStep
  PROVE  AccountsInv' /\ OpenInv'
<1>1. AccountsInv'
  BY AccountsKept DEF CutoverInv, QuietStep
<1>2. OpenInv'
  BY DEF CutoverInv, OpenInv, OpenState, QuietStep
<1>3. QED
  BY <1>1, <1>2

(* Where nothing of the switch but its request changes.                     *)
LEMMA NothingDecided ==
  ASSUME RequestKeepsAccounts, UNCHANGED <<tx, accountVars, op, opState, pending, recQ>>
  PROVE  QuietStep
BY DEF QuietStep

LEMMA SameRequest ==
  ASSUME CutoverInv, req' = req
  PROVE  RequestKeepsAccounts
BY DEF RequestKeepsAccounts, CutoverInv, AccountsInv, AccountShapes

LEMMA RecoveryQueued ==
  ASSUME CutoverInv, NEW c
  PROVE  Append(recQ, c) # <<>>
<1>1. Len(Append(recQ, c)) = Len(recQ) + 1 /\ Len(recQ) \in Nat
  BY DEF CutoverInv, ControlInv, Shapes
<1>2. Len(<<>>) = 0
  OBVIOUS
<1>3. Len(Append(recQ, c)) # 0
  BY <1>1
<1>4. QED
  BY <1>2, <1>3, Zenon

(* prepareGoalsForSwitch                                                    *)
LEMMA PrepareNextQuiet ==
  ASSUME CutoverInv, PrepareNext
  PROVE  QuietStep
<1>1. ReqShape(req)
  BY DEF CutoverInv, AccountsInv, AccountShapes
<1>2. RequestKeepsAccounts
  BY <1>1 DEF PrepareNext, EndPrepare, RequestKeepsAccounts, ReqShape
<1>3. UNCHANGED <<tx, accountVars, op, opState, pending, recQ>>
  BY DEF PrepareNext, managerVars, tableVars, observed, givenUp, accountVars
<1>4. QED
  BY <1>2, <1>3, NothingDecided

LEMMA PrepareFailsQuiet ==
  ASSUME CutoverInv, PrepareFails, UNCHANGED <<tx, accountVars, op, opState>>
  PROVE  QuietStep
<1>1. RequestKeepsAccounts
  BY DEF PrepareFails, RequestKeepsAccounts, CutoverInv, AccountsInv, AccountShapes, ReqShape
<1>2. recQ' # <<>> /\ ~pending'
  BY RecoveryQueued DEF PrepareFails
<1>3. QED
  BY <1>1, <1>2 DEF QuietStep

LEMMA PrepareReplyQuiet ==
  ASSUME CutoverInv, NEW val, PrepareReply(val), UNCHANGED <<tx, accountVars, op, opState>>
  PROVE  QuietStep
<1>1. ReqShape(req)
  BY DEF CutoverInv, AccountsInv, AccountShapes
<1>2. ASSUME NEW t PROVE
        /\ ReqShape(GoalPaused(req, t)) /\ GoalPaused(req, t).target = req.target
        /\ GoalPaused(req, t).previous = req.previous
        /\ ReqShape(ThreadGone(req, t)) /\ ThreadGone(req, t).target = req.target
        /\ ThreadGone(req, t).previous = req.previous
        /\ ReqShape(NoActiveGoal(req, t, val)) /\ NoActiveGoal(req, t, val).target = req.target
        /\ NoActiveGoal(req, t, val).previous = req.previous
  BY <1>1 DEF ReqShape, GoalPaused, ThreadGone, NoActiveGoal
<1>3. CASE PrepareFails
  BY <1>3, PrepareFailsQuiet
<1>4. CASE PrepareMissing(prep.t)
  <2>1. RequestKeepsAccounts /\ UNCHANGED <<pending, recQ>>
    BY <1>2, <1>4 DEF PrepareMissing, RequestKeepsAccounts
  <2>2. QED
    BY <2>1, NothingDecided
<1>5. CASE PrepareAsksPause(prep.t)
  <2>1. RequestKeepsAccounts /\ UNCHANGED <<pending, recQ>>
    BY <1>5, SameRequest DEF PrepareAsksPause
  <2>2. QED
    BY <2>1, NothingDecided
<1>6. CASE PrepareContinues(IF req.canceled THEN req ELSE NoActiveGoal(req, prep.t, val))
  <2>1. RequestKeepsAccounts
    BY <1>1, <1>2, <1>6 DEF PrepareContinues, RequestKeepsAccounts
  <2>2. UNCHANGED <<pending, recQ>>
    BY <1>6 DEF PrepareContinues
  <2>3. QED
    BY <2>1, <2>2, NothingDecided
<1>7. CASE PreparePaused(prep.t)
  <2>1. RequestKeepsAccounts /\ UNCHANGED pending
    BY <1>2, <1>7 DEF PreparePaused, RequestKeepsAccounts
  <2>2. recQ # <<>> => recQ' # <<>>
    BY <1>7, RecoveryQueued DEF PreparePaused
  <2>3. QED
    BY <2>1, <2>2 DEF QuietStep
<1>8. QED
  BY <1>3, <1>4, <1>5, <1>6, <1>7 DEF PrepareReply

LEMMA DeferQuiet ==
  ASSUME CutoverInv, Defer, RequestKeepsAccounts, UNCHANGED <<tx, accountVars, op, opState>>
  PROVE  QuietStep
<1>1. recQ' # <<>> /\ ~pending'
  BY RecoveryQueued DEF Defer
<1>2. QED
  BY <1>1 DEF QuietStep

LEMMA GraceExpiredQuiet ==
  ASSUME CutoverInv, GraceExpired
  PROVE  QuietStep
<1>1. ReqShape(req)
  BY DEF CutoverInv, AccountsInv, AccountShapes
<1>2. UNCHANGED <<tx, accountVars, op, opState>>
  BY DEF GraceExpired, managerVars, tableVars, observed, givenUp, accountVars
<1>3. RequestKeepsAccounts
  BY <1>1 DEF GraceExpired, RequestKeepsAccounts, ReqShape
<1>4. CASE UNCHANGED <<pending, recQ>>
  BY <1>2, <1>3, <1>4, NothingDecided
<1>5. CASE Defer
  BY <1>2, <1>3, <1>5, DeferQuiet
<1>6. QED
  BY <1>4, <1>5 DEF GraceExpired

LEMMA InterruptDoneQuiet ==
  ASSUME CutoverInv, NEW t, NEW r, ReqShape(r), r.target = req.target, r.previous = req.previous,
         InterruptDone(t, r), UNCHANGED <<tx, accountVars, op, opState>>
  PROVE  QuietStep
<1>1. RequestKeepsAccounts
  BY DEF InterruptDone, RequestKeepsAccounts, ReqShape
<1>2. CASE UNCHANGED <<pending, recQ>>
  BY <1>1, <1>2, NothingDecided
<1>3. CASE Defer
  BY <1>1, <1>3, DeferQuiet
<1>4. QED
  BY <1>2, <1>3 DEF InterruptDone

LEMMA InterruptReplyQuiet ==
  ASSUME CutoverInv, NEW t, NEW by, NEW val, NEW n, InterruptReply(t, by, val, n),
         UNCHANGED <<tx, accountVars, op, opState>>
  PROVE  QuietStep
<1> DEFINE unheard == [req EXCEPT !.interrupted = [@ EXCEPT ![t] = 0]]
           failed == [unheard EXCEPT !.intFailed = TRUE]
           replaced == [req EXCEPT !.interrupted = [@ EXCEPT ![t] = n]]
<1>1. ReqShape(req)
  BY DEF CutoverInv, AccountsInv, AccountShapes
<1>2. /\ ReqShape(unheard) /\ unheard.target = req.target /\ unheard.previous = req.previous
      /\ ReqShape(failed) /\ failed.target = req.target /\ failed.previous = req.previous
      /\ ReqShape(replaced) /\ replaced.target = req.target /\ replaced.previous = req.previous
  BY <1>1 DEF ReqShape
<1>3. CASE InterruptDone(t, req) \/ InterruptDone(t, unheard) \/ InterruptDone(t, failed)
  <2> HIDE DEF unheard, failed, replaced
  <2>1. QED
    BY <1>1, <1>2, <1>3, InterruptDoneQuiet
<1>4. CASE UNCHANGED <<pending, recQ>> /\ req' \in {req, replaced}
  <2>1. RequestKeepsAccounts
    BY <1>1, <1>2, <1>4 DEF RequestKeepsAccounts
  <2>2. QED
    BY <1>4, <2>1, NothingDecided
<1>5. QED
  BY <1>3, <1>4 DEF InterruptReply, OlderSettled

(* A call about a thread settles, or its timer fires.                       *)
ThreadStepMoves ==
  \E val, n : ThreadStepSettles(val, n) /\ UNCHANGED <<op, pending, recQ, accountVars>>

LEMMA ReadInternalAnswerMoves ==
  ASSUME CutoverInv, NEW t \in Threads, ReadInternalAnswer(t)
  PROVE  QuietStep \/ ThreadStepMoves
<1>1. UNCHANGED <<accountVars, op>>
  BY DEF ReadInternalAnswer, managerVars, accountVars
<1>2. PICK m : m = Head(pipe[t])
  OBVIOUS
<1>3. CASE PrepareReply(m.val) /\ UNCHANGED <<opState, tx>>
  BY <1>1, <1>3, PrepareReplyQuiet
<1>4. CASE RecoverReply(m.val) /\ UNCHANGED <<opState, pending, recQ, tx>>
  <2>1. RequestKeepsAccounts
    BY <1>4 DEF RecoverReply, RequestKeepsAccounts, CutoverInv, AccountsInv, AccountShapes, ReqShape
  <2>2. QED
    BY <1>1, <1>4, <2>1, NothingDecided
<1>5. CASE InterruptReply(t, m.by, m.val, m.n) /\ UNCHANGED <<opState, tx>>
  BY <1>1, <1>5, InterruptReplyQuiet
<1>6. CASE ThreadStepSettles(m.val, m.n) /\ UNCHANGED <<pending, recQ>>
  BY <1>1, <1>6 DEF ThreadStepMoves
<1>7. CASE UNCHANGED <<opState, pending, req, recQ, tx>>
  BY <1>1, <1>7, SameRequest, NothingDecided
<1>8. QED
  BY <1>2, <1>3, <1>4, <1>5, <1>6, <1>7 DEF ReadInternalAnswer

LEMMA ReadEndedQuiet ==
  ASSUME CutoverInv, NEW t \in Threads, ReadEnded(t)
  PROVE  QuietStep
<1>1. UNCHANGED <<tx, accountVars, op, opState, pending, recQ>>
  BY DEF ReadEnded, managerVars, observed, givenUp, accountVars
<1>2. RequestKeepsAccounts
  BY DEF ReadEnded, RequestKeepsAccounts, CutoverInv, AccountsInv, AccountShapes, ReqShape
<1>3. QED
  BY <1>1, <1>2, NothingDecided

LEMMA TimerMoves ==
  ASSUME CutoverInv, TimerStep
  PROVE  QuietStep \/ ThreadStepMoves \/ AccountStepTimer
<1>1. CASE PrepareTimer
  <2>1. PrepareFails /\ UNCHANGED <<tx, accountVars, op, opState>>
    BY <1>1 DEF PrepareTimer, managerVars, observed, givenUp, accountVars
  <2>2. QED
    BY <2>1, PrepareFailsQuiet
<1>2. CASE RecoverTimer
  <2>1. UNCHANGED <<tx, accountVars, op, opState, pending, recQ, req>>
    BY <1>2 DEF RecoverTimer, RecoverReply, managerVars, tableVars, accountVars
  <2>2. QED
    BY <2>1, SameRequest, NothingDecided
<1>3. CASE ThreadStepTimer
  <2>1. ThreadStepSettles("error", 0) /\ UNCHANGED <<op, pending, recQ, accountVars>>
    BY <1>3 DEF ThreadStepTimer, managerVars, accountVars
  <2>2. QED
    BY <2>1 DEF ThreadStepMoves
<1>4. CASE GraceExpired
  BY <1>4, GraceExpiredQuiet
<1>5. ASSUME NEW t \in Threads, InterruptTimer(t)
      PROVE  QuietStep
  <2> DEFINE r == [req EXCEPT !.interrupted = [@ EXCEPT ![t] = 0], !.intFailed = TRUE]
  <2>1. InterruptDone(t, r) /\ UNCHANGED <<tx, accountVars, op, opState>>
    BY <1>5 DEF InterruptTimer, managerVars, tableVars, observed, givenUp, accountVars
  <2>2. ReqShape(r) /\ r.target = req.target /\ r.previous = req.previous
    BY DEF CutoverInv, AccountsInv, AccountShapes, ReqShape
  <2> HIDE DEF r
  <2>3. QED
    BY <2>1, <2>2, InterruptDoneQuiet
<1>6. QED
  BY <1>1, <1>2, <1>3, <1>4, <1>5 DEF TimerStep

(* What a step may be, as far as the accounts and the outcomes go.          *)
LEMMA NextMoves ==
  ASSUME CutoverInv, [Next]_vars
  PROVE  \/ QuietStep \/ Cancel \/ RecoverNext \/ DrainPending
         \/ \E policy \in Policies, target \in Accounts, recent \in RecentSets :
              SwitchRequest(policy, target, recent)
         \/ TxCall \/ TxNoCredentials \/ TxNextThread \/ ThreadStepMoves
         \/ ReadAccountAnswer \/ AccountStepTimer \/ ChildAccountCall \/ ManagerActivate
<1> DEFINE kept == UNCHANGED <<tx, accountVars, op, opState, pending, recQ, req>>
<1>1. kept => QuietStep
  BY SameRequest, NothingDecided
<1>2. CASE UNCHANGED vars
  BY <1>1, <1>2 DEF vars, childVars, managerVars, tableVars, switchVars, givenUp, accountVars
<1>3. ASSUME NEW t \in Threads, WorkStart(t) \/ FlushHeld(t) PROVE kept
  BY <1>3 DEF WorkStart, FlushHeld, managerVars, switchVars, observed, givenUp, accountVars
<1>4. ASSUME NEW t \in Threads, ReadStarted(t) \/ ReadStartAnswer(t) PROVE kept
  BY <1>4 DEF ReadStarted, ReadStartAnswer, managerVars, switchVars, observed, givenUp, accountVars
<1>5. ASSUME NEW t \in Threads, ChildAnswer(t) \/ ChildFinish(t) \/ ChildGoalTurn(t) PROVE kept
  BY <1>5 DEF ChildAnswer, ChildFinish, ChildGoalTurn, managerVars, tableVars, switchVars, observed,
     givenUp, accountVars
<1>6. ASSUME NEW t \in Threads, ChildStart(t) \/ ChildGoalCall(t) \/ ChildInterrupt(t) PROVE kept
  BY <1>6 DEF ChildStart, ChildGoalCall, ChildInterrupt, managerVars, tableVars, switchVars, observed,
     givenUp, accountVars
<1> HIDE DEF kept
<1>7. CASE ShimStep
  BY <1>1, <1>3, <1>7, PrepareNextQuiet DEF ShimStep
<1>8. CASE TimerStep
  BY <1>8, TimerMoves
<1>9. CASE ReadStep
  BY <1>1, <1>4, <1>9, ReadEndedQuiet, ReadInternalAnswerMoves DEF ReadStep
<1>10. QED
  BY <1>1, <1>2, <1>3, <1>5, <1>6, <1>7, <1>8, <1>9 DEF Next

(* A step that gives the switch up, or a recovery of one that was.          *)
GiveUpStep ==
  /\ RequestKeepsAccounts /\ UNCHANGED <<tx, accountVars, op>>
  /\ pending' => pending
  /\ op \in Ops
  /\ \E x \in {"deferred", "failed"} : opState' = [opState EXCEPT ![op] = x]
  /\ OpenState(op) \/ opState' = opState

LEMMA CancelGivesUp ==
  ASSUME CutoverInv, Cancel
  PROVE  GiveUpStep
<1>1. RequestKeepsAccounts
  BY DEF Cancel, RequestKeepsAccounts, CutoverInv, AccountsInv, AccountShapes, ReqShape
<1>2. UNCHANGED <<tx, accountVars, op>> /\ opState' = [opState EXCEPT ![op] = "failed"] /\ ~pending'
  BY DEF Cancel, managerVars, tableVars, observed, givenUp, accountVars
<1>3. op \in Ops /\ opState[op] = "pending"
  BY DEF Cancel, CutoverInv, ControlInv, PendingPhase
<1>4. QED
  BY <1>1, <1>2, <1>3 DEF GiveUpStep, OpenState

LEMMA RecoverNextGivesUp ==
  ASSUME CutoverInv, RecoverNext
  PROVE  QuietStep \/ GiveUpStep
<1>1. /\ RequestKeepsAccounts /\ UNCHANGED <<tx, accountVars, op, pending>>
      /\ recQ # <<>>
  BY SameRequest DEF RecoverNext, managerVars, tableVars, observed, givenUp, accountVars
<1>2. CASE UNCHANGED <<recQ, opState>>
  BY <1>1, <1>2, NothingDecided
<1>3. CASE opState' = [opState EXCEPT ![op] = RecoveredOutcome(Head(recQ), rec.at # "failed")]
  <2>1. op \in Ops /\ opState \in [Ops -> OpStates]
    BY <1>1 DEF CutoverInv, ControlInv, RecoveringPhase, Shapes
  <2>2. RecoveredOutcome(Head(recQ), rec.at # "failed") \in {"deferred", "failed"}
    BY DEF RecoveredOutcome
  <2>3. CASE recQ = <<"defer">>
    <3>1. opState[op] = "pending"
      BY <2>3 DEF CutoverInv, ControlInv, DeferringPhase
    <3>2. QED
      BY <1>1, <1>3, <2>1, <2>2, <3>1 DEF GiveUpStep, OpenState
  <2>4. CASE recQ \in Seq(EarlyCallers) /\ opState[op] \in {"pending", "failed"}
    <3>1. Head(recQ) \in EarlyCallers
      BY <1>1, <2>4
    <3>2. RecoveredOutcome(Head(recQ), rec.at # "failed") = "failed"
      BY <3>1 DEF EarlyCallers, RecoveredOutcome
    <3>3. opState' = [opState EXCEPT ![op] = "failed"]
      BY <1>3, <3>2
    <3>4. opState[op] = "failed" => opState' = opState
      BY <2>1, <3>3
    <3>5. QED
      BY <1>1, <2>1, <2>4, <3>3, <3>4 DEF GiveUpStep, OpenState
  <2>5. QED
    BY <1>1, <2>3, <2>4 DEF CutoverInv, ControlInv, RecoveringPhase
<1>4. CASE opState' = opState /\ recQ' = Append(Tail(recQ), "prep")
  <2>1. recQ' # <<>>
    <3>1. Tail(recQ) \in Seq(Callers)
      BY <1>1 DEF CutoverInv, ControlInv, Shapes
    <3>2. \A q \in Seq(Callers) : Append(q, "prep") # <<>>
      OBVIOUS
    <3> QED
      BY <1>4, <3>1, <3>2
  <2> QED
    BY <1>1, <1>4, <2>1 DEF QuietStep
<1>5. QED
  BY <1>2, <1>3, <1>4 DEF RecoverNext

-----------------------------------------------------------------------------
(* What Cutover sees.                                                       *)
Outcome == [o \in Ops |-> IF opState[o] \in {"pending", "switching"} THEN "open" ELSE opState[o]]
Holds ==
  [p \in {"child", "manager", "shim"} |->
     IF uncertain THEN "untrusted"
     ELSE IF tx.step # "off" THEN req.previous
     ELSE IF p = "child" THEN childAccount
     ELSE IF p = "manager" THEN managerAccount ELSE shimAccount]
AllHold(a) == [p \in {"child", "manager", "shim"} |-> a]
HoldsTogether ==
  Holds = AllHold(IF uncertain THEN "untrusted"
                  ELSE IF tx.step # "off" THEN req.previous ELSE managerAccount)

(* Never do two of the three hold different accounts.                       *)
LEMMA PartiesHoldTogether ==
  AccountsInv => HoldsTogether
BY DEF AccountsInv, TrustedInv, RestTrust, HoldsTogether, Holds, AllHold

LEMMA PartiesStayTogether ==
  AccountsInv' => HoldsTogether'
BY DEF AccountsInv, TrustedInv, RestTrust, HoldsTogether, Holds, AllHold

LEMMA CutoverStutters ==
  ASSUME Outcome' = Outcome, req'.target = req.target, Holds' = Holds
  PROVE  UNCHANGED Cutover!vars
BY DEF Outcome, Holds, Cutover!vars

LEMMA OutcomeSet ==
  ASSUME CutoverInv, NEW o \in Ops, NEW x \in OpStates, opState' = [opState EXCEPT ![o] = x]
  PROVE  Outcome' = [Outcome EXCEPT ![o] = IF x \in {"pending", "switching"} THEN "open" ELSE x]
BY DEF Outcome, CutoverInv, ControlInv, Shapes

LEMMA OpenOutcome ==
  ASSUME NEW o \in Ops
  PROVE  OpenState(o) => Outcome[o] = "open"
BY DEF OpenState, Outcome

LEMMA CutoverGivesUp ==
  ASSUME CutoverInv, op \in Ops, OpenState(op), NEW x \in {"deferred", "failed"},
         opState' = [opState EXCEPT ![op] = x], req'.target = req.target, Holds' = Holds
  PROVE  Cutover!Next
<1>1. Outcome[op] = "open" /\ Outcome' = [Outcome EXCEPT ![op] = x]
  BY OpenOutcome, OutcomeSet DEF OpStates, Final
<1>2. PICK o \in 1..MaxSwitches : o = op
  BY DEF Ops
<1>3. Cutover!GiveUp(o)
  BY <1>1, <1>2 DEF Cutover!GiveUp, Cutover!Open, Outcome, Holds
<1>4. QED
  BY <1>3 DEF Cutover!Next

(* The outcome of a switch is open for as long as its transaction runs, and  *)
(* not any longer when it has been decided.                                 *)
LEMMA OpenWhileMoving ==
  ASSUME CutoverInv, op' = op, op \in Ops, NEW x, opState' = [opState EXCEPT ![op] = x],
         tx'.step # "off"
  PROVE  OpenInv'
BY DEF CutoverInv, ControlInv, Shapes, OpenInv, OpenState

LEMMA OpenUntilDecided ==
  ASSUME CutoverInv, op' = op, op \in Ops, NEW x \in Final, opState' = [opState EXCEPT ![op] = x]
  PROVE  OpenInv'
BY DEF CutoverInv, ControlInv, Shapes, OpenInv, OpenState, Final

LEMMA MovingSwitch ==
  ASSUME CutoverInv, tx.step # "off"
  PROVE  op \in Ops /\ OpenState(op) /\ ~pending /\ opState = [opState EXCEPT ![op] = opState[op]]
BY DEF CutoverInv, ControlInv, SwitchingPhase, OpenState, Shapes

(* A step inside the transaction that leaves the previous account trusted,   *)
(* or distrusted.                                                           *)
LEMMA MovesOn ==
  ASSUME CutoverInv, AccountsInv', tx.step # "off", tx'.step # "off", RequestKeepsAccounts,
         UNCHANGED <<op, opState, uncertain>>
  PROVE  OpenInv' /\ UNCHANGED Cutover!vars
<1>1. OpenInv'
  BY MovingSwitch, OpenWhileMoving
<1>2. HoldsTogether /\ HoldsTogether'
  BY PartiesHoldTogether, PartiesStayTogether DEF CutoverInv
<1>3. Holds' = Holds
  BY <1>2 DEF HoldsTogether, AllHold, RequestKeepsAccounts
<1>4. Outcome' = Outcome
  BY DEF Outcome
<1>5. QED
  BY <1>1, <1>3, <1>4, CutoverStutters DEF RequestKeepsAccounts

(* The transaction is rolled back, and fails.                               *)
LEMMA MoveFails ==
  ASSUME CutoverInv, AccountsInv', tx.step = "undoResume", tx' = NoTx, RequestKeepsAccounts,
         opState' = [opState EXCEPT ![op] = "failed"], UNCHANGED <<op, uncertain, managerAccount>>
  PROVE  OpenInv' /\ Cutover!Next
<1>1. OpenInv'
  BY MovingSwitch, OpenUntilDecided DEF Final
<1>2. HoldsTogether /\ HoldsTogether' /\ tx'.step = "off"
  BY PartiesHoldTogether, PartiesStayTogether, NoTxFields DEF CutoverInv
<1>3. ~uncertain => managerAccount = req.previous
  BY DEF CutoverInv, AccountsInv, TrustedInv, UndoTrust, ManagerStays
<1>4. Holds' = Holds
  BY <1>2, <1>3 DEF HoldsTogether, AllHold
<1>5. QED
  BY <1>1, <1>4, MovingSwitch, CutoverGivesUp DEF RequestKeepsAccounts

(* The transaction has moved every party.                                   *)
LEMMA MoveSucceeds ==
  ASSUME CutoverInv, AccountsInv', tx.step = "continue", tx' = NoTx,
         opState' = [opState EXCEPT ![op] = "switched"], uncertain' = FALSE,
         UNCHANGED <<op, req, managerAccount>>
  PROVE  OpenInv' /\ Cutover!Next
<1>1. OpenInv'
  BY MovingSwitch, OpenUntilDecided DEF Final
<1>2. HoldsTogether' /\ tx'.step = "off"
  BY PartiesStayTogether, NoTxFields
<1>3. managerAccount = req.target
  BY DEF CutoverInv, AccountsInv, ForwardInv
<1>4. Holds' = AllHold(req.target)
  BY <1>2, <1>3 DEF HoldsTogether, AllHold
<1>5. op \in Ops /\ Outcome[op] = "open" /\ Outcome' = [Outcome EXCEPT ![op] = "switched"]
  BY MovingSwitch, OpenOutcome, OutcomeSet DEF OpStates, Final
<1>6. PICK o \in 1..MaxSwitches : o = op
  BY <1>5 DEF Ops
<1>7. Cutover!Succeed(o)
  BY <1>4, <1>5, <1>6 DEF Cutover!Succeed, Cutover!Open, Cutover!Together, Cutover!Parties, Outcome, Holds,
     AllHold
<1>8. QED
  BY <1>1, <1>7 DEF Cutover!Next

(* A step of the rollback fails.                                            *)
LEMMA MoveIsLost ==
  ASSUME CutoverInv, AccountsInv', tx.step # "off", tx'.step # "off", RequestKeepsAccounts,
         uncertain' = TRUE, UNCHANGED <<op, opState>>
  PROVE  OpenInv' /\ Cutover!Next
<1>1. OpenInv'
  BY MovingSwitch, OpenWhileMoving
<1>2. HoldsTogether'
  BY PartiesStayTogether
<1>3. Holds' = AllHold("untrusted")
  BY <1>2 DEF HoldsTogether
<1>4. op \in Ops /\ Outcome[op] = "open" /\ Outcome' = Outcome
  BY MovingSwitch, OpenOutcome DEF Outcome
<1>5. PICK o \in 1..MaxSwitches : o = op
  BY <1>4 DEF Ops
<1>6. Cutover!RollbackFails(o)
  BY <1>3, <1>4, <1>5 DEF Cutover!RollbackFails, Cutover!Open, Cutover!Untrusted, Cutover!Together,
     Cutover!Parties, Outcome, Holds, AllHold, RequestKeepsAccounts
<1>7. QED
  BY <1>1, <1>6 DEF Cutover!Next

-----------------------------------------------------------------------------
(* The step keeps the accounts in order, and Cutover takes it or stutters.   *)
CutoverSees == Cutover!Next \/ UNCHANGED Cutover!vars
CutoverKept == AccountsInv' /\ OpenInv' /\ CutoverSees

LEMMA QuietCutover ==
  ASSUME CutoverInv, QuietStep
  PROVE  CutoverKept
<1>1. Outcome' = Outcome /\ Holds' = Holds /\ req'.target = req.target
  BY DEF QuietStep, RequestKeepsAccounts, accountVars, Outcome, Holds
<1>2. QED
  BY <1>1, QuietAccounts, CutoverStutters DEF CutoverKept, CutoverSees

LEMMA GiveUpCutover ==
  ASSUME CutoverInv, GiveUpStep
  PROVE  CutoverKept
<1>1. AccountsInv'
  BY AccountsKept DEF CutoverInv, GiveUpStep
<1>2. PICK x \in {"deferred", "failed"} : opState' = [opState EXCEPT ![op] = x]
  BY DEF GiveUpStep
<1>3. Holds' = Holds /\ req'.target = req.target /\ op \in Ops /\ op' = op
  BY DEF GiveUpStep, RequestKeepsAccounts, accountVars, Holds
<1>4. OpenInv'
  BY <1>2, <1>3, OpenUntilDecided DEF Final
<1>5. CASE OpenState(op)
  BY <1>1, <1>2, <1>3, <1>4, <1>5, CutoverGivesUp DEF CutoverKept, CutoverSees
<1>6. CASE opState' = opState
  <2>1. Outcome' = Outcome
    BY <1>6 DEF Outcome
  <2>2. QED
    BY <1>1, <1>3, <1>4, <2>1, CutoverStutters DEF CutoverKept, CutoverSees
<1>7. QED
  BY <1>5, <1>6 DEF GiveUpStep

LEMMA SwitchRequestCutover ==
  ASSUME CutoverInv, NEW policy \in Policies, NEW target \in Accounts, NEW recent \in RecentSets,
         SwitchRequest(policy, target, recent)
  PROVE  CutoverKept
<1>1. AccountsInv'
  BY SwitchRequestAccounts DEF CutoverInv
<1>2. /\ op' = op + 1 /\ op + 1 \in Ops /\ op + 1 > op
      /\ opState' = [opState EXCEPT ![op + 1] = "pending"] /\ pending'
      /\ opState[op + 1] = "unknown"
  BY SwitchBarrierAssumption DEF SwitchRequest, CutoverInv, ControlInv, Shapes, FutureUnknown, Ops
<1>3. \A o \in Ops : ~OpenState(o)
  BY DEF SwitchRequest, Barrier, CutoverInv, OpenInv
<1>4. PICK o \in Ops : o = op + 1
  BY <1>2
<1>5. \A p \in Ops : OpenState(p)' => p = o
  BY <1>2, <1>3, <1>4 DEF OpenState, CutoverInv, ControlInv, Shapes
<1>6. OpenInv'
  BY <1>2, <1>4, <1>5 DEF OpenInv
<1>7. Outcome[o] = "unknown" /\ Outcome' = [Outcome EXCEPT ![o] = "open"]
  BY <1>2, <1>4, OutcomeSet DEF Outcome, OpStates
<1>8. Holds' = Holds /\ req'.target = target
  BY DEF SwitchRequest, Barrier, managerVars, tableVars, givenUp, Holds, NoRequest
<1>9. \A p \in Ops : Outcome[p] # "open"
  BY <1>3 DEF OpenState, Outcome, CutoverInv, ControlInv, Shapes, OpStates, Final
<1>10. Cutover!Request(o, target)
  BY <1>7, <1>8, <1>9 DEF Cutover!Request, Cutover!Open, Outcome, Holds, Ops
<1>11. o \in 1..MaxSwitches
  BY DEF Ops
<1>12. QED
  BY <1>1, <1>6, <1>10, <1>11 DEF CutoverKept, CutoverSees, Cutover!Next

LEMMA DrainPendingCutover ==
  ASSUME CutoverInv, DrainPending
  PROVE  CutoverKept
<1>1. AccountsInv' /\ UNCHANGED <<req, accountVars, op, recQ>>
  BY DrainPendingAccounts DEF CutoverInv, DrainPending, childVars, managerVars, tableVars, observed,
     givenUp, accountVars
<1>2. CASE UNCHANGED <<pending, opState, tx>>
  BY <1>1, <1>2, SameRequest, NothingDecided, QuietCutover
<1>3. CASE /\ pending /\ tx.step = "off" /\ opState' = [opState EXCEPT ![op] = "switching"]
           /\ tx' = Enter(NoTx, "login", {})
  <2>1. tx'.step # "off"
    BY <1>3, NoTxFields, EnterSteps
  <2>2. op \in Ops /\ OpenState(op)
    BY <1>3 DEF CutoverInv, ControlInv, PendingPhase, OpenState
  <2>3. OpenInv'
    BY <1>1, <1>3, <2>1, <2>2, OpenWhileMoving
  <2>4. Outcome' = Outcome
    BY <1>3, <2>2 DEF OpenState, Outcome, CutoverInv, ControlInv, Shapes
  <2>5. HoldsTogether /\ HoldsTogether'
    BY <1>1, PartiesHoldTogether, PartiesStayTogether DEF CutoverInv
  <2>6. ~uncertain => managerAccount = req.previous
    BY <1>3 DEF CutoverInv, AccountsInv, TrustedInv, RestTrust
  <2>7. Holds' = Holds
    BY <1>1, <1>3, <2>1, <2>5, <2>6 DEF HoldsTogether, AllHold, accountVars
  <2>8. QED
    BY <1>1, <2>3, <2>4, <2>7, CutoverStutters DEF CutoverKept, CutoverSees
<1>4. QED
  BY <1>2, <1>3 DEF DrainPending

LEMMA CallCutover ==
  ASSUME CutoverInv, TxCall \/ TxNoCredentials
  PROVE  CutoverKept
<1>1. AccountsInv'
  BY TxCallAccounts, TxNoCredentialsAccounts DEF CutoverInv
<1>2. tx.step # "off" /\ tx'.step = tx.step
  BY DEF TxCall, TxNoCredentials, CutoverInv, AccountsInv, AccountShapes, TxShape
<1>3. UNCHANGED <<op, opState, uncertain, req>>
  BY DEF TxCall, TxNoCredentials, observed, givenUp
<1>4. QED
  BY <1>1, <1>2, <1>3, SameRequest, MovesOn DEF CutoverKept, CutoverSees

LEMMA ThreadStepCutover ==
  ASSUME CutoverInv, ThreadStepMoves
  PROVE  CutoverKept
<1>1. PICK val, n : ThreadStepSettles(val, n) /\ UNCHANGED <<op, pending, recQ, accountVars>>
  BY DEF ThreadStepMoves
<1>2. AccountsInv'
  BY <1>1, ThreadStepAccounts DEF CutoverInv
<1>3. TxShape(tx) /\ ReqShape(req)
  BY DEF CutoverInv, AccountsInv, AccountShapes
<1>4. RequestKeepsAccounts /\ UNCHANGED <<uncertain, managerAccount>>
  BY <1>1, <1>3 DEF ThreadStepSettles, RequestKeepsAccounts, ReqShape, accountVars
<1>5. CASE tx.step # "off" /\ tx' = [tx EXCEPT !.at = "next"] /\ UNCHANGED opState
  <2>1. tx'.step = tx.step
    BY <1>3, <1>5 DEF TxShape
  <2>2. QED
    BY <1>1, <1>2, <1>4, <1>5, <2>1, MovesOn DEF CutoverKept, CutoverSees
<1>6. CASE tx.step = "resume" /\ tx' = UndoFrom(tx) /\ UNCHANGED opState
  <2>1. tx'.step # "off"
    BY <1>3, <1>6, EnterSteps DEF UndoFrom, UndoAfterLogin
  <2>2. QED
    BY <1>1, <1>2, <1>4, <1>6, <2>1, MovesOn DEF CutoverKept, CutoverSees
<1>7. CASE tx.step = "undoResume" /\ tx' = NoTx /\ opState' = [opState EXCEPT ![op] = "failed"]
  BY <1>1, <1>2, <1>4, <1>7, MoveFails DEF CutoverKept, CutoverSees
<1>8. QED
  BY <1>1, <1>5, <1>6, <1>7 DEF ThreadStepSettles

LEMMA TxNextThreadCutover ==
  ASSUME CutoverInv, TxNextThread
  PROVE  CutoverKept
<1>1. AccountsInv'
  BY TxNextThreadAccounts DEF CutoverInv
<1>2. /\ tx.step \in {"resume", "undoResume", "continue"}
      /\ UNCHANGED <<op, req, managerAccount>>
  BY DEF TxNextThread, ThreadStepKind, managerVars
<1>3. TxShape(tx) /\ RequestKeepsAccounts /\ uncertain \in BOOLEAN
  BY <1>2, SameRequest DEF CutoverInv, AccountsInv, AccountShapes
<1>4. ASSUME NEW t, tx' = [tx EXCEPT !.at = "await", !.t = t, !.todo = @ \ {t}],
             UNCHANGED <<opState, uncertain>>
      PROVE  CutoverKept
  <2>1. tx'.step = tx.step
    BY <1>3, <1>4 DEF TxShape
  <2>2. QED
    BY <1>1, <1>2, <1>3, <1>4, <2>1, MovesOn DEF CutoverKept, CutoverSees
<1>5. CASE tx' = Enter(tx, "continue", req.recovery) /\ UNCHANGED <<opState, uncertain>>
  <2>1. tx'.step # "off"
    BY <1>3, <1>5, EnterSteps
  <2>2. QED
    BY <1>1, <1>2, <1>3, <1>5, <2>1, MovesOn DEF CutoverKept, CutoverSees
<1>6. CASE /\ tx.step # "resume" /\ tx' = NoTx
           /\ opState' = [opState EXCEPT ![op] = IF tx.step = "continue" THEN "switched" ELSE "failed"]
           /\ uncertain' = (uncertain /\ tx.step # "continue")
  <2>1. CASE tx.step = "continue"
    BY <1>1, <1>2, <1>6, <2>1, MoveSucceeds DEF CutoverKept, CutoverSees
  <2>2. CASE tx.step = "undoResume"
    <3>1. opState' = [opState EXCEPT ![op] = "failed"] /\ uncertain' = uncertain
      BY <1>3, <1>6, <2>2
    <3>2. QED
      BY <1>1, <1>2, <1>3, <1>6, <2>2, <3>1, MoveFails DEF CutoverKept, CutoverSees
  <2>3. QED
    BY <1>2, <1>6, <2>1, <2>2
<1>7. QED
  BY <1>4, <1>5, <1>6 DEF TxNextThread

LEMMA AccountStepCutover ==
  ASSUME CutoverInv, NEW ok, AccountStepSettles(ok), AccountsInv', UNCHANGED <<op, opState, req>>
  PROVE  CutoverKept
<1>1. TxShape(tx) /\ RequestKeepsAccounts
  BY SameRequest DEF CutoverInv, AccountsInv, AccountShapes
<1>2. tx.step # "off"
  BY DEF AccountStepSettles
<1>3. ASSUME NEW x, TxShape(x) PROVE UndoAfterLogin(x).step # "off" /\ UndoFrom(x).step # "off"
  BY <1>3, EnterSteps DEF UndoFrom, UndoAfterLogin
<1>4. tx'.step # "off"
  <2>1. PICK x : x = [tx EXCEPT !.applied = TRUE]
    OBVIOUS
  <2>2. TxShape(x)
    BY <1>1, <2>1 DEF TxShape
  <2>3. CASE tx' = UndoFrom(tx) \/ tx' = UndoAfterLogin(tx)
    BY <1>1, <1>3, <2>3
  <2>4. CASE \/ tx' = Enter(x, "identity", {}) \/ tx' = Enter(tx, "activate", {})
             \/ tx' = Enter(tx, "resume", req.paused \cup req.limited)
             \/ tx' = Enter(tx, "undoIdentity", {}) \/ tx' = Enter(tx, "undoResume", req.paused)
    BY <1>1, <2>2, <2>4, EnterSteps
  <2>5. QED
    BY <2>1, <2>3, <2>4 DEF AccountStepSettles
<1>5. CASE uncertain' = uncertain
  BY <1>1, <1>2, <1>4, <1>5, MovesOn DEF CutoverKept, CutoverSees
<1>6. CASE uncertain' = TRUE
  BY <1>1, <1>2, <1>4, <1>6, MoveIsLost DEF CutoverKept, CutoverSees
<1>7. QED
  BY <1>5, <1>6 DEF AccountStepSettles

LEMMA ReadAccountAnswerCutover ==
  ASSUME CutoverInv, ReadAccountAnswer
  PROVE  CutoverKept
<1>1. AccountsInv' /\ UNCHANGED <<op, opState, req>>
  BY ReadAccountAnswerAccounts DEF CutoverInv, ReadAccountAnswer
<1>2. CASE AccountStepSettles(answer = "ok")
  BY <1>1, <1>2, AccountStepCutover
<1>3. CASE tx.step \in {"identity", "undoIdentity"} /\ tx' = [tx EXCEPT !.at = "next"] /\ UNCHANGED uncertain
  <2>1. tx'.step = tx.step /\ RequestKeepsAccounts
    BY <1>1, <1>3, SameRequest DEF CutoverInv, AccountsInv, AccountShapes, TxShape
  <2>2. QED
    BY <1>1, <1>3, <2>1, MovesOn DEF CutoverKept, CutoverSees
<1>4. QED
  BY <1>2, <1>3 DEF ReadAccountAnswer

LEMMA AccountStepTimerCutover ==
  ASSUME CutoverInv, "login" \notin Timeouts, AccountStepTimer
  PROVE  CutoverKept
<1>1. AccountsInv' /\ AccountStepSettles(FALSE) /\ UNCHANGED <<op, opState, req>>
  BY AccountStepTimerAccounts DEF CutoverInv, AccountStepTimer
<1>2. QED
  BY <1>1, AccountStepCutover

(* A call that is carried out moves an account that a transaction is moving, *)
(* or that is not trusted.                                                  *)
LEMMA CarriedOutCutover ==
  ASSUME CutoverInv, ChildAccountCall \/ ManagerActivate
  PROVE  CutoverKept
<1>1. AccountsInv'
  BY ChildAccountCallAccounts, ManagerActivateAccounts DEF CutoverInv
<1>2. UNCHANGED <<op, opState, pending, recQ, tx, req, uncertain>>
  BY DEF ChildAccountCall, ManagerActivate, switchVars, observed, givenUp
<1>3. OpenInv'
  BY <1>2 DEF CutoverInv, OpenInv, OpenState
<1>4. tx.step = "off" /\ ~uncertain => managerAccount' = managerAccount
  BY DEF ChildAccountCall, ManagerActivate, CutoverInv, AccountsInv, TrustedInv, RestTrust
<1>5. HoldsTogether /\ HoldsTogether'
  BY <1>1, PartiesHoldTogether, PartiesStayTogether DEF CutoverInv
<1>6. Holds' = Holds
  BY <1>2, <1>4, <1>5 DEF HoldsTogether, AllHold
<1>7. Outcome' = Outcome
  BY <1>2 DEF Outcome
<1>8. QED
  BY <1>1, <1>2, <1>3, <1>6, <1>7, CutoverStutters DEF CutoverKept, CutoverSees

-----------------------------------------------------------------------------
LEMMA InitCutover ==
  ASSUME Init
  PROVE  CutoverInv /\ Cutover!Init
<1>1. /\ tx = NoTx /\ req = NoRequest /\ auth = <<>> /\ mgr = <<>> /\ answer = "none"
      /\ childAccount = InitAccount /\ managerAccount = InitAccount /\ shimAccount = InitAccount
      /\ uncertain = FALSE /\ pending = FALSE /\ opState = [o \in Ops |-> "unknown"]
  BY DEF Init
<1>2. TxShape(tx) /\ tx.step = "off" /\ ReqShape(req) /\ req.target = InitAccount
  BY <1>1, NoTxFields, SwitchBarrierAssumption DEF NoRequest, ReqShape
<1>3. AccountsInv
  <2>1. AccountShapes
    <3>1. auth \in Seq(AccountCall) /\ mgr \in Seq(ManagerCall)
      BY <1>1
    <3>2. QED
      BY <1>1, <1>2, <3>1, SwitchBarrierAssumption DEF AccountShapes
  <2>2. CallsInv
    <3>1. QuietCalls
      BY <1>1 DEF QuietCalls, NoMain
    <3>2. tx.at = "await" => tx.step = "off"
      BY <1>2
    <3>3. QED
      BY <1>2, <3>1 DEF CallsInv
  <2>3. ForwardInv /\ TrustedInv
    BY <1>1, <1>2 DEF ForwardInv, TrustedInv, RestTrust, ForwardTrust, UndoTrust, NoLogins
  <2>4. QED
    BY <2>1, <2>2, <2>3 DEF AccountsInv
<1>4. OpenInv
  BY <1>1 DEF OpenInv, OpenState
<1>5. Cutover!Init
  BY <1>1, <1>2 DEF Cutover!Init, Cutover!Together, Cutover!Parties, Ops
<1>6. QED
  BY <1>3, <1>4, <1>5, InitControl DEF CutoverInv

LEMMA CutoverStep ==
  ASSUME CutoverInv, [Next]_vars, "login" \notin Timeouts
  PROVE  CutoverInv' /\ [Cutover!Next]_(Cutover!vars)
<1>1. ControlInv'
  BY ControlStep DEF CutoverInv
<1>2. CutoverKept
  BY NextMoves, QuietCutover, GiveUpCutover, CancelGivesUp, RecoverNextGivesUp, DrainPendingCutover,
     SwitchRequestCutover, CallCutover, TxNextThreadCutover, ThreadStepCutover,
     ReadAccountAnswerCutover, AccountStepTimerCutover, CarriedOutCutover
<1>3. QED
  BY <1>1, <1>2 DEF CutoverInv, CutoverKept, CutoverSees

LEMMA CutoverIsInvariant ==
  ASSUME "login" \notin Timeouts
  PROVE  Spec => []CutoverInv
<1>1. Init => CutoverInv
  BY InitCutover
<1>2. CutoverInv /\ [Next]_vars => CutoverInv'
  BY CutoverStep
<1>3. QED
  BY <1>1, <1>2, PTL DEF Spec

(* Between switches the child, the manager and the shim have one account,    *)
(* unless a rollback step failed: however the calls of a transaction fail,   *)
(* time out and are carried out late, as long as a login is answered.       *)
THEOREM AccountsAlwaysAgree ==
  ASSUME "login" \notin Timeouts
  PROVE  Spec => []AccountsAgree
<1>1. CutoverInv => AccountsAgree
  BY DEF CutoverInv, AccountsInv, TrustedInv, RestTrust, AccountsAgree, Decided
<1>2. QED
  BY <1>1, CutoverIsInvariant, PTL

(* The whole protocol of barrier, Goals, interrupts, login, identity,        *)
(* activation and rollback is one step of AccountCutover for every switch:   *)
(* the three parties move together when it succeeds, and not at all when it  *)
(* does not.                                                                *)
THEOREM SwitchImplementsCutover ==
  ASSUME "login" \notin Timeouts
  PROVE  Spec => ImplementsCutover
<1>1. Init => Cutover!Init
  BY InitCutover
<1>2. CutoverInv /\ [Next]_vars => [Cutover!Next]_(Cutover!vars)
  BY CutoverStep
<1>3. QED
  BY <1>1, <1>2, CutoverIsInvariant, PTL DEF Spec, ImplementsCutover, Cutover!Spec

-----------------------------------------------------------------------------
(* Turns.  WorkInv says of each thread how the numbers of turns in the      *)
(* child, in the pipe and in the shim's tables fit together, where a call   *)
(* that is waited for may be, and who waits for it.                         *)
(* The parts of the state that calls about turns depend on.                 *)
WorkTyped ==
  /\ toChild \in [Threads -> Seq(CallType)] /\ pipe \in [Threads -> Seq(LineType)]
  /\ owed \in [Threads -> SUBSET [by : Waiters, n : 0..MaxTurns]]
  /\ run \in [Threads -> 0..MaxTurns] /\ begun \in [Threads -> 0..MaxTurns]
  /\ active \in [Threads -> 0..MaxTurns] /\ ended \in [Threads -> 0..MaxTurns]
  /\ ordinary \in [Threads -> BOOLEAN] /\ goal \in [Threads -> GoalStatus]
  /\ submitted \subseteq Threads
  /\ recQ \in Seq({"prep", "cancel", "defer"})
  /\ {"at", "t"} \subseteq DOMAIN prep /\ {"step", "at", "t"} \subseteq DOMAIN tx
  /\ {"at", "t"} \subseteq DOMAIN rec

Elems(s) == {s[i] : i \in DOMAIN s}

(* Numbers of turns: what has ended is older than what runs.                *)
TurnsFit(t) ==
  /\ run[t] \in {0, begun[t]} /\ active[t] <= begun[t] /\ ended[t] <= begun[t]
  /\ run[t] # 0 => ended[t] < run[t]
  /\ \A m \in Elems(pipe[t]) :
       m.n <= begun[t] /\ (m.type = "started" \/ m.val \in {"ok", "replaced"} => m.n # 0)
  /\ \A o \in owed[t] : o.n # 0 /\ o.n <= begun[t]

(* The lines that make the shim believe that no turn runs on a thread.      *)
SaysIdle(m) == m.type = "ended" \/ m.val \in {"inactive", "missing"}
SaysRunning(t, m) == m.type = "started" /\ m.n = run[t]

(* Whose starts begin a turn the shim waits to hear of.                     *)
Starter(b) == b = "client" \/ (b = "main" /\ tx.step = "continue")

(* The shim knows of the turn that runs, or will read that it began, after  *)
(* whatever it reads about older turns; and if it was asked for, the answer *)
(* comes after that.                                                        *)
LinesFit(t) ==
  run[t] # 0 =>
    /\ active[t] # 0 \/ \E j \in DOMAIN pipe[t] : SaysRunning(t, pipe[t][j])
    /\ \A i \in DOMAIN pipe[t] : SaysIdle(pipe[t][i]) =>
         \E j \in DOMAIN pipe[t] : i < j /\ SaysRunning(t, pipe[t][j])
    /\ \A j \in DOMAIN pipe[t] : SaysRunning(t, pipe[t][j]) =>
         /\ active[t] < run[t]
         /\ \A i \in DOMAIN pipe[t] : i < j => pipe[t][i].n < run[t]
         /\ ordinary[t] => \/ \E o \in owed[t] : Starter(o.by)
                           \/ \E i \in DOMAIN pipe[t] : j < i /\ Starter(pipe[t][i].by)

CallFits(t, c) ==
  /\ c.n <= begun[t]
  /\ c.kind = "start" => c.by = "client"
  /\ c.kind = "continue" => c.by = "main" /\ tx.step = "continue"
  /\ c.kind = "interrupt" => c.n # 0
KindsFit(t) ==
  /\ \A c \in Elems(toChild[t]) : CallFits(t, c)
  /\ \A o \in owed[t] : Starter(o.by)

(* A call of b on a thread is in one place: in calls, owed, or answered.    *)
Out(calls, os, lines, b) ==
  (\E i \in DOMAIN calls : calls[i].by = b) \/ (\E o \in os : o.by = b)
     \/ (\E i \in DOMAIN lines : lines[i].by = b)
OneOf(calls, os, lines, b) ==
  /\ \A i, j \in DOMAIN calls : calls[i].by = b /\ calls[j].by = b => i = j
  /\ \A i, j \in DOMAIN lines : lines[i].by = b /\ lines[j].by = b => i = j
  /\ \A o, p \in os : o.by = b /\ p.by = b => o = p
  /\ \A i \in DOMAIN calls, o \in os : ~(calls[i].by = b /\ o.by = b)
  /\ \A i \in DOMAIN calls, j \in DOMAIN lines : ~(calls[i].by = b /\ lines[j].by = b)
  /\ \A o \in os, j \in DOMAIN lines : ~(o.by = b /\ lines[j].by = b)

(* Who waits for its answer.                                                *)
Waits(t, b) ==
  IF b = "client" THEN t \in submitted
  ELSE IF b = "prep" THEN prep.at \in {"goalGet", "pause"} /\ prep.t = t
  ELSE IF b = "rec" THEN rec.at = "await" /\ rec.t = t
  ELSE tx.step \in DOMAIN ThreadStepKind /\ tx.at = "await" /\ tx.t = t

OutNow(t, b) == Out(toChild[t], owed[t], pipe[t], b)
OneOut(t, b) == OneOf(toChild[t], owed[t], pipe[t], b) /\ (OutNow(t, b) => Waits(t, b))

Awaited == {"client", "prep", "rec", "main"}
ThreadFits(t) == TurnsFit(t) /\ LinesFit(t) /\ KindsFit(t) /\ \A b \in Awaited : OneOut(t, b)

(* A preparation that waits for the Goals to be recovered has queued that once. *)
AtRecovery == prep.at \in {"late", "recover"}
PrepOnce ==
  /\ \A i \in DOMAIN recQ : recQ[i] = "prep" => AtRecovery
  /\ \A i, j \in DOMAIN recQ : recQ[i] = "prep" /\ recQ[j] = "prep" => i = j

NothingSubmitted == tx.step # "off" => submitted = {}
LoginQuiet == tx.step = "login" => \A t \in Threads : run[t] # 0 => ~ordinary[t]

WorkInv ==
  /\ WorkTyped /\ PrepOnce /\ NothingSubmitted /\ LoginQuiet
  /\ \A t \in Threads : ThreadFits(t)

-----------------------------------------------------------------------------
(* Sequences: what is left when an element is taken, and one is put.        *)
Taken(r, s, i) ==
  \E f \in [DOMAIN r -> DOMAIN s \ {i}] :
    (\A j \in DOMAIN r : r[j] = s[f[j]]) /\ \A j, k \in DOMAIN r : f[j] = f[k] => j = k

LEMMA TailTakes ==
  ASSUME NEW S, NEW s \in Seq(S), s # <<>>
  PROVE  /\ Tail(s) \in Seq(S) /\ Taken(Tail(s), s, 1) /\ Head(s) = s[1] /\ 1 \in DOMAIN s
         /\ Head(s) \in Elems(s) /\ Elems(Tail(s)) \subseteq Elems(s) /\ DOMAIN s \subseteq Nat
         /\ \A j \in DOMAIN Tail(s) : j + 1 \in DOMAIN s /\ Tail(s)[j] = s[j + 1] /\ j \in Nat /\ 1 < j + 1
         /\ \A j \in DOMAIN s : 1 < j => j - 1 \in DOMAIN Tail(s) /\ Tail(s)[j - 1] = s[j]
         /\ \A j \in DOMAIN s : j # 1 => 1 < j
<1> DEFINE r == Tail(s)
<1>1. /\ Len(s) \in Nat \ {0} /\ Head(s) = s[1] /\ r \in Seq(S) /\ DOMAIN s = 1..Len(s)
      /\ Len(r) = Len(s) - 1 /\ DOMAIN r = 1..(Len(s) - 1)
      /\ \A j \in 1..(Len(s) - 1) : r[j] = s[j + 1] /\ j + 1 \in 1..Len(s)
  OBVIOUS
<1>2. Taken(r, s, 1)
  <2> DEFINE f == [j \in DOMAIN r |-> j + 1]
  <2>1. f \in [DOMAIN r -> DOMAIN s \ {1}]
    BY <1>1
  <2>2. (\A j \in DOMAIN r : r[j] = s[f[j]]) /\ \A j, k \in DOMAIN r : f[j] = f[k] => j = k
    BY <1>1
  <2> HIDE DEF f
  <2> QED
    BY <2>1, <2>2 DEF Taken
<1>3. Elems(r) \subseteq Elems(s) /\ Head(s) \in Elems(s)
  BY <1>1 DEF Elems
<1> QED
  BY <1>1, <1>2, <1>3

LEMMA Shifted ==
  ASSUME NEW S, NEW s \in Seq(S), NEW i \in DOMAIN s, NEW r \in Seq(S), DOMAIN r = 1..(Len(s) - 1),
         \A j \in 1..(Len(s) - 1) : r[j] = s[IF j < i THEN j ELSE j + 1]
  PROVE  Taken(r, s, i) /\ Elems(r) \subseteq Elems(s)
<1>1. Len(s) \in Nat /\ DOMAIN s = 1..Len(s) /\ i \in 1..Len(s)
  OBVIOUS
<1>2. Taken(r, s, i)
  <2> DEFINE f == [j \in DOMAIN r |-> IF j < i THEN j ELSE j + 1]
  <2>1. f \in [DOMAIN r -> DOMAIN s \ {i}]
    BY <1>1
  <2>2. \A j \in DOMAIN r : r[j] = s[f[j]]
    BY <1>1
  <2>3. \A j, k \in DOMAIN r : f[j] = f[k] => j = k
    BY <1>1
  <2> HIDE DEF f
  <2> QED
    BY <2>1, <2>2, <2>3 DEF Taken
<1>3. \A j \in DOMAIN r : (IF j < i THEN j ELSE j + 1) \in DOMAIN s
  BY <1>1
<1>4. Elems(r) \subseteq Elems(s)
  BY <1>3 DEF Elems
<1> QED
  BY <1>2, <1>4

LEMMA RemoveTakes ==
  ASSUME NEW S, NEW s \in Seq(S), NEW i \in DOMAIN s
  PROVE  \E r \in Seq(S) : /\ r = SubSeq(s, 1, i - 1) \o SubSeq(s, i + 1, Len(s))
                           /\ Taken(r, s, i) /\ Elems(r) \subseteq Elems(s)
<1>1. Len(s) \in Nat /\ DOMAIN s = 1..Len(s) /\ i \in 1..Len(s) /\ \A j \in 1..Len(s) : s[j] \in S
  OBVIOUS
<1>2. \E a \in Seq(S) : a = SubSeq(s, 1, i - 1) /\ Len(a) = i - 1 /\ \A j \in 1..(i - 1) : a[j] = s[j]
  <2>1. 1 \in Int /\ i - 1 \in Int /\ (\A j \in 1..(i - 1) : s[j] \in S)
    BY <1>1
  <2>2. PICK a : a = SubSeq(s, 1, i - 1)
    OBVIOUS
  <2>3. /\ a \in Seq(S) /\ Len(a) = IF 1 <= i - 1 THEN (i - 1) - 1 + 1 ELSE 0
        /\ \A j \in 1..((i - 1) - 1 + 1) : a[j] = s[1 + j - 1]
    BY <2>1, <2>2, SubSeqProperties
  <2>4. Len(a) = i - 1 /\ \A j \in 1..(i - 1) : a[j] = s[j]
    <3>1. (i - 1) - 1 + 1 = i - 1 /\ i \in Nat /\ i >= 1
      BY <1>1
    <3>2. \A j \in 1..(i - 1) : 1 + j - 1 = j
      BY <3>1
    <3> QED
      BY <2>3, <3>1, <3>2
  <2> QED
    BY <2>2, <2>3, <2>4
<1>3. \E b \in Seq(S) : b = SubSeq(s, i + 1, Len(s)) /\ Len(b) = Len(s) - i /\ \A j \in 1..(Len(s) - i) : b[j] = s[i + j]
  <2>1. i + 1 \in Int /\ Len(s) \in Int /\ (\A j \in (i + 1)..Len(s) : s[j] \in S)
    BY <1>1
  <2>2. PICK b : b = SubSeq(s, i + 1, Len(s))
    OBVIOUS
  <2>3. /\ b \in Seq(S) /\ Len(b) = IF i + 1 <= Len(s) THEN Len(s) - (i + 1) + 1 ELSE 0
        /\ \A j \in 1..(Len(s) - (i + 1) + 1) : b[j] = s[(i + 1) + j - 1]
    BY <2>1, <2>2, SubSeqProperties
  <2>4. Len(b) = Len(s) - i /\ \A j \in 1..(Len(s) - i) : b[j] = s[i + j]
    <3>1. Len(s) - (i + 1) + 1 = Len(s) - i /\ i \in Nat /\ i >= 1 /\ i <= Len(s)
      BY <1>1
    <3>2. \A j \in 1..(Len(s) - i) : (i + 1) + j - 1 = i + j
      BY <3>1
    <3>3. (IF i + 1 <= Len(s) THEN Len(s) - i ELSE 0) = Len(s) - i
      BY <1>1
    <3> QED
      BY <2>3, <3>1, <3>2, <3>3
  <2> QED
    BY <2>2, <2>3, <2>4
<1>4. PICK a \in Seq(S) : a = SubSeq(s, 1, i - 1) /\ Len(a) = i - 1 /\ \A j \in 1..(i - 1) : a[j] = s[j]
  BY <1>2
<1>5. PICK b \in Seq(S) : b = SubSeq(s, i + 1, Len(s)) /\ Len(b) = Len(s) - i /\ \A j \in 1..(Len(s) - i) : b[j] = s[i + j]
  BY <1>3
<1>6. PICK r : r = a \o b
  OBVIOUS
<1>7. /\ r \in Seq(S) /\ Len(r) = Len(a) + Len(b)
      /\ \A j \in 1..(Len(a) + Len(b)) : r[j] = IF j <= Len(a) THEN a[j] ELSE b[j - Len(a)]
  BY <1>6, ConcatProperties
<1>8. DOMAIN r = 1..(Len(s) - 1) /\ \A j \in 1..(Len(s) - 1) : r[j] = s[IF j < i THEN j ELSE j + 1]
  <2>1. a \in Seq(S) /\ Len(a) = i - 1 /\ \A j \in 1..(i - 1) : a[j] = s[j]
    BY <1>4, Zenon
  <2>2. b \in Seq(S) /\ Len(b) = Len(s) - i /\ \A j \in 1..(Len(s) - i) : b[j] = s[i + j]
    BY <1>5, Zenon
  <2>3. i \in Nat /\ i >= 1 /\ i <= Len(s) /\ Len(a) + Len(b) = Len(s) - 1
    BY <1>1, <2>1, <2>2
  <2>4. DOMAIN r = 1..(Len(s) - 1)
    BY <1>7, <2>3
  <2>5. \A j \in 1..(Len(s) - 1) : r[j] = IF j <= i - 1 THEN a[j] ELSE b[j - (i - 1)]
    BY <1>7, <2>1, <2>3
  <2>6. ASSUME NEW j \in 1..(Len(s) - 1) PROVE r[j] = s[IF j < i THEN j ELSE j + 1]
    <3>1. CASE j < i
      <4>1. j \in 1..(i - 1) /\ j <= i - 1
        BY <1>1, <2>3, <3>1
      <4>2. r[j] = a[j] /\ a[j] = s[j]
        BY <2>1, <2>5, <4>1
      <4> QED
        BY <3>1, <4>2
    <3>2. CASE ~(j < i)
      <4>1. j - (i - 1) \in 1..(Len(s) - i) /\ i + (j - (i - 1)) = j + 1 /\ ~(j <= i - 1)
        BY <1>1, <2>3, <3>2
      <4>2. r[j] = b[j - (i - 1)]
        BY <2>5, <4>1
      <4>3. b[j - (i - 1)] = s[i + (j - (i - 1))]
        BY <2>2, <4>1
      <4> QED
        BY <3>2, <4>1, <4>2, <4>3
    <3> QED
      BY <3>1, <3>2
  <2> QED
    BY <2>4, <2>6
<1>9. Taken(r, s, i) /\ Elems(r) \subseteq Elems(s)
  BY <1>7, <1>8, Shifted
<1>10. r \in Seq(S)
  BY <1>7
<1>11. r = SubSeq(s, 1, i - 1) \o SubSeq(s, i + 1, Len(s))
  BY <1>4, <1>5, <1>6, Zenon
<1> QED
  BY <1>9, <1>10, <1>11, Zenon

LEMMA AppendPuts ==
  ASSUME NEW S, NEW s \in Seq(S), NEW x \in S, NEW r, r = Append(s, x)
  PROVE  /\ r \in Seq(S) /\ Elems(r) = Elems(s) \cup {x} /\ r # <<>>
         /\ \A i \in DOMAIN s : i \in DOMAIN r /\ r[i] = s[i]
         /\ \A i \in DOMAIN r : (i \in DOMAIN s /\ r[i] = s[i]) \/ (i \notin DOMAIN s /\ r[i] = x)
         /\ \A i, j \in DOMAIN r : i \notin DOMAIN s /\ j \notin DOMAIN s => i = j
         /\ \E i \in DOMAIN r : i \notin DOMAIN s /\ r[i] = x /\ \A j \in DOMAIN s : j < i
<1>1. /\ r \in Seq(S) /\ Len(s) \in Nat /\ DOMAIN s = 1..Len(s) /\ DOMAIN r = 1..(Len(s) + 1) /\ Len(r) = Len(s) + 1
      /\ \A i \in 1..Len(s) : i \in 1..(Len(s) + 1) /\ r[i] = s[i]
      /\ r[Len(s) + 1] = x /\ Len(s) + 1 \in 1..(Len(s) + 1)
      /\ \A i \in 1..(Len(s) + 1) : i \in 1..Len(s) \/ i = Len(s) + 1
  OBVIOUS
<1>2. Elems(r) = Elems(s) \cup {x}
  <2>1. Elems(r) \subseteq Elems(s) \cup {x}
    BY <1>1 DEF Elems
  <2>2. Elems(s) \subseteq Elems(r)
    BY <1>1 DEF Elems
  <2>3. x \in Elems(r)
    BY <1>1 DEF Elems
  <2> QED
    BY <2>1, <2>2, <2>3
<1>3. Len(s) + 1 \notin DOMAIN s /\ \A j \in DOMAIN s : j < Len(s) + 1
  BY <1>1
<1> QED
  BY <1>1, <1>2, <1>3

LEMMA AppendElems ==
  ASSUME NEW S, NEW s \in Seq(S), NEW x \in S
  PROVE  Elems(Append(s, x)) = Elems(s) \cup {x}
<1>1. PICK r : r = Append(s, x)
  OBVIOUS
<1>2. /\ Len(s) \in Nat /\ DOMAIN s = 1..Len(s) /\ DOMAIN r = 1..(Len(s) + 1)
      /\ \A i \in 1..Len(s) : i \in 1..(Len(s) + 1) /\ r[i] = s[i]
      /\ r[Len(s) + 1] = x /\ Len(s) + 1 \in 1..(Len(s) + 1)
      /\ \A i \in 1..(Len(s) + 1) : i \in 1..Len(s) \/ i = Len(s) + 1
  BY <1>1
<1>3. Elems(r) \subseteq Elems(s) \cup {x}
  BY <1>2 DEF Elems
<1>4. Elems(s) \subseteq Elems(r) /\ x \in Elems(r)
  BY <1>2 DEF Elems
<1>5. Elems(r) = Elems(s) \cup {x}
  BY <1>3, <1>4
<1> QED
  BY <1>1, <1>5

(* What happens to the places of a call.                                    *)
LEMMA TurnCallTaken ==
  ASSUME NEW cs, NEW os, NEW ls, NEW b, OneOf(cs, os, ls, b), NEW i \in DOMAIN cs, NEW r, Taken(r, cs, i)
  PROVE  /\ OneOf(r, os, ls, b) /\ (Out(r, os, ls, b) => Out(cs, os, ls, b))
         /\ cs[i].by = b => ~Out(r, os, ls, b)
<1>1. PICK f \in [DOMAIN r -> DOMAIN cs \ {i}] :
        (\A j \in DOMAIN r : r[j] = cs[f[j]]) /\ \A j, k \in DOMAIN r : f[j] = f[k] => j = k
  BY DEF Taken
<1>2. \A j \in DOMAIN r : f[j] \in DOMAIN cs /\ f[j] # i
  BY <1>1
<1>3. OneOf(r, os, ls, b)
  BY <1>1, <1>2 DEF OneOf
<1>4. Out(r, os, ls, b) => Out(cs, os, ls, b)
  BY <1>1, <1>2 DEF Out
<1>5. cs[i].by = b => ~Out(r, os, ls, b)
  BY <1>1, <1>2 DEF Out, OneOf
<1> QED
  BY <1>3, <1>4, <1>5

LEMMA LineTaken ==
  ASSUME NEW cs, NEW os, NEW ls, NEW b, OneOf(cs, os, ls, b), NEW i \in DOMAIN ls, NEW r, Taken(r, ls, i)
  PROVE  /\ OneOf(cs, os, r, b) /\ (Out(cs, os, r, b) => Out(cs, os, ls, b))
         /\ ls[i].by = b => ~Out(cs, os, r, b)
<1>1. PICK f \in [DOMAIN r -> DOMAIN ls \ {i}] :
        (\A j \in DOMAIN r : r[j] = ls[f[j]]) /\ \A j, k \in DOMAIN r : f[j] = f[k] => j = k
  BY DEF Taken
<1>2. \A j \in DOMAIN r : f[j] \in DOMAIN ls /\ f[j] # i
  BY <1>1
<1>3. OneOf(cs, os, r, b)
  BY <1>1, <1>2 DEF OneOf
<1>4. Out(cs, os, r, b) => Out(cs, os, ls, b)
  BY <1>1, <1>2 DEF Out
<1>5. ls[i].by = b => ~Out(cs, os, r, b)
  BY <1>1, <1>2 DEF Out, OneOf
<1> QED
  BY <1>3, <1>4, <1>5

LEMMA CallPut ==
  ASSUME NEW S, NEW cs \in Seq(S), NEW os, NEW ls, NEW b, OneOf(cs, os, ls, b), NEW c \in S,
         c.by = b => ~Out(cs, os, ls, b)
  PROVE  /\ OneOf(Append(cs, c), os, ls, b)
         /\ Out(Append(cs, c), os, ls, b) => Out(cs, os, ls, b) \/ c.by = b
<1>1. PICK r : r = Append(cs, c)
  OBVIOUS
<1>2. /\ \A i \in DOMAIN r : (i \in DOMAIN cs /\ r[i] = cs[i]) \/ (i \notin DOMAIN cs /\ r[i] = c)
      /\ \A i, j \in DOMAIN r : i \notin DOMAIN cs /\ j \notin DOMAIN cs => i = j
  BY <1>1, AppendPuts
<1>3. OneOf(r, os, ls, b) /\ (Out(r, os, ls, b) => Out(cs, os, ls, b) \/ c.by = b)
  BY <1>2 DEF OneOf, Out
<1> QED
  BY <1>1, <1>3

LEMMA LinePut ==
  ASSUME NEW S, NEW cs, NEW os, NEW ls \in Seq(S), NEW b, OneOf(cs, os, ls, b), NEW l \in S,
         l.by = b => ~Out(cs, os, ls, b)
  PROVE  /\ OneOf(cs, os, Append(ls, l), b)
         /\ Out(cs, os, Append(ls, l), b) => Out(cs, os, ls, b) \/ l.by = b
<1>1. PICK r : r = Append(ls, l)
  OBVIOUS
<1>2. /\ \A i \in DOMAIN r : (i \in DOMAIN ls /\ r[i] = ls[i]) \/ (i \notin DOMAIN ls /\ r[i] = l)
      /\ \A i, j \in DOMAIN r : i \notin DOMAIN ls /\ j \notin DOMAIN ls => i = j
  BY <1>1, AppendPuts
<1>3. OneOf(cs, os, r, b) /\ (Out(cs, os, r, b) => Out(cs, os, ls, b) \/ l.by = b)
  BY <1>2 DEF OneOf, Out
<1> QED
  BY <1>1, <1>3

-----------------------------------------------------------------------------
(* One thread.                                                              *)
LEMMA ThreadTypes ==
  ASSUME WorkTyped, NEW t \in Threads
  PROVE  /\ toChild[t] \in Seq(CallType) /\ pipe[t] \in Seq(LineType)
         /\ owed[t] \subseteq [by : Waiters, n : 0..MaxTurns]
         /\ run[t] \in 0..MaxTurns /\ begun[t] \in 0..MaxTurns /\ active[t] \in 0..MaxTurns
         /\ ended[t] \in 0..MaxTurns /\ ordinary[t] \in BOOLEAN /\ goal[t] \in GoalStatus
         /\ MaxTurns \in Nat
         /\ DOMAIN toChild[t] \subseteq Nat /\ DOMAIN pipe[t] \subseteq Nat
         /\ (\A i \in DOMAIN toChild[t] : toChild[t][i] \in CallType)
         /\ (\A i \in DOMAIN pipe[t] : pipe[t][i] \in LineType)
<1>1. /\ toChild[t] \in Seq(CallType) /\ pipe[t] \in Seq(LineType)
      /\ owed[t] \subseteq [by : Waiters, n : 0..MaxTurns]
      /\ run[t] \in 0..MaxTurns /\ begun[t] \in 0..MaxTurns /\ active[t] \in 0..MaxTurns
      /\ ended[t] \in 0..MaxTurns /\ ordinary[t] \in BOOLEAN /\ goal[t] \in GoalStatus
  BY DEF WorkTyped
<1>2. \A S : \A s \in Seq(S) : DOMAIN s \subseteq Nat /\ \A i \in DOMAIN s : s[i] \in S
  OBVIOUS
<1> QED
  BY <1>1, <1>2, SwitchBarrierAssumption

(* What is asked of a thread stays asked, as long as its asker waits for it.    *)
Stays(t) ==
  /\ \A b \in Awaited : OutNow(t, b) => Waits(t, b)'
  /\ tx.step = "continue" /\ OutNow(t, "main") => tx'.step = "continue"

SameThread(t) ==
  /\ toChild'[t] = toChild[t] /\ pipe'[t] = pipe[t] /\ owed'[t] = owed[t]
  /\ run'[t] = run[t] /\ begun'[t] = begun[t] /\ ordinary'[t] = ordinary[t]
  /\ active'[t] = active[t] /\ ended'[t] = ended[t]

LEMMA ThreadStays ==
  ASSUME WorkInv, NEW t \in Threads, SameThread(t), Stays(t)
  PROVE  ThreadFits(t)'
<1>1. WorkTyped /\ TurnsFit(t) /\ LinesFit(t) /\ KindsFit(t) /\ \A b \in Awaited : OneOut(t, b)
  BY DEF WorkInv, ThreadFits
<1>2. TurnsFit(t)'
  BY <1>1 DEF TurnsFit, SameThread
<1>3. \A o \in owed[t] : Starter(o.by) => Starter(o.by)'
  BY DEF Stays, Starter, OutNow, Out
<1>4. \A i \in DOMAIN pipe[t] : Starter(pipe[t][i].by) => Starter(pipe[t][i].by)'
  <2> SUFFICES ASSUME NEW i \in DOMAIN pipe[t], Starter(pipe[t][i].by) PROVE Starter(pipe[t][i].by)'
    OBVIOUS
  <2>1. PICK b : b = pipe[t][i].by
    OBVIOUS
  <2>2. OutNow(t, b)
    BY <2>1 DEF OutNow, Out
  <2>3. b = "client" \/ (b = "main" /\ tx.step = "continue")
    BY <2>1 DEF Starter
  <2>4. Starter(b)'
    BY <2>2, <2>3 DEF Stays, Starter
  <2>5. pipe'[t] = pipe[t]
    BY DEF SameThread
  <2>6. pipe'[t][i].by = b
    BY <2>1, <2>5
  <2> QED
    BY <2>4, <2>6
<1>5. LinesFit(t)'
  BY <1>1, <1>3, <1>4 DEF LinesFit, SameThread, SaysIdle, SaysRunning
<1>6. \A c \in Elems(toChild[t]) : CallFits(t, c)'
  <2> SUFFICES ASSUME NEW c \in Elems(toChild[t]) PROVE CallFits(t, c)'
    OBVIOUS
  <2>1. CallFits(t, c)
    BY <1>1 DEF KindsFit
  <2>2. PICK i \in DOMAIN toChild[t] : toChild[t][i] = c
    BY DEF Elems
  <2>3. c.kind = "continue" => tx'.step = "continue"
    BY <2>1, <2>2 DEF CallFits, Stays, OutNow, Out
  <2> QED
    BY <2>1, <2>3 DEF CallFits, SameThread
<1>7. KindsFit(t)'
  BY <1>1, <1>3, <1>6 DEF KindsFit, SameThread
<1>8. \A b \in Awaited : OneOut(t, b)'
  BY <1>1 DEF OneOut, OutNow, Stays, SameThread
<1> QED
  BY <1>2, <1>5, <1>7, <1>8 DEF ThreadFits

(* What the shim may make of a line.                                        *)
ReadAs(t, m) ==
  /\ active'[t] \in 0..MaxTurns /\ ended'[t] \in 0..MaxTurns
  /\ active'[t] \in {active[t], m.n} \/ (SaysIdle(m) /\ active'[t] = 0)
  /\ active'[t] = 0 => active[t] = 0 \/ SaysIdle(m)
  /\ m.type = "started" => active'[t] = m.n \/ m.n <= ended[t]
  /\ \/ ended'[t] = ended[t]
     \/ SaysIdle(m) /\ ended'[t] \in {m.n, active[t]}
     \/ m.n # 0 /\ ended'[t] = m.n - 1

LEMMA ReadFits ==
  ASSUME WorkInv, NEW t \in Threads, pipe[t] # <<>>, pipe'[t] = Tail(pipe[t]),
         UNCHANGED <<owed, run, begun, ordinary>>, ReadAs(t, Head(pipe[t])),
         tx.step = "continue" => tx'.step = "continue"
  PROVE  TurnsFit(t)' /\ LinesFit(t)'
<1>1. WorkTyped /\ TurnsFit(t) /\ LinesFit(t)
  BY DEF WorkInv, ThreadFits
<1>2. PICK p \in Seq(LineType) : p = pipe[t]
  BY <1>1, ThreadTypes
<1>3. PICK q : q = Tail(p)
  OBVIOUS
<1>4. PICK m : m = Head(p)
  OBVIOUS
<1>5. /\ q \in Seq(LineType) /\ m = p[1] /\ 1 \in DOMAIN p /\ m \in Elems(p) /\ Elems(q) \subseteq Elems(p)
      /\ DOMAIN p \subseteq Nat /\ \A j \in DOMAIN q : j + 1 \in DOMAIN p /\ q[j] = p[j + 1] /\ j \in Nat /\ 1 < j + 1
      /\ \A j \in DOMAIN p : 1 < j => j - 1 \in DOMAIN q /\ q[j - 1] = p[j]
      /\ \A j \in DOMAIN p : j # 1 => 1 < j
  <2>1. p # <<>>
    BY <1>2
  <2> QED
    BY <1>3, <1>4, <2>1, TailTakes
<1>6. pipe'[t] = q /\ ReadAs(t, m)
  BY <1>2, <1>3, <1>4
<1>7. /\ run[t] \in Nat /\ begun[t] \in Nat /\ active[t] \in Nat /\ ended[t] \in Nat
      /\ active'[t] \in Nat /\ ended'[t] \in Nat
  BY <1>1, <1>6, ThreadTypes DEF ReadAs
<1>8. m \in LineType /\ m.n \in Nat
  <2>1. m \in LineType
    <3>1. \A i \in DOMAIN p : p[i] \in LineType
      BY <1>2
    <3> QED
      BY <1>5, <3>1
  <2> QED
    <3>1. m.n \in 0..MaxTurns
      BY <2>1 DEF LineType
    <3> QED
      BY <1>1, <2>1, <3>1, ThreadTypes
<1>9. m.n <= begun[t] /\ (m.type = "started" \/ m.val \in {"ok", "replaced"} => m.n # 0)
  BY <1>1, <1>2, <1>5 DEF TurnsFit
<1>10. ASSUME run[t] # 0, SaysIdle(m)
       PROVE  active[t] < run[t] /\ m.n < run[t] /\ \E j \in DOMAIN p : 1 < j /\ SaysRunning(t, p[j])
  <2>1. PICK j \in DOMAIN p : 1 < j /\ SaysRunning(t, p[j])
    BY <1>1, <1>2, <1>5, <1>10 DEF LinesFit
  <2>2. active[t] < run[t] /\ p[1].n < run[t]
    BY <1>1, <1>2, <1>5, <1>10, <2>1 DEF LinesFit
  <2> QED
    BY <1>5, <2>1, <2>2
<1>11. active'[t] <= begun[t] /\ ended'[t] <= begun[t]
  BY <1>1, <1>6, <1>7, <1>8, <1>9 DEF TurnsFit, ReadAs
<1>12. run[t] # 0 => ended'[t] < run[t]
  <2> SUFFICES ASSUME run[t] # 0 PROVE ended'[t] < run[t]
    OBVIOUS
  <2>1. run[t] = begun[t] /\ ended[t] < run[t]
    BY <1>1 DEF TurnsFit
  <2>2. CASE SaysIdle(m)
    BY <1>6, <1>7, <1>8, <1>9, <1>10, <2>1, <2>2 DEF ReadAs
  <2>3. CASE ~SaysIdle(m)
    BY <1>6, <1>7, <1>8, <1>9, <2>1, <2>3 DEF ReadAs
  <2> QED
    BY <2>2, <2>3
<1>13. TurnsFit(t)'
  <2>1. \A l \in Elems(q) : l.n <= begun[t] /\ (l.type = "started" \/ l.val \in {"ok", "replaced"} => l.n # 0)
    BY <1>1, <1>2, <1>5 DEF TurnsFit
  <2> QED
    BY <1>1, <1>6, <1>11, <1>12, <2>1 DEF TurnsFit
<1>14. LinesFit(t)'
  <2> SUFFICES ASSUME run[t] # 0 PROVE LinesFit(t)'
    BY DEF LinesFit
  <2>1. active'[t] # 0 \/ \E j \in DOMAIN q : SaysRunning(t, q[j])
    <3>1. CASE SaysIdle(m)
      BY <1>5, <1>10, <3>1
    <3>2. CASE ~SaysIdle(m)
      <4> SUFFICES ASSUME active'[t] = 0 PROVE \E j \in DOMAIN q : SaysRunning(t, q[j])
        OBVIOUS
      <4>1. active[t] = 0
        BY <1>6, <3>2 DEF ReadAs
      <4>2. PICK j \in DOMAIN p : SaysRunning(t, p[j])
        BY <1>1, <1>2, <4>1 DEF LinesFit
      <4>3. j # 1
        <5> SUFFICES ASSUME j = 1 PROVE FALSE
          OBVIOUS
        <5>1. m.type = "started" /\ m.n = run[t]
          BY <1>5, <4>2 DEF SaysRunning
        <5>2. ended[t] < run[t]
          BY <1>1 DEF TurnsFit
        <5> QED
          BY <1>6, <1>7, <5>1, <5>2 DEF ReadAs
      <4> QED
        BY <1>5, <4>2, <4>3
    <3> QED
      BY <3>1, <3>2
  <2>2. ASSUME NEW i \in DOMAIN q, SaysIdle(q[i])
        PROVE  \E j \in DOMAIN q : i < j /\ SaysRunning(t, q[j])
    <3>1. i + 1 \in DOMAIN p /\ SaysIdle(p[i + 1]) /\ i \in Nat
      BY <1>5, <2>2
    <3>2. PICK j \in DOMAIN p : i + 1 < j /\ SaysRunning(t, p[j])
      BY <1>1, <1>2, <3>1 DEF LinesFit
    <3>3. j \in Nat /\ 1 < j /\ i < j - 1
      <4>1. j \in Nat
        BY <1>5, <3>2
      <4> QED
        BY <3>1, <3>2, <4>1
    <3> QED
      BY <1>5, <3>2, <3>3
  <2>3. ASSUME NEW j \in DOMAIN q, SaysRunning(t, q[j])
        PROVE  /\ active'[t] < run[t]
               /\ \A i \in DOMAIN q : i < j => q[i].n < run[t]
               /\ ordinary[t] => \/ \E o \in owed[t] : Starter(o.by)'
                                 \/ \E i \in DOMAIN q : j < i /\ Starter(q[i].by)'
    <3>1. j + 1 \in DOMAIN p /\ SaysRunning(t, p[j + 1]) /\ j \in Nat /\ 1 < j + 1
      BY <1>5, <2>3
    <3>2. /\ active[t] < run[t]
          /\ \A i \in DOMAIN p : i < j + 1 => p[i].n < run[t]
          /\ ordinary[t] => \/ \E o \in owed[t] : Starter(o.by)
                            \/ \E i \in DOMAIN p : j + 1 < i /\ Starter(p[i].by)
      BY <1>1, <1>2, <3>1 DEF LinesFit
    <3>3. m.n < run[t]
      BY <1>5, <3>1, <3>2
    <3>4. active'[t] < run[t]
      BY <1>6, <1>7, <1>8, <3>2, <3>3 DEF ReadAs
    <3>5. \A i \in DOMAIN q : i < j => q[i].n < run[t]
      <4> SUFFICES ASSUME NEW i \in DOMAIN q, i < j PROVE q[i].n < run[t]
        OBVIOUS
      <4>1. i + 1 \in DOMAIN p /\ q[i] = p[i + 1] /\ i + 1 < j + 1
        BY <1>5, <3>1
      <4> QED
        BY <3>2, <4>1
    <3>6. \A b : Starter(b) => Starter(b)'
      BY DEF Starter
    <3>7. ASSUME NEW i \in DOMAIN p, j + 1 < i, Starter(p[i].by)
          PROVE  \E k \in DOMAIN q : j < k /\ Starter(q[k].by)'
      <4>1. i \in Nat /\ 1 < i /\ j < i - 1
        <5>1. i \in Nat
          BY <1>5, <3>7
        <5> QED
          BY <3>1, <3>7, <5>1
      <4>2. i - 1 \in DOMAIN q /\ q[i - 1] = p[i]
        BY <1>5, <4>1
      <4> QED
        BY <3>6, <3>7, <4>1, <4>2
    <3> QED
      BY <3>2, <3>4, <3>5, <3>6, <3>7
  <2> QED
    BY <1>6, <2>1, <2>2, <2>3 DEF LinesFit, SaysIdle, SaysRunning
<1> QED
  BY <1>13, <1>14

(* The call that a line makes the shim write, if any: for who got the line. *)
AsksOn(t, m) ==
  \/ toChild' = toChild
  \/ \E c \in CallType : /\ toChild' = Put(toChild, t, c) /\ CallFits(t, c)'
                         /\ c.by \in Awaited => c.by = m.by /\ Waits(t, c.by)'

LEMMA ReadKeeps ==
  ASSUME WorkInv, NEW t \in Threads, NEW m, m = Head(pipe[t]), pipe[t] # <<>>,
         pipe' = [pipe EXCEPT ![t] = Tail(@)],
         UNCHANGED <<owed, run, begun, ordinary, goal>>,
         active' \in [Threads -> 0..MaxTurns], ended' \in [Threads -> 0..MaxTurns],
         \A u \in Threads : u # t => active'[u] = active[u] /\ ended'[u] = ended[u],
         ReadAs(t, m), AsksOn(t, m),
         \A u \in Threads : \A b \in Awaited : OutNow(u, b) /\ (u # t \/ b # m.by) => Waits(u, b)',
         tx.step = "continue" => tx'.step = "continue"
  PROVE  /\ toChild' \in [Threads -> Seq(CallType)] /\ pipe' \in [Threads -> Seq(LineType)]
         /\ \A u \in Threads : ThreadFits(u)'
<1>1. WorkTyped /\ TurnsFit(t) /\ LinesFit(t) /\ KindsFit(t) /\ \A b \in Awaited : OneOut(t, b)
  BY DEF WorkInv, ThreadFits
<1>2. PICK p \in Seq(LineType) : p = pipe[t]
  BY <1>1, ThreadTypes
<1>3. PICK cs \in Seq(CallType) : cs = toChild[t]
  BY <1>1, ThreadTypes
<1>4. PICK ls : ls = Tail(p)
  OBVIOUS
<1>5. /\ ls \in Seq(LineType) /\ Taken(ls, p, 1) /\ m = p[1] /\ 1 \in DOMAIN p
  <2>1. p # <<>>
    BY <1>2
  <2>2. m = Head(p)
    BY <1>2
  <2> QED
    BY <1>4, <2>1, <2>2, TailTakes
<1>6. pipe'[t] = ls /\ \A u \in Threads : u # t => pipe'[u] = pipe[u]
  BY <1>1, <1>2, <1>4 DEF WorkTyped
<1>7. pipe' \in [Threads -> Seq(LineType)]
  BY <1>1, <1>2, <1>4, <1>5 DEF WorkTyped
<1>8. PICK ds \in Seq(CallType) : ds = toChild'[t]
  <2>1. toChild \in [Threads -> Seq(CallType)]
    BY <1>1 DEF WorkTyped
  <2>2. \A c \in CallType : Append(cs, c) \in Seq(CallType)
    BY <1>3
  <2>3. \A c : Put(toChild, t, c)[t] = Append(cs, c)
    BY <1>3, <2>1 DEF Put
  <2>4. toChild'[t] = cs \/ \E c \in CallType : toChild'[t] = Append(cs, c)
    BY <1>3, <2>3 DEF AsksOn
  <2>5. toChild'[t] \in Seq(CallType)
    BY <1>3, <2>2, <2>4
  <2> QED
    BY <2>5
<1>9. /\ toChild' \in [Threads -> Seq(CallType)] /\ \A u \in Threads : u # t => toChild'[u] = toChild[u]
      /\ \/ ds = cs
         \/ \E c \in CallType : /\ ds = Append(cs, c) /\ CallFits(t, c)'
                                /\ c.by \in Awaited => c.by = m.by /\ Waits(t, c.by)'
  <2>1. CASE toChild' = toChild
    BY <1>1, <1>3, <1>8, <2>1 DEF WorkTyped
  <2>2. CASE toChild' # toChild
    <3>1. PICK c \in CallType : /\ toChild' = Put(toChild, t, c) /\ CallFits(t, c)'
                                /\ c.by \in Awaited => c.by = m.by /\ Waits(t, c.by)'
      BY <2>2 DEF AsksOn
    <3>2. Append(cs, c) \in Seq(CallType)
      OBVIOUS
    <3>3. toChild' = [toChild EXCEPT ![t] = Append(cs, c)]
      BY <1>3, <3>1 DEF Put
    <3>4. toChild' \in [Threads -> Seq(CallType)] /\ ds = Append(cs, c) /\ \A u \in Threads : u # t => toChild'[u] = toChild[u]
      BY <1>1, <1>8, <3>2, <3>3 DEF WorkTyped
    <3> QED
      BY <3>1, <3>4
  <2> QED
    BY <2>1, <2>2
<1>10. TurnsFit(t)' /\ LinesFit(t)'
  <2>1. pipe'[t] = Tail(pipe[t])
    BY <1>2, <1>4, <1>6
  <2> QED
    BY <2>1, ReadFits
<1>11. KindsFit(t)'
  <2>1. \A b : Starter(b) => Starter(b)'
    BY DEF Starter
  <2>2. \A c \in Elems(cs) : CallFits(t, c)'
    BY <1>1, <1>3 DEF KindsFit, CallFits
  <2>3. \A c \in Elems(ds) : CallFits(t, c)'
    <3>1. CASE ds = cs
      BY <2>2, <3>1
    <3>2. CASE ds # cs
      <4>1. PICK c \in CallType : ds = Append(cs, c) /\ CallFits(t, c)'
        BY <1>9, <3>2
      <4>2. cs \in Seq(CallType) /\ c \in CallType /\ ds = Append(cs, c)
        BY <1>3, <4>1
      <4>3. Elems(ds) = Elems(cs) \cup {c}
        BY <4>2, AppendElems
      <4> QED
        BY <2>2, <4>1, <4>3
    <3> QED
      BY <3>1, <3>2
  <2> QED
    BY <1>1, <1>8, <2>1, <2>3 DEF KindsFit
<1>12. ASSUME NEW b \in Awaited PROVE OneOut(t, b)'
  <2>1. OneOf(cs, owed[t], p, b) /\ (Out(cs, owed[t], p, b) => Waits(t, b))
    BY <1>1, <1>2, <1>3 DEF OneOut, OutNow
  <2>2. /\ OneOf(cs, owed[t], ls, b) /\ (Out(cs, owed[t], ls, b) => Out(cs, owed[t], p, b))
        /\ m.by = b => ~Out(cs, owed[t], ls, b)
    BY <1>5, <2>1, LineTaken
  <2>3. Out(cs, owed[t], ls, b) => Waits(t, b)'
    BY <1>2, <1>3, <2>2 DEF OutNow
  <2>4. OneOf(ds, owed[t], ls, b) /\ (Out(ds, owed[t], ls, b) => Waits(t, b)')
    <3>1. CASE ds = cs
      BY <2>2, <2>3, <3>1
    <3>2. CASE ds # cs
      <4>1. PICK c \in CallType : ds = Append(cs, c) /\ (c.by \in Awaited => c.by = m.by /\ Waits(t, c.by)')
        BY <1>9, <3>2
      <4>2. c.by = b => ~Out(cs, owed[t], ls, b) /\ Waits(t, b)'
        BY <2>2, <4>1
      <4>3. OneOf(Append(cs, c), owed[t], ls, b)
            /\ (Out(Append(cs, c), owed[t], ls, b) => Out(cs, owed[t], ls, b) \/ c.by = b)
        BY <2>2, <4>2, CallPut
      <4> QED
        BY <2>3, <4>1, <4>2, <4>3
    <3> QED
      BY <3>1, <3>2
  <2> QED
    BY <1>6, <1>8, <2>4 DEF OneOut, OutNow
<1>13. ASSUME NEW u \in Threads, u # t PROVE ThreadFits(u)'
  <2>1. SameThread(u)
    BY <1>6, <1>9, <1>13 DEF SameThread
  <2>2. Stays(u)
    BY <1>13 DEF Stays
  <2> QED
    BY <2>1, <2>2, ThreadStays
<1> QED
  BY <1>7, <1>9, <1>10, <1>11, <1>12, <1>13 DEF ThreadFits

(* Steps of the shim that read no line.                                     *)
LEMMA AskKeeps ==
  ASSUME WorkInv, UNCHANGED <<pipe, owed, run, begun, ordinary, goal, active, ended>>,
         toChild' \in [Threads -> Seq(CallType)],
         \A u \in Threads : Stays(u),
         \A u \in Threads :
           \/ toChild'[u] = toChild[u]
           \/ \E c \in CallType : /\ toChild'[u] = Append(toChild[u], c) /\ CallFits(u, c)'
                                  /\ c.by \in Awaited => ~OutNow(u, c.by) /\ Waits(u, c.by)'
  PROVE  \A u \in Threads : ThreadFits(u)'
<1> SUFFICES ASSUME NEW u \in Threads PROVE ThreadFits(u)'
  OBVIOUS
<1>1. WorkTyped /\ TurnsFit(u) /\ LinesFit(u) /\ KindsFit(u) /\ \A b \in Awaited : OneOut(u, b)
  BY DEF WorkInv, ThreadFits
<1>2. CASE toChild'[u] = toChild[u]
  <2>1. SameThread(u)
    BY <1>2 DEF SameThread
  <2> QED
    BY <2>1, ThreadStays
<1>3. CASE toChild'[u] # toChild[u]
  <2>1. PICK c \in CallType : /\ toChild'[u] = Append(toChild[u], c) /\ CallFits(u, c)'
                              /\ c.by \in Awaited => ~OutNow(u, c.by) /\ Waits(u, c.by)'
    BY <1>3
  <2>2. PICK cs \in Seq(CallType) : cs = toChild[u]
    BY <1>1, ThreadTypes
  <2>3. PICK ds : ds = Append(cs, c)
    OBVIOUS
  <2>4. toChild'[u] = ds
    BY <2>1, <2>2, <2>3
  <2>5. TurnsFit(u)'
    BY <1>1 DEF TurnsFit
  <2>6. \A o \in owed[u] : Starter(o.by) => Starter(o.by)'
    BY DEF Stays, Starter, OutNow, Out
  <2>7. \A i \in DOMAIN pipe[u] : Starter(pipe[u][i].by) => Starter(pipe[u][i].by)'
    BY DEF Stays, Starter, OutNow, Out
  <2>8. LinesFit(u)'
    BY <1>1, <2>6, <2>7 DEF LinesFit, SaysIdle, SaysRunning
  <2>9. \A d \in Elems(cs) : CallFits(u, d)'
    <3> SUFFICES ASSUME NEW d \in Elems(cs) PROVE CallFits(u, d)'
      OBVIOUS
    <3>1. CallFits(u, d)
      BY <1>1, <2>2 DEF KindsFit
    <3>2. PICK i \in DOMAIN cs : cs[i] = d
      BY DEF Elems
    <3>3. d.kind = "continue" => tx'.step = "continue"
      BY <2>2, <3>1, <3>2 DEF CallFits, Stays, OutNow, Out
    <3> QED
      BY <3>1, <3>3 DEF CallFits
  <2>10. Elems(ds) = Elems(cs) \cup {c}
    <3>1. cs \in Seq(CallType) /\ c \in CallType /\ ds = Append(cs, c)
      BY <2>1, <2>2, <2>3
    <3> QED
      BY <3>1, AppendElems
  <2>11. KindsFit(u)'
    BY <1>1, <2>1, <2>4, <2>6, <2>9, <2>10 DEF KindsFit
  <2>12. ASSUME NEW b \in Awaited PROVE OneOut(u, b)'
    <3>1. OneOf(cs, owed[u], pipe[u], b) /\ (Out(cs, owed[u], pipe[u], b) => Waits(u, b)')
      BY <1>1, <2>2 DEF OneOut, OutNow, Stays
    <3>2. c.by = b => ~Out(cs, owed[u], pipe[u], b) /\ Waits(u, b)'
      BY <2>1, <2>2 DEF OutNow
    <3>3. OneOf(Append(cs, c), owed[u], pipe[u], b)
          /\ (Out(Append(cs, c), owed[u], pipe[u], b) => Out(cs, owed[u], pipe[u], b) \/ c.by = b)
      BY <3>1, <3>2, CallPut
    <3>4. OneOf(ds, owed[u], pipe[u], b) /\ (Out(ds, owed[u], pipe[u], b) => Waits(u, b)')
      BY <2>3, <3>1, <3>2, <3>3
    <3> QED
      BY <2>4, <3>4 DEF OneOut, OutNow
  <2> QED
    BY <2>5, <2>8, <2>11, <2>12 DEF ThreadFits
<1> QED
  BY <1>2, <1>3

(* The answers of some calls are waited for by nobody any more, or by others. *)
LEMMA RelabelKeeps ==
  ASSUME WorkInv, UNCHANGED <<run, begun, ordinary, goal, active, ended>>,
         NEW T, NEW f \in [Waiters -> Waiters], Relabel(T, f),
         f["client"] = "client", \A b \in Waiters : f[b] \in Awaited => f[b] = b,
         tx.step = "continue" => f["main"] = "main" /\ tx'.step = "continue",
         \A u \in Threads : \A b \in Awaited : OutNow(u, b) /\ (u \in T => f[b] = b) => Waits(u, b)'
  PROVE  /\ toChild' \in [Threads -> Seq(CallType)] /\ pipe' \in [Threads -> Seq(LineType)]
         /\ owed' \in [Threads -> SUBSET [by : Waiters, n : 0..MaxTurns]]
         /\ \A u \in Threads : ThreadFits(u)'
<1>1. WorkTyped
  BY DEF WorkInv
<1>2. ASSUME NEW u \in Threads, u \notin T
      PROVE  /\ toChild'[u] \in Seq(CallType) /\ pipe'[u] \in Seq(LineType)
             /\ owed'[u] \subseteq [by : Waiters, n : 0..MaxTurns] /\ ThreadFits(u)'
  <2>1. toChild'[u] = toChild[u] /\ pipe'[u] = pipe[u] /\ owed'[u] = owed[u]
    BY <1>2 DEF Relabel
  <2>2. SameThread(u)
    BY <2>1 DEF SameThread
  <2>3. Stays(u)
    BY <1>2 DEF Stays
  <2>4. ThreadFits(u)'
    BY <2>2, <2>3, ThreadStays
  <2> QED
    BY <1>1, <2>1, <2>4, ThreadTypes
<1>3. ASSUME NEW u \in Threads, u \in T
      PROVE  /\ toChild'[u] \in Seq(CallType) /\ pipe'[u] \in Seq(LineType)
             /\ owed'[u] \subseteq [by : Waiters, n : 0..MaxTurns] /\ ThreadFits(u)'
  <2>1. TurnsFit(u) /\ LinesFit(u) /\ KindsFit(u) /\ \A b \in Awaited : OneOut(u, b)
    BY DEF WorkInv, ThreadFits
  <2>2. PICK cs \in Seq(CallType) : cs = toChild[u]
    BY <1>1, ThreadTypes
  <2>3. PICK p \in Seq(LineType) : p = pipe[u]
    BY <1>1, ThreadTypes
  <2>4. PICK os \in SUBSET [by : Waiters, n : 0..MaxTurns] : os = owed[u]
    BY <1>1, ThreadTypes
  <2>5. PICK ds : ds = [i \in DOMAIN cs |-> [cs[i] EXCEPT !.by = f[@]]]
    OBVIOUS
  <2>6. PICK q : q = [i \in DOMAIN p |-> [p[i] EXCEPT !.by = f[@]]]
    OBVIOUS
  <2>7. PICK ws : ws = {[o EXCEPT !.by = f[@]] : o \in os}
    OBVIOUS
  <2>8. toChild'[u] = ds /\ pipe'[u] = q /\ owed'[u] = ws
    BY <1>3, <2>2, <2>3, <2>4, <2>5, <2>6, <2>7 DEF Relabel
  <2>9. /\ DOMAIN ds = DOMAIN cs
        /\ \A i \in DOMAIN cs : /\ cs[i] \in CallType /\ ds[i] \in CallType
                                /\ ds[i].kind = cs[i].kind /\ ds[i].n = cs[i].n /\ ds[i].by = f[cs[i].by]
    <3>1. \A i \in DOMAIN cs : cs[i] \in CallType
      OBVIOUS
    <3>2. \A c \in CallType : /\ [c EXCEPT !.by = f[@]] \in CallType /\ [c EXCEPT !.by = f[@]].kind = c.kind
                              /\ [c EXCEPT !.by = f[@]].n = c.n /\ [c EXCEPT !.by = f[@]].by = f[c.by]
      BY DEF CallType
    <3> QED
      BY <2>5, <3>1, <3>2
  <2>10. /\ DOMAIN q = DOMAIN p
         /\ \A i \in DOMAIN p : /\ p[i] \in LineType /\ q[i] \in LineType /\ q[i].type = p[i].type
                                /\ q[i].val = p[i].val /\ q[i].n = p[i].n /\ q[i].by = f[p[i].by]
    <3>1. \A i \in DOMAIN p : p[i] \in LineType
      OBVIOUS
    <3>2. \A c \in LineType : /\ [c EXCEPT !.by = f[@]] \in LineType /\ [c EXCEPT !.by = f[@]].type = c.type
                              /\ [c EXCEPT !.by = f[@]].val = c.val
                              /\ [c EXCEPT !.by = f[@]].n = c.n /\ [c EXCEPT !.by = f[@]].by = f[c.by]
      BY DEF LineType
    <3> QED
      BY <2>6, <3>1, <3>2
  <2>11. /\ ws \subseteq [by : Waiters, n : 0..MaxTurns]
         /\ \A w \in ws : \E o \in os : w = [o EXCEPT !.by = f[@]] /\ w.by = f[o.by] /\ w.n = o.n
         /\ \A o \in os : \E w \in ws : w.by = f[o.by]
    <3>1. \A o \in [by : Waiters, n : 0..MaxTurns] :
            /\ [o EXCEPT !.by = f[@]] \in [by : Waiters, n : 0..MaxTurns]
            /\ [o EXCEPT !.by = f[@]].by = f[o.by] /\ [o EXCEPT !.by = f[@]].n = o.n
      OBVIOUS
    <3>2. \A o \in os : o \in [by : Waiters, n : 0..MaxTurns]
      BY <2>4
    <3>3. ASSUME NEW w \in ws
          PROVE  w \in [by : Waiters, n : 0..MaxTurns] /\ \E o \in os : w = [o EXCEPT !.by = f[@]] /\ w.by = f[o.by] /\ w.n = o.n
      <4>1. PICK o \in os : w = [o EXCEPT !.by = f[@]]
        BY <2>7
      <4>2. o \in os /\ o \in [by : Waiters, n : 0..MaxTurns]
        BY <3>2, <4>1
      <4> QED
        BY <3>1, <4>1, <4>2
    <3>4. ASSUME NEW o \in os PROVE \E w \in ws : w.by = f[o.by]
      <4>1. [o EXCEPT !.by = f[@]] \in ws
        BY <2>7
      <4> QED
        BY <3>1, <3>2, <4>1
    <3> QED
      BY <3>3, <3>4
  <2>12. ds \in Seq(CallType)
    <3>1. ds \in [1..Len(cs) -> CallType] /\ Len(cs) \in Nat
      <4>1. DOMAIN cs = 1..Len(cs) /\ Len(cs) \in Nat
        BY <2>2
      <4>2. ds \in [DOMAIN cs -> CallType]
        BY <2>5, <2>9
      <4> QED
        BY <4>1, <4>2
    <3> QED
      BY <3>1
  <2>13. q \in Seq(LineType)
    <3>1. q \in [1..Len(p) -> LineType] /\ Len(p) \in Nat
      <4>1. DOMAIN p = 1..Len(p) /\ Len(p) \in Nat
        BY <2>3
      <4>2. q \in [DOMAIN p -> LineType]
        BY <2>6, <2>10
      <4> QED
        BY <4>1, <4>2
    <3> QED
      <4>1. \A n \in Nat : [1..n -> LineType] \subseteq Seq(LineType)
        OBVIOUS
      <4> QED
        BY <3>1, <4>1
  <2>14. \A b \in Waiters : Starter(b) => f[b] = b /\ Starter(f[b])'
    BY DEF Starter
  <2>15. \A c \in CallType : c.by \in Waiters
    BY DEF CallType
  <2>16. \A c \in LineType : c.by \in Waiters
    BY DEF LineType
  <2>17. TurnsFit(u)'
    <3>1. \A m \in Elems(q) : m.n <= begun[u] /\ (m.type = "started" \/ m.val \in {"ok", "replaced"} => m.n # 0)
      <4>1. \A i \in DOMAIN p : p[i] \in Elems(p)
        BY DEF Elems
      <4>2. \A i \in DOMAIN p : p[i].n <= begun[u] /\ (p[i].type = "started" \/ p[i].val \in {"ok", "replaced"} => p[i].n # 0)
        BY <2>1, <2>3, <4>1 DEF TurnsFit
      <4>3. ASSUME NEW m \in Elems(q) PROVE m.n <= begun[u] /\ (m.type = "started" \/ m.val \in {"ok", "replaced"} => m.n # 0)
        <5>1. PICK i \in DOMAIN q : m = q[i]
          BY <4>3, Zenon DEF Elems
        <5>2. i \in DOMAIN p /\ m.n = p[i].n /\ m.type = p[i].type /\ m.val = p[i].val
          BY <2>10, <5>1
        <5> QED
          BY <4>2, <5>2, Zenon
      <4> QED
        BY <4>3, Zenon
    <3>2. \A o \in ws : o.n # 0 /\ o.n <= begun[u]
      BY <2>1, <2>4, <2>11 DEF TurnsFit
    <3> QED
      BY <2>1, <2>8, <3>1, <3>2 DEF TurnsFit
  <2>18. LinesFit(u)'
    <3> SUFFICES ASSUME run[u] # 0 PROVE LinesFit(u)'
      BY DEF LinesFit
    <3>1. /\ active[u] # 0 \/ \E j \in DOMAIN p : SaysRunning(u, p[j])
          /\ \A i \in DOMAIN p : SaysIdle(p[i]) => \E j \in DOMAIN p : i < j /\ SaysRunning(u, p[j])
          /\ \A j \in DOMAIN p : SaysRunning(u, p[j]) =>
               /\ active[u] < run[u]
               /\ \A i \in DOMAIN p : i < j => p[i].n < run[u]
               /\ ordinary[u] => (\E o \in os : Starter(o.by)) \/ \E i \in DOMAIN p : j < i /\ Starter(p[i].by)
      BY <2>1, <2>3, <2>4 DEF LinesFit
    <3>2. \A i \in DOMAIN p : /\ SaysIdle(q[i]) <=> SaysIdle(p[i])
                              /\ SaysRunning(u, q[i]) <=> SaysRunning(u, p[i])
                              /\ Starter(p[i].by) => Starter(q[i].by)'
      BY <2>10, <2>14, <2>16 DEF SaysIdle, SaysRunning
    <3>3. (\E o \in os : Starter(o.by)) => \E w \in ws : Starter(w.by)'
      <4> SUFFICES ASSUME NEW o \in os, Starter(o.by) PROVE \E w \in ws : Starter(w.by)'
        OBVIOUS
      <4>1. PICK w \in ws : w.by = f[o.by]
        BY <2>11
      <4>2. o.by \in Waiters
        OBVIOUS
      <4>3. Starter(f[o.by])'
        BY <2>14, <4>2
      <4> QED
        BY <4>1, <4>3
    <3>4. /\ active[u] # 0 \/ \E j \in DOMAIN q : SaysRunning(u, q[j])
          /\ \A i \in DOMAIN q : SaysIdle(q[i]) => \E j \in DOMAIN q : i < j /\ SaysRunning(u, q[j])
          /\ \A j \in DOMAIN q : SaysRunning(u, q[j]) =>
               /\ active[u] < run[u]
               /\ \A i \in DOMAIN q : i < j => q[i].n < run[u]
               /\ ordinary[u] => (\E o \in ws : Starter(o.by)') \/ \E i \in DOMAIN q : j < i /\ Starter(q[i].by)'
      BY <2>10, <3>1, <3>2, <3>3
    <3> QED
      BY <2>8, <3>4 DEF LinesFit, SaysIdle, SaysRunning
  <2>19. KindsFit(u)'
    <3>1. ASSUME NEW i \in DOMAIN cs PROVE CallFits(u, ds[i])'
      <4>1. CallFits(u, cs[i])
        BY <2>1, <2>2 DEF KindsFit, Elems
      <4>2. cs[i].by \in Waiters /\ ds[i].kind = cs[i].kind /\ ds[i].n = cs[i].n /\ ds[i].by = f[cs[i].by]
        BY <2>9, <2>15
      <4> QED
        BY <4>1, <4>2 DEF CallFits
    <3>2. \A c \in Elems(ds) : CallFits(u, c)'
      BY <2>9, <3>1 DEF Elems
    <3>3. \A w \in ws : Starter(w.by)'
      <4> SUFFICES ASSUME NEW w \in ws PROVE Starter(w.by)'
        OBVIOUS
      <4>1. PICK o \in os : w.by = f[o.by]
        BY <2>11
      <4>2. Starter(o.by) /\ o.by \in Waiters
        BY <2>1, <2>4 DEF KindsFit
      <4> QED
        BY <2>14, <4>1, <4>2
    <3> QED
      BY <2>8, <3>2, <3>3 DEF KindsFit
  <2>20. ASSUME NEW b \in Awaited PROVE OneOut(u, b)'
    <3>1. OneOf(cs, os, p, b)
      BY <2>1, <2>2, <2>3, <2>4 DEF OneOut
    <3>2. \A i \in DOMAIN ds : ds[i].by = b => i \in DOMAIN cs /\ cs[i].by = b /\ f[b] = b
      BY <2>9, <2>15
    <3>3. \A i \in DOMAIN q : q[i].by = b => i \in DOMAIN p /\ p[i].by = b /\ f[b] = b
      BY <2>10, <2>16
    <3>4. \A w \in ws : w.by = b => \E o \in os : o.by = b /\ w = [o EXCEPT !.by = f[@]] /\ f[b] = b
      <4> SUFFICES ASSUME NEW w \in ws, w.by = b
                   PROVE  \E o \in os : o.by = b /\ w = [o EXCEPT !.by = f[@]] /\ f[b] = b
        OBVIOUS
      <4>1. PICK o \in os : w = [o EXCEPT !.by = f[@]] /\ w.by = f[o.by]
        BY <2>11
      <4>2. o.by \in Waiters
        OBVIOUS
      <4> QED
        BY <4>1, <4>2
    <3>5. OneOf(ds, ws, q, b)
      BY <3>1, <3>2, <3>3, <3>4 DEF OneOf
    <3>6. Out(ds, ws, q, b) => Out(cs, os, p, b) /\ f[b] = b
      BY <3>2, <3>3, <3>4 DEF Out
    <3>7. Out(ds, ws, q, b) => Waits(u, b)'
      BY <2>2, <2>3, <2>4, <3>6 DEF OutNow
    <3> QED
      BY <2>8, <3>5, <3>7 DEF OneOut, OutNow
  <2> QED
    BY <2>8, <2>11, <2>12, <2>13, <2>17, <2>18, <2>19, <2>20 DEF ThreadFits
<1>4. /\ toChild' = [t \in Threads |-> toChild'[t]] /\ pipe' = [t \in Threads |-> pipe'[t]]
      /\ owed' = [t \in Threads |-> owed'[t]]
  BY DEF Relabel
<1>5. \A u \in Threads : /\ toChild'[u] \in Seq(CallType) /\ pipe'[u] \in Seq(LineType)
                         /\ owed'[u] \subseteq [by : Waiters, n : 0..MaxTurns] /\ ThreadFits(u)'
  BY <1>2, <1>3
<1> QED
  BY <1>4, <1>5

-----------------------------------------------------------------------------
(* The child takes a call and answers it, begins a turn for it, or answers later. *)
LEMMA Replied ==
  ASSUME NEW S, NEW cs, NEW os, NEW ls \in Seq(S), NEW b, OneOf(cs, os, ls, b),
         NEW i \in DOMAIN cs, NEW r, Taken(r, cs, i), NEW l \in S, l.by = b => cs[i].by = b
  PROVE  OneOf(r, os, Append(ls, l), b) /\ (Out(r, os, Append(ls, l), b) => Out(cs, os, ls, b))
<1>1. /\ OneOf(r, os, ls, b) /\ (Out(r, os, ls, b) => Out(cs, os, ls, b))
      /\ cs[i].by = b => ~Out(r, os, ls, b)
  BY TurnCallTaken
<1>2. OneOf(r, os, Append(ls, l), b) /\ (Out(r, os, Append(ls, l), b) => Out(r, os, ls, b) \/ l.by = b)
  BY <1>1, LinePut
<1>3. cs[i].by = b => Out(cs, os, ls, b)
  BY DEF Out
<1> QED
  BY <1>1, <1>2, <1>3

LEMMA BegunFor ==
  ASSUME NEW cs, NEW os, NEW ls, NEW b, OneOf(cs, os, ls, b),
         NEW i \in DOMAIN cs, NEW r, Taken(r, cs, i), NEW o, o.by = b => cs[i].by = b
  PROVE  OneOf(r, os \cup {o}, ls, b) /\ (Out(r, os \cup {o}, ls, b) => Out(cs, os, ls, b))
<1>1. /\ OneOf(r, os, ls, b) /\ (Out(r, os, ls, b) => Out(cs, os, ls, b))
      /\ cs[i].by = b => ~Out(r, os, ls, b)
  BY TurnCallTaken
<1>2. OneOf(r, os \cup {o}, ls, b) /\ (Out(r, os \cup {o}, ls, b) => Out(r, os, ls, b) \/ o.by = b)
  BY <1>1 DEF OneOf, Out
<1>3. cs[i].by = b => Out(cs, os, ls, b)
  BY DEF Out
<1> QED
  BY <1>1, <1>2, <1>3

LEMMA AnsweredLater ==
  ASSUME NEW S, NEW cs, NEW os, NEW ls \in Seq(S), NEW b, OneOf(cs, os, ls, b),
         NEW o \in os, NEW l \in S, l.by = o.by
  PROVE  OneOf(cs, os \ {o}, Append(ls, l), b) /\ (Out(cs, os \ {o}, Append(ls, l), b) => Out(cs, os, ls, b))
<1>1. /\ OneOf(cs, os \ {o}, ls, b) /\ (Out(cs, os \ {o}, ls, b) => Out(cs, os, ls, b))
      /\ l.by = b => ~Out(cs, os \ {o}, ls, b) /\ Out(cs, os, ls, b)
  BY DEF OneOf, Out
<1>2. OneOf(cs, os \ {o}, Append(ls, l), b)
      /\ (Out(cs, os \ {o}, Append(ls, l), b) => Out(cs, os \ {o}, ls, b) \/ l.by = b)
  BY <1>1, LinePut
<1> QED
  BY <1>1, <1>2

(* The child moves one thread only, and asks nobody for anything.           *)
OneThread(t) ==
  /\ UNCHANGED <<submitted, prep, rec, tx, active, ended>>
  /\ \A u \in Threads : u # t =>
       /\ toChild'[u] = toChild[u] /\ pipe'[u] = pipe[u] /\ owed'[u] = owed[u]
       /\ run'[u] = run[u] /\ begun'[u] = begun[u] /\ ordinary'[u] = ordinary[u]
Places(t) ==
  \A b \in Awaited : /\ OneOf(toChild'[t], owed'[t], pipe'[t], b)
                     /\ Out(toChild'[t], owed'[t], pipe'[t], b) => OutNow(t, b)

LEMMA ChildKeeps ==
  ASSUME WorkInv, NEW t \in Threads, OneThread(t), TurnsFit(t)', LinesFit(t)', KindsFit(t)', Places(t)
  PROVE  \A u \in Threads : ThreadFits(u)'
<1>1. \A u \in Threads : \A b \in Awaited : OneOut(u, b)
  BY DEF WorkInv, ThreadFits
<1>2. \A u \in Threads : \A b \in Awaited : Waits(u, b) => Waits(u, b)'
  BY DEF OneThread, Waits
<1>3. ASSUME NEW u \in Threads, u # t PROVE ThreadFits(u)'
  <2>1. SameThread(u)
    BY <1>3 DEF OneThread, SameThread
  <2>2. Stays(u)
    BY <1>1, <1>2 DEF Stays, OneThread, OneOut
  <2> QED
    BY <2>1, <2>2, ThreadStays
<1>4. \A b \in Awaited : OneOut(t, b)'
  BY <1>1, <1>2 DEF Places, OneOut, OutNow
<1> QED
  BY <1>3, <1>4 DEF ThreadFits

(* One more line, that says neither that a turn runs nor, while one does, that none does. *)
LEMMA LineFits ==
  ASSUME WorkInv, NEW t \in Threads, OneThread(t), NEW l \in LineType, pipe'[t] = Append(pipe[t], l),
         run'[t] = run[t], begun'[t] = begun[t], ordinary'[t] = ordinary[t],
         l.n <= begun[t], l.val \in {"ok", "replaced"} => l.n # 0, l.type = "reply",
         SaysIdle(l) => run[t] = 0, owed'[t] \subseteq owed[t],
         \A o \in owed[t] : o \in owed'[t] \/ l.by = o.by
  PROVE  TurnsFit(t)' /\ LinesFit(t)'
<1>1. WorkTyped /\ TurnsFit(t) /\ LinesFit(t)
  BY DEF WorkInv, ThreadFits
<1>2. PICK p \in Seq(LineType) : p = pipe[t]
  BY <1>1, ThreadTypes
<1>3. PICK q : q = Append(p, l)
  OBVIOUS
<1>4. /\ Elems(q) = Elems(p) \cup {l}
      /\ \A i \in DOMAIN p : i \in DOMAIN q /\ q[i] = p[i]
      /\ \A i \in DOMAIN q : (i \in DOMAIN p /\ q[i] = p[i]) \/ (i \notin DOMAIN p /\ q[i] = l)
      /\ \E i \in DOMAIN q : i \notin DOMAIN p /\ q[i] = l /\ \A j \in DOMAIN p : j < i
  <2>1. p \in Seq(LineType) /\ l \in LineType
    BY <1>2
  <2>2. Elems(q) = Elems(p) \cup {l}
    BY <1>3, <2>1, AppendElems
  <2> QED
    BY <1>3, <2>1, <2>2, AppendPuts
<1>5. pipe'[t] = q
  BY <1>2, <1>3
<1>6. active'[t] = active[t] /\ ended'[t] = ended[t] /\ tx' = tx
  BY DEF OneThread
<1>7. TurnsFit(t)'
  <2>1. \A m \in Elems(q) : m.n <= begun[t] /\ (m.type = "started" \/ m.val \in {"ok", "replaced"} => m.n # 0)
    BY <1>1, <1>2, <1>4 DEF TurnsFit
  <2> QED
    BY <1>1, <1>5, <1>6, <2>1 DEF TurnsFit
<1>8. ASSUME run[t] # 0
      PROVE  /\ active[t] # 0 \/ \E j \in DOMAIN q : SaysRunning(t, q[j])
             /\ \A i \in DOMAIN q : SaysIdle(q[i]) => \E j \in DOMAIN q : i < j /\ SaysRunning(t, q[j])
             /\ \A j \in DOMAIN q : SaysRunning(t, q[j]) =>
                  /\ active[t] < run[t]
                  /\ \A i \in DOMAIN q : i < j => q[i].n < run[t]
                  /\ ordinary[t] => (\E o \in owed'[t] : Starter(o.by)) \/ \E i \in DOMAIN q : j < i /\ Starter(q[i].by)
  <2>1. /\ active[t] # 0 \/ \E j \in DOMAIN p : SaysRunning(t, p[j])
        /\ \A i \in DOMAIN p : SaysIdle(p[i]) => \E j \in DOMAIN p : i < j /\ SaysRunning(t, p[j])
        /\ \A j \in DOMAIN p : SaysRunning(t, p[j]) =>
             /\ active[t] < run[t]
             /\ \A i \in DOMAIN p : i < j => p[i].n < run[t]
             /\ ordinary[t] => (\E o \in owed[t] : Starter(o.by)) \/ \E i \in DOMAIN p : j < i /\ Starter(p[i].by)
    BY <1>1, <1>2, <1>8 DEF LinesFit
  <2>2. ~SaysIdle(l) /\ ~SaysRunning(t, l)
    BY <1>8 DEF SaysRunning
  <2>3. \A i \in DOMAIN q : SaysIdle(q[i]) \/ SaysRunning(t, q[i]) => i \in DOMAIN p /\ q[i] = p[i]
    BY <1>4, <2>2
  <2>4. \A i \in DOMAIN q : SaysIdle(q[i]) => \E j \in DOMAIN q : i < j /\ SaysRunning(t, q[j])
    BY <1>4, <2>1, <2>3
  <2>5. ASSUME NEW j \in DOMAIN q, SaysRunning(t, q[j])
        PROVE  /\ active[t] < run[t]
               /\ \A i \in DOMAIN q : i < j => q[i].n < run[t]
               /\ ordinary[t] => (\E o \in owed'[t] : Starter(o.by)) \/ \E i \in DOMAIN q : j < i /\ Starter(q[i].by)
    <3>1. j \in DOMAIN p /\ SaysRunning(t, p[j])
      BY <2>3, <2>5
    <3>2. \A i \in DOMAIN q : i < j => i \in DOMAIN p
      <4>1. PICK k \in DOMAIN q : k \notin DOMAIN p /\ q[k] = l /\ \A i \in DOMAIN p : i < k
        BY <1>4
      <4>2. j < k
        BY <3>1, <4>1
      <4>3. \A i \in DOMAIN q : i \notin DOMAIN p => i = k
        BY <1>3, <4>1, AppendPuts
      <4>4. DOMAIN p \subseteq Nat /\ DOMAIN q \subseteq Nat
        BY <1>1, <1>2, <1>3, ThreadTypes
      <4> QED
        BY <3>1, <4>1, <4>2, <4>3, <4>4
    <3>3. \A i \in DOMAIN q : i < j => q[i].n < run[t]
      BY <1>4, <2>1, <3>1, <3>2
    <3>4. ASSUME NEW o \in owed[t], Starter(o.by)
          PROVE  (\E w \in owed'[t] : Starter(w.by)) \/ \E i \in DOMAIN q : j < i /\ Starter(q[i].by)
      BY <1>4, <3>1, <3>4
    <3>5. ASSUME NEW i \in DOMAIN p, j < i, Starter(p[i].by) PROVE \E k \in DOMAIN q : j < k /\ Starter(q[k].by)
      BY <1>4, <3>5
    <3> QED
      BY <2>1, <3>1, <3>3, <3>4, <3>5
  <2> QED
    BY <1>4, <2>1, <2>4, <2>5
<1>9. LinesFit(t)'
  BY <1>5, <1>6, <1>8 DEF LinesFit, SaysIdle, SaysRunning, Starter
<1> QED
  BY <1>7, <1>9

-----------------------------------------------------------------------------
(* What the child's steps do to one thread.                                 *)
ChildTyped ==
  /\ toChild \in [Threads -> Seq(CallType)] /\ pipe \in [Threads -> Seq(LineType)]
  /\ owed \in [Threads -> SUBSET [by : Waiters, n : 0..MaxTurns]]
  /\ run \in [Threads -> 0..MaxTurns] /\ begun \in [Threads -> 0..MaxTurns]
  /\ ordinary \in [Threads -> BOOLEAN] /\ goal \in [Threads -> GoalStatus]

(* A step of the child keeps the invariant when it keeps what it does on its thread. *)
LEMMA ChildStepKeeps ==
  ASSUME WorkInv, NEW t \in Threads, OneThread(t), recQ' = recQ, ChildTyped', LoginQuiet',
         TurnsFit(t)', LinesFit(t)', KindsFit(t)', Places(t)
  PROVE  WorkInv'
<1>1. \A u \in Threads : ThreadFits(u)'
  BY ChildKeeps
<1>2. WorkTyped'
  BY DEF WorkInv, WorkTyped, ChildTyped, OneThread
<1>3. PrepOnce' /\ NothingSubmitted'
  BY DEF WorkInv, PrepOnce, AtRecovery, NothingSubmitted, OneThread
<1> QED
  BY <1>1, <1>2, <1>3 DEF WorkInv

(* A turn begins, and the child says so.                                    *)
LEMMA TurnBegins ==
  ASSUME WorkInv, NEW t \in Threads, OneThread(t), NEW n, n = begun[t] + 1, n <= MaxTurns,
         run'[t] = n, begun'[t] = n, NEW l \in LineType, l.type = "started", l.n = n, ~SaysIdle(l),
         pipe'[t] = Append(pipe[t], l),
         \A o \in owed'[t] : o \in owed[t] \/ o.n = n,
         ordinary'[t] => \E o \in owed'[t] : Starter(o.by)
  PROVE  TurnsFit(t)' /\ LinesFit(t)'
<1>1. WorkTyped /\ TurnsFit(t)
  BY DEF WorkInv, ThreadFits
<1>2. PICK p \in Seq(LineType) : p = pipe[t]
  BY <1>1, ThreadTypes
<1>3. PICK q : q = Append(p, l)
  OBVIOUS
<1>4. p \in Seq(LineType) /\ l \in LineType
  BY <1>2
<1>5. /\ \A i \in DOMAIN p : i \in DOMAIN q /\ q[i] = p[i]
      /\ \A i \in DOMAIN q : (i \in DOMAIN p /\ q[i] = p[i]) \/ (i \notin DOMAIN p /\ q[i] = l)
      /\ \A i, j \in DOMAIN q : i \notin DOMAIN p /\ j \notin DOMAIN p => i = j
      /\ \E i \in DOMAIN q : i \notin DOMAIN p /\ q[i] = l /\ \A j \in DOMAIN p : j < i
  BY <1>3, <1>4, AppendPuts
<1>6. pipe'[t] = q
  BY <1>2, <1>3
<1>7. active'[t] = active[t] /\ ended'[t] = ended[t] /\ tx' = tx
  BY DEF OneThread
<1>8. begun[t] \in Nat /\ active[t] \in Nat /\ ended[t] \in Nat /\ n \in Nat /\ n # 0
  BY <1>1, ThreadTypes
<1>9. active[t] <= begun[t] /\ ended[t] <= begun[t] /\ (\A o \in owed[t] : o.n # 0 /\ o.n <= begun[t])
  BY <1>1 DEF TurnsFit
<1>10. \A i \in DOMAIN p : /\ p[i].n <= begun[t] /\ p[i].n \in Nat
                           /\ p[i].type = "started" \/ p[i].val \in {"ok", "replaced"} => p[i].n # 0
  <2>1. \A i \in DOMAIN p : p[i] \in Elems(p) /\ p[i] \in LineType
    BY <1>2 DEF Elems
  <2>2. \A m \in LineType : m.n \in 0..MaxTurns
    BY DEF LineType
  <2>3. \A i \in DOMAIN p : p[i].n \in Nat
    BY <2>1, <2>2
  <2> QED
    BY <1>1, <1>2, <2>1, <2>3 DEF TurnsFit
<1>11. \A o \in owed[t] : o.n \in Nat
  BY <1>1, ThreadTypes
<1>12. TurnsFit(t)'
  <2>1. \A i \in DOMAIN q : q[i].n <= n /\ (q[i].type = "started" \/ q[i].val \in {"ok", "replaced"} => q[i].n # 0)
    <3> SUFFICES ASSUME NEW i \in DOMAIN q
                 PROVE  q[i].n <= n /\ (q[i].type = "started" \/ q[i].val \in {"ok", "replaced"} => q[i].n # 0)
      OBVIOUS
    <3>1. CASE i \in DOMAIN p /\ q[i] = p[i]
      BY <1>8, <1>10, <3>1
    <3>2. CASE q[i] = l
      BY <1>8, <3>2
    <3> QED
      BY <1>5, <3>1, <3>2
  <2>2. \A m \in Elems(q) : m.n <= n /\ (m.type = "started" \/ m.val \in {"ok", "replaced"} => m.n # 0)
    BY <2>1 DEF Elems
  <2>3. \A o \in owed'[t] : o.n # 0 /\ o.n <= n
    BY <1>8, <1>9, <1>11
  <2>4. active[t] <= n /\ ended[t] <= n /\ ended[t] < n
    BY <1>8, <1>9
  <2> QED
    BY <1>6, <1>7, <2>2, <2>3, <2>4 DEF TurnsFit
<1>13. PICK k \in DOMAIN q : k \notin DOMAIN p /\ q[k] = l /\ \A j \in DOMAIN p : j < k
  BY <1>5
<1>14. \A i \in DOMAIN q : i = k \/ (i \in DOMAIN p /\ q[i] = p[i] /\ i < k)
  BY <1>5, <1>13
<1>15. DOMAIN q \subseteq Nat
  <2>1. \A s \in Seq(LineType) : DOMAIN s \subseteq Nat
    OBVIOUS
  <2>2. q \in Seq(LineType)
    BY <1>3, <1>4
  <2> QED
    BY <2>1, <2>2
<1>16. \A j \in DOMAIN q : q[j].type = "started" /\ q[j].n = n => j = k
  BY <1>8, <1>10, <1>14
<1>17. \A i \in DOMAIN q : i < k => q[i].n < n
  <2> SUFFICES ASSUME NEW i \in DOMAIN q, i < k PROVE q[i].n < n
    OBVIOUS
  <2>1. i \in DOMAIN p /\ q[i] = p[i]
    BY <1>13, <1>14, <1>15
  <2> QED
    BY <1>8, <1>10, <2>1
<1>18. LinesFit(t)'
  <2>1. \A i \in DOMAIN q : SaysIdle(q[i]) => i < k /\ k \in DOMAIN q
    BY <1>13, <1>14
  <2>2. q[k].type = "started" /\ q[k].n = n
    BY <1>13
  <2>3. active[t] < n
    BY <1>8, <1>9
  <2>4. \A j \in DOMAIN q : SaysRunning(t, q[j])' => j = k
    BY <1>16 DEF SaysRunning
  <2>5. SaysRunning(t, q[k])'
    BY <2>2 DEF SaysRunning
  <2>6. ordinary'[t] => \E o \in owed'[t] : Starter(o.by)'
    BY <1>7 DEF Starter
  <2>7. /\ \E j \in DOMAIN q : SaysRunning(t, q[j])'
        /\ \A i \in DOMAIN q : SaysIdle(q[i]) => \E j \in DOMAIN q : i < j /\ SaysRunning(t, q[j])'
        /\ \A j \in DOMAIN q : SaysRunning(t, q[j])' =>
             /\ active[t] < n
             /\ \A i \in DOMAIN q : i < j => q[i].n < n
             /\ ordinary'[t] => (\E o \in owed'[t] : Starter(o.by)')
    BY <1>13, <1>17, <2>1, <2>3, <2>4, <2>5, <2>6
  <2> QED
    BY <1>6, <1>7, <2>7 DEF LinesFit, SaysIdle
<1> QED
  BY <1>12, <1>18

(* The child takes a call and answers it.                                   *)
LEMMA ChildReplies ==
  ASSUME WorkInv, NEW t \in Threads, NEW i \in DOMAIN toChild[t], NEW r \in Seq(CallType),
         toChild' = [toChild EXCEPT ![t] = r], Taken(r, toChild[t], i), Elems(r) \subseteq Elems(toChild[t]),
         NEW l \in LineType, pipe' = Put(pipe, t, l), l.type = "reply", l.by = toChild[t][i].by,
         l.n <= begun[t], l.val \in {"ok", "replaced"} => l.n # 0, SaysIdle(l) => run[t] = 0,
         UNCHANGED <<owed, run, begun, ordinary, submitted, prep, rec, tx, active, ended, recQ>>,
         goal' \in [Threads -> GoalStatus]
  PROVE  WorkInv'
<1>1. WorkTyped /\ KindsFit(t) /\ LoginQuiet /\ \A b \in Awaited : OneOut(t, b)
  BY DEF WorkInv, ThreadFits
<1>2. pipe \in [Threads -> Seq(LineType)] /\ toChild \in [Threads -> Seq(CallType)]
  BY <1>1 DEF WorkTyped
<1>3. /\ pipe' \in [Threads -> Seq(LineType)] /\ pipe'[t] = Append(pipe[t], l)
      /\ \A u \in Threads : u # t => pipe'[u] = pipe[u]
  <2>1. PICK p \in Seq(LineType) : p = pipe[t]
    BY <1>2
  <2>2. Append(p, l) \in Seq(LineType)
    OBVIOUS
  <2>3. pipe' = [pipe EXCEPT ![t] = Append(p, l)]
    BY <2>1 DEF Put
  <2> QED
    BY <1>2, <2>1, <2>2, <2>3
<1>4. toChild' \in [Threads -> Seq(CallType)] /\ toChild'[t] = r /\ \A u \in Threads : u # t => toChild'[u] = toChild[u]
  BY <1>2
<1>5. OneThread(t)
  BY <1>3, <1>4 DEF OneThread
<1>6. TurnsFit(t)' /\ LinesFit(t)'
  BY <1>3, <1>5, LineFits
<1>7. KindsFit(t)'
  BY <1>1, <1>4 DEF KindsFit, CallFits, Starter
<1>8. Places(t)
  <2> SUFFICES ASSUME NEW b \in Awaited
               PROVE  /\ OneOf(toChild'[t], owed'[t], pipe'[t], b)
                      /\ Out(toChild'[t], owed'[t], pipe'[t], b) => OutNow(t, b)
    BY DEF Places
  <2>1. PICK p \in Seq(LineType) : p = pipe[t]
    BY <1>2
  <2>2. PICK cs : cs = toChild[t]
    OBVIOUS
  <2>3. OneOf(cs, owed[t], p, b) /\ i \in DOMAIN cs /\ Taken(r, cs, i) /\ (l.by = b => cs[i].by = b)
    BY <1>1, <2>1, <2>2 DEF OneOut
  <2>4. OneOf(r, owed[t], Append(p, l), b) /\ (Out(r, owed[t], Append(p, l), b) => Out(cs, owed[t], p, b))
    BY <2>1, <2>3, Replied
  <2>5. pipe'[t] = Append(p, l) /\ owed'[t] = owed[t]
    BY <1>3, <2>1
  <2> QED
    BY <1>4, <2>1, <2>2, <2>4, <2>5 DEF OutNow
<1>9. LoginQuiet'
  BY <1>1 DEF LoginQuiet
<1>10. ChildTyped'
  BY <1>1, <1>3, <1>4 DEF WorkTyped, ChildTyped
<1> QED
  BY <1>5, <1>6, <1>7, <1>8, <1>9, <1>10, ChildStepKeeps

-----------------------------------------------------------------------------
(* The child takes the call at the head of a thread.                        *)
LEMMA TakesHead ==
  ASSUME WorkInv, NEW t \in Threads, NEW kinds, Takes(t, kinds)
  PROVE  \E r \in Seq(CallType) :
           /\ toChild' = [toChild EXCEPT ![t] = r] /\ Taken(r, toChild[t], 1) /\ Elems(r) \subseteq Elems(toChild[t])
           /\ 1 \in DOMAIN toChild[t] /\ Head(toChild[t]) = toChild[t][1]
           /\ Head(toChild[t]) \in CallType /\ CallFits(t, Head(toChild[t])) /\ Head(toChild[t]).kind \in kinds
<1>1. WorkTyped /\ KindsFit(t)
  BY DEF WorkInv, ThreadFits
<1>2. PICK cs \in Seq(CallType) : cs = toChild[t]
  BY <1>1, ThreadTypes
<1>3. cs # <<>> /\ Head(cs).kind \in kinds
  BY <1>2 DEF Takes
<1>4. PICK r : r = Tail(cs)
  OBVIOUS
<1>5. /\ r \in Seq(CallType) /\ Taken(r, cs, 1) /\ Head(cs) = cs[1] /\ 1 \in DOMAIN cs
      /\ Head(cs) \in Elems(cs) /\ Elems(r) \subseteq Elems(cs)
  BY <1>3, <1>4, TailTakes
<1>6. toChild' = [toChild EXCEPT ![t] = r]
  BY <1>2, <1>4 DEF Takes
<1>7. CallFits(t, Head(cs))
  BY <1>1, <1>2, <1>5 DEF KindsFit
<1>8. Head(cs) \in CallType
  <2>1. \A i \in DOMAIN cs : cs[i] \in CallType
    BY <1>2
  <2> QED
    BY <1>5, <2>1
<1> QED
  BY <1>2, <1>3, <1>5, <1>6, <1>7, <1>8

LEMMA ReplyFields ==
  ASSUME NEW by, NEW val, NEW n
  PROVE  /\ Reply(by, val, n).type = "reply" /\ Reply(by, val, n).by = by
         /\ Reply(by, val, n).val = val /\ Reply(by, val, n).n = n
         /\ by \in Waiters /\ n \in 0..MaxTurns
            /\ val \in GoalStatus \cup {"ok", "refused", "error", "missing", "inactive", "replaced"}
            => Reply(by, val, n) \in LineType
BY DEF Reply, LineType

LEMMA BeganLine ==
  ASSUME NEW n \in 0..MaxTurns, NEW l, l = Note("started", "", n)
  PROVE  l \in LineType /\ l.type = "started" /\ l.n = n /\ l.by = "stale" /\ ~SaysIdle(l)
BY DEF Note, LineType, Waiters, SaysIdle

LEMMA EndedLine ==
  ASSUME NEW n \in 0..MaxTurns, NEW val \in {"done", "cutOff"}, NEW l, l = Note("ended", val, n)
  PROVE  l \in LineType /\ l.type = "ended" /\ l.n = n /\ l.by = "stale" /\ l.val = val
BY DEF Note, LineType, Waiters

(* One call of the child that it only answers.                              *)
LEMMA TakesAndReplies ==
  ASSUME WorkInv, NEW t \in Threads, NEW kinds, Takes(t, kinds), NEW c, c = Head(toChild[t]),
         NEW val \in {"refused", "error", "inactive", "replaced"}, NEW n \in 0..MaxTurns, n <= begun[t],
         val = "replaced" => n # 0, val = "inactive" => run[t] = 0,
         pipe' = Put(pipe, t, Reply(c.by, val, n)),
         UNCHANGED <<owed, run, begun, ordinary, goal, submitted, prep, rec, tx, active, ended, recQ>>
  PROVE  WorkInv'
<1>1. PICK r \in Seq(CallType) :
           /\ toChild' = [toChild EXCEPT ![t] = r] /\ Taken(r, toChild[t], 1) /\ Elems(r) \subseteq Elems(toChild[t])
           /\ 1 \in DOMAIN toChild[t] /\ Head(toChild[t]) = toChild[t][1]
           /\ Head(toChild[t]) \in CallType /\ CallFits(t, Head(toChild[t])) /\ Head(toChild[t]).kind \in kinds
  BY TakesHead
<1>2. PICK l : l = Reply(c.by, val, n)
  OBVIOUS
<1>3. c.by \in Waiters
  BY <1>1 DEF CallType
<1>4. l \in LineType /\ l.type = "reply" /\ l.by = c.by /\ l.val = val /\ l.n = n
  BY <1>2, <1>3, ReplyFields
<1>5. SaysIdle(l) => run[t] = 0
  BY <1>4 DEF SaysIdle
<1>6. l.val \in {"ok", "replaced"} => l.n # 0
  BY <1>4
<1>7. goal' \in [Threads -> GoalStatus]
  BY DEF WorkInv, WorkTyped
<1>8. pipe' = Put(pipe, t, l) /\ l.by = toChild[t][1].by
  BY <1>1, <1>2, <1>4
<1> QED
  BY <1>1, <1>4, <1>5, <1>6, <1>7, <1>8, ChildReplies

LEMMA PipePut ==
  ASSUME WorkInv, NEW t \in Threads, NEW l \in LineType, pipe' = Put(pipe, t, l)
  PROVE  /\ pipe' \in [Threads -> Seq(LineType)] /\ pipe'[t] = Append(pipe[t], l)
         /\ \A u \in Threads : u # t => pipe'[u] = pipe[u]
<1>1. pipe \in [Threads -> Seq(LineType)]
  BY DEF WorkInv, WorkTyped
<1>2. PICK p \in Seq(LineType) : p = pipe[t]
  BY <1>1
<1>3. Append(p, l) \in Seq(LineType)
  OBVIOUS
<1>4. pipe' = [pipe EXCEPT ![t] = Append(p, l)]
  BY <1>2 DEF Put
<1> QED
  BY <1>1, <1>2, <1>3, <1>4

LEMMA StartWork ==
  ASSUME WorkInv, NEW t \in Threads, ChildStart(t)
  PROVE  WorkInv'
<1>1. PICK c : c = Head(toChild[t])
  OBVIOUS
<1>2. Takes(t, {"start", "continue"})
  BY DEF ChildStart
<1>3. UNCHANGED <<goal, submitted, prep, rec, tx, active, ended, recQ>>
  BY DEF ChildStart, tableVars, switchVars
<1>4. CASE /\ pipe' = Put(pipe, t, Reply(c.by, "refused", 0)) /\ UNCHANGED <<run, begun, ordinary, owed>>
  <2>1. 0 \in 0..MaxTurns /\ 0 <= begun[t]
    <3>1. begun[t] \in 0..MaxTurns /\ MaxTurns \in Nat
      BY ThreadTypes DEF WorkInv
    <3> QED
      BY <3>1
  <2> QED
    BY <1>1, <1>2, <1>3, <1>4, <2>1, TakesAndReplies
<1>5. CASE /\ run[t] = 0 /\ begun[t] < MaxTurns
           /\ run' = [run EXCEPT ![t] = begun[t] + 1]
           /\ begun' = [begun EXCEPT ![t] = begun[t] + 1]
           /\ ordinary' = [ordinary EXCEPT ![t] = TRUE]
           /\ pipe' = Put(pipe, t, Note("started", "", begun[t] + 1))
           /\ owed' = [owed EXCEPT ![t] = @ \cup {[by |-> c.by, n |-> begun[t] + 1]}]
  <2>1. PICK r \in Seq(CallType) :
           /\ toChild' = [toChild EXCEPT ![t] = r] /\ Taken(r, toChild[t], 1) /\ Elems(r) \subseteq Elems(toChild[t])
           /\ 1 \in DOMAIN toChild[t] /\ c = toChild[t][1]
           /\ c \in CallType /\ CallFits(t, c) /\ c.kind \in {"start", "continue"}
    BY <1>1, <1>2, TakesHead
  <2>2. WorkTyped /\ TurnsFit(t) /\ KindsFit(t) /\ LoginQuiet /\ \A b \in Awaited : OneOut(t, b)
    BY DEF WorkInv, ThreadFits
  <2>3. PICK n : n = begun[t] + 1
    OBVIOUS
  <2>4. n \in 0..MaxTurns /\ n <= MaxTurns /\ begun[t] \in Nat /\ begun[t] < n
    <3>1. begun[t] \in 0..MaxTurns /\ MaxTurns \in Nat
      BY <2>2, ThreadTypes
    <3>2. begun[t] < MaxTurns
      BY <1>5, Zenon
    <3> QED
      BY <2>3, <3>1, <3>2
  <2>5. PICK l : l = Note("started", "", n)
    OBVIOUS
  <2>6. l \in LineType /\ l.type = "started" /\ l.n = n /\ l.by = "stale" /\ ~SaysIdle(l)
    BY <2>4, <2>5, BeganLine
  <2>7. PICK o : o = [by |-> c.by, n |-> n]
    OBVIOUS
  <2>8. /\ o \in [by : Waiters, n : 0..MaxTurns] /\ o.by = c.by /\ o.n = n
    BY <2>1, <2>4, <2>7 DEF CallType
  <2>9. /\ pipe' \in [Threads -> Seq(LineType)] /\ pipe'[t] = Append(pipe[t], l)
        /\ \A u \in Threads : u # t => pipe'[u] = pipe[u]
    <3>1. pipe' = Put(pipe, t, l)
      BY <1>5, <2>3, <2>5
    <3> QED
      BY <2>6, <3>1, PipePut
  <2>10. /\ toChild' \in [Threads -> Seq(CallType)] /\ toChild'[t] = r
         /\ \A u \in Threads : u # t => toChild'[u] = toChild[u]
    BY <2>1, <2>2 DEF WorkTyped
  <2>11. /\ owed' \in [Threads -> SUBSET [by : Waiters, n : 0..MaxTurns]] /\ owed'[t] = owed[t] \cup {o}
         /\ \A u \in Threads : u # t => owed'[u] = owed[u]
    <3>1. owed' = [owed EXCEPT ![t] = owed[t] \cup {o}]
      BY <1>5, <2>3, <2>7
    <3>2. owed \in [Threads -> SUBSET [by : Waiters, n : 0..MaxTurns]]
      BY <2>2 DEF WorkTyped
    <3>3. owed[t] \cup {o} \in SUBSET [by : Waiters, n : 0..MaxTurns]
      BY <2>8, <3>2
    <3> QED
      BY <3>1, <3>2, <3>3
  <2>12. /\ run' \in [Threads -> 0..MaxTurns] /\ begun' \in [Threads -> 0..MaxTurns]
         /\ ordinary' \in [Threads -> BOOLEAN] /\ run'[t] = n /\ begun'[t] = n /\ ordinary'[t]
         /\ \A u \in Threads : u # t => run'[u] = run[u] /\ begun'[u] = begun[u] /\ ordinary'[u] = ordinary[u]
    BY <1>5, <2>2, <2>3, <2>4 DEF WorkTyped
  <2>13. OneThread(t)
    BY <1>3, <2>9, <2>10, <2>11, <2>12 DEF OneThread
  <2>14. ChildTyped'
    BY <1>3, <2>2, <2>9, <2>10, <2>11, <2>12 DEF WorkTyped, ChildTyped
  <2>15. Starter(c.by)
    BY <2>1 DEF CallFits, Starter
  <2>16. TurnsFit(t)' /\ LinesFit(t)'
    <3>1. \A w \in owed'[t] : w \in owed[t] \/ w.n = n
      BY <2>8, <2>11
    <3>2. \E w \in owed'[t] : Starter(w.by)
      BY <2>8, <2>11, <2>15
    <3> QED
      BY <2>3, <2>4, <2>6, <2>9, <2>12, <2>13, <3>1, <3>2, TurnBegins
  <2>17. KindsFit(t)'
    <3>1. \A d \in Elems(r) : CallFits(t, d)'
      <4> SUFFICES ASSUME NEW d \in Elems(r) PROVE CallFits(t, d)'
        OBVIOUS
      <4>1. CallFits(t, d)
        BY <2>1, <2>2 DEF KindsFit
      <4>2. d.n \in Nat
        <5>1. \A cs \in Seq(CallType) : \A e \in Elems(cs) : e \in CallType
          BY DEF Elems
        <5>2. \A e \in CallType : e.n \in 0..MaxTurns
          BY DEF CallType
        <5> QED
          BY <2>1, <5>1, <5>2
      <4> QED
        BY <1>3, <2>4, <2>12, <4>1, <4>2 DEF CallFits
    <3>2. \A w \in owed'[t] : Starter(w.by)'
      BY <1>3, <2>2, <2>8, <2>11, <2>15 DEF KindsFit, Starter
    <3> QED
      BY <2>10, <3>1, <3>2 DEF KindsFit
  <2>18. Places(t)
    <3> SUFFICES ASSUME NEW b \in Awaited
                 PROVE  /\ OneOf(toChild'[t], owed'[t], pipe'[t], b)
                        /\ Out(toChild'[t], owed'[t], pipe'[t], b) => OutNow(t, b)
      BY DEF Places
    <3>1. PICK p \in Seq(LineType) : p = pipe[t]
      BY <2>2, ThreadTypes
    <3>2. OneOf(toChild[t], owed[t], p, b)
      BY <2>2, <3>1 DEF OneOut
    <3>3. OneOf(r, owed[t] \cup {o}, p, b) /\ (Out(r, owed[t] \cup {o}, p, b) => Out(toChild[t], owed[t], p, b))
      BY <2>1, <2>8, <3>2, BegunFor
    <3>4. l.by # b
      BY <2>6 DEF Awaited
    <3>5. /\ OneOf(r, owed[t] \cup {o}, Append(p, l), b)
          /\ Out(r, owed[t] \cup {o}, Append(p, l), b) => Out(r, owed[t] \cup {o}, p, b) \/ l.by = b
      BY <2>6, <3>3, <3>4, LinePut
    <3> QED
      BY <2>9, <2>10, <2>11, <3>1, <3>3, <3>4, <3>5 DEF OutNow
  <2>19. tx.step # "login"
    <3> SUFFICES ASSUME tx.step = "login" PROVE FALSE
      OBVIOUS
    <3>1. c.by = "client"
      BY <2>1 DEF CallFits
    <3>2. OutNow(t, "client")
      BY <2>1, <3>1 DEF OutNow, Out
    <3>3. t \in submitted
      BY <2>2, <3>2 DEF OneOut, Awaited, Waits
    <3> QED
      BY <3>3 DEF WorkInv, NothingSubmitted
  <2>20. LoginQuiet'
    BY <1>3, <2>19 DEF LoginQuiet
  <2> QED
    BY <1>3, <2>13, <2>14, <2>16, <2>17, <2>18, <2>20, ChildStepKeeps
<1> QED
  BY <1>1, <1>4, <1>5 DEF ChildStart

LEMMA AnswerWork ==
  ASSUME WorkInv, NEW t \in Threads, ChildAnswer(t)
  PROVE  WorkInv'
<1>1. UNCHANGED <<toChild, run, begun, ordinary, goal, submitted, prep, rec, tx, active, ended, recQ>>
  BY DEF ChildAnswer, tableVars, switchVars
<1>2. PICK o \in owed[t] : /\ owed' = [owed EXCEPT ![t] = @ \ {o}]
                           /\ pipe' = Put(pipe, t, Reply(o.by, "ok", o.n))
  BY DEF ChildAnswer
<1>3. WorkTyped /\ TurnsFit(t) /\ KindsFit(t) /\ LoginQuiet /\ \A b \in Awaited : OneOut(t, b)
  BY DEF WorkInv, ThreadFits
<1>4. o \in owed[t] /\ o.by \in Waiters /\ o.n \in 0..MaxTurns /\ o.n # 0 /\ o.n <= begun[t]
  <2>1. o \in [by : Waiters, n : 0..MaxTurns]
    BY <1>2, <1>3, ThreadTypes
  <2> QED
    BY <1>2, <1>3, <2>1 DEF TurnsFit
<1>5. PICK l : l = Reply(o.by, "ok", o.n)
  OBVIOUS
<1>6. l \in LineType /\ l.type = "reply" /\ l.by = o.by /\ l.val = "ok" /\ l.n = o.n
  BY <1>4, <1>5, ReplyFields
<1>7. /\ pipe' \in [Threads -> Seq(LineType)] /\ pipe'[t] = Append(pipe[t], l)
      /\ \A u \in Threads : u # t => pipe'[u] = pipe[u]
  <2>1. pipe' = Put(pipe, t, l)
    BY <1>2, <1>5
  <2> QED
    BY <1>6, <2>1, PipePut
<1>8. /\ owed' \in [Threads -> SUBSET [by : Waiters, n : 0..MaxTurns]] /\ owed'[t] = owed[t] \ {o}
      /\ \A u \in Threads : u # t => owed'[u] = owed[u]
  <2>1. owed \in [Threads -> SUBSET [by : Waiters, n : 0..MaxTurns]]
    BY <1>3 DEF WorkTyped
  <2>2. owed' = [owed EXCEPT ![t] = owed[t] \ {o}]
    BY <1>2
  <2> QED
    BY <2>1, <2>2
<1>9. OneThread(t)
  BY <1>1, <1>7, <1>8 DEF OneThread
<1>10. TurnsFit(t)' /\ LinesFit(t)'
  <2>1. ~SaysIdle(l)
    BY <1>6 DEF SaysIdle
  <2>2. owed'[t] \subseteq owed[t] /\ \A w \in owed[t] : w \in owed'[t] \/ l.by = w.by
    BY <1>6, <1>8
  <2>3. run'[t] = run[t] /\ begun'[t] = begun[t] /\ ordinary'[t] = ordinary[t]
    BY <1>1
  <2>4. l.n <= begun[t] /\ l.n # 0
    BY <1>4, <1>6
  <2> QED
    BY <1>6, <1>7, <1>9, <2>1, <2>2, <2>3, <2>4, LineFits
<1>11. KindsFit(t)'
  BY <1>1, <1>3, <1>8 DEF KindsFit, CallFits, Starter
<1>12. Places(t)
  <2> SUFFICES ASSUME NEW b \in Awaited
               PROVE  /\ OneOf(toChild'[t], owed'[t], pipe'[t], b)
                      /\ Out(toChild'[t], owed'[t], pipe'[t], b) => OutNow(t, b)
    BY DEF Places
  <2>1. PICK p \in Seq(LineType) : p = pipe[t]
    BY <1>3, ThreadTypes
  <2>2. OneOf(toChild[t], owed[t], p, b)
    BY <1>3, <2>1 DEF OneOut
  <2>3. /\ OneOf(toChild[t], owed[t] \ {o}, Append(p, l), b)
        /\ Out(toChild[t], owed[t] \ {o}, Append(p, l), b) => Out(toChild[t], owed[t], p, b)
    BY <1>4, <1>6, <2>2, AnsweredLater
  <2> QED
    BY <1>1, <1>7, <1>8, <2>1, <2>3 DEF OutNow
<1>13. LoginQuiet'
  BY <1>1, <1>3 DEF LoginQuiet
<1>14. ChildTyped'
  BY <1>1, <1>3, <1>7, <1>8 DEF WorkTyped, ChildTyped
<1> QED
  BY <1>1, <1>9, <1>10, <1>11, <1>12, <1>13, <1>14, ChildStepKeeps

(* A line that is nobody's answer.                                          *)
LEMMA NotePlaces ==
  ASSUME WorkInv, NEW t \in Threads, NEW l \in LineType, l.by = "stale",
         pipe'[t] = Append(pipe[t], l), toChild'[t] = toChild[t], owed'[t] = owed[t]
  PROVE  Places(t)
<1>1. WorkTyped /\ \A b \in Awaited : OneOut(t, b)
  BY DEF WorkInv, ThreadFits
<1> SUFFICES ASSUME NEW b \in Awaited
             PROVE  /\ OneOf(toChild'[t], owed'[t], pipe'[t], b)
                    /\ Out(toChild'[t], owed'[t], pipe'[t], b) => OutNow(t, b)
  BY DEF Places
<1>2. PICK p \in Seq(LineType) : p = pipe[t]
  BY <1>1, ThreadTypes
<1>3. OneOf(toChild[t], owed[t], p, b)
  BY <1>1, <1>2 DEF OneOut
<1>4. l.by # b
  BY DEF Awaited
<1>5. /\ OneOf(toChild[t], owed[t], Append(p, l), b)
      /\ Out(toChild[t], owed[t], Append(p, l), b) => Out(toChild[t], owed[t], p, b) \/ l.by = b
  BY <1>3, <1>4, LinePut
<1> QED
  BY <1>2, <1>4, <1>5 DEF OutNow

(* The turn that ran is over: the lines need only be numbered.              *)
LEMMA TurnOver ==
  ASSUME WorkInv, NEW t \in Threads, OneThread(t), run'[t] = 0, begun'[t] = begun[t], owed'[t] = owed[t],
         \A m \in Elems(pipe'[t]) :
           m \in Elems(pipe[t])
           \/ (m.n <= begun[t] /\ (m.type = "started" \/ m.val \in {"ok", "replaced"} => m.n # 0))
  PROVE  TurnsFit(t)' /\ LinesFit(t)'
<1>1. TurnsFit(t) /\ active'[t] = active[t] /\ ended'[t] = ended[t]
  BY DEF WorkInv, ThreadFits, OneThread
<1>2. TurnsFit(t)'
  BY <1>1 DEF TurnsFit
<1>3. LinesFit(t)'
  BY DEF LinesFit
<1> QED
  BY <1>2, <1>3

LEMMA FinishWork ==
  ASSUME WorkInv, NEW t \in Threads, ChildFinish(t)
  PROVE  WorkInv'
<1>1. UNCHANGED <<toChild, owed, begun, ordinary, submitted, prep, rec, tx, active, ended, recQ>>
  BY DEF ChildFinish, tableVars, switchVars
<1>2. WorkTyped /\ TurnsFit(t) /\ KindsFit(t) /\ LoginQuiet
  BY DEF WorkInv, ThreadFits
<1>3. run[t] \in 0..MaxTurns /\ run[t] # 0 /\ run[t] <= begun[t] /\ MaxTurns \in Nat
  <2>1. run[t] \in 0..MaxTurns /\ begun[t] \in 0..MaxTurns /\ MaxTurns \in Nat
    BY <1>2, ThreadTypes
  <2> QED
    BY <1>2, <2>1 DEF ChildFinish, TurnsFit
<1>4. PICK l : l = Note("ended", "done", run[t])
  OBVIOUS
<1>5. l \in LineType /\ l.type = "ended" /\ l.n = run[t] /\ l.by = "stale" /\ l.val = "done"
  BY <1>3, <1>4, EndedLine
<1>6. /\ pipe' \in [Threads -> Seq(LineType)] /\ pipe'[t] = Append(pipe[t], l)
      /\ \A u \in Threads : u # t => pipe'[u] = pipe[u]
  <2>1. pipe' = Put(pipe, t, l)
    BY <1>4 DEF ChildFinish
  <2> QED
    BY <1>5, <2>1, PipePut
<1>7. /\ run' \in [Threads -> 0..MaxTurns] /\ run'[t] = 0
      /\ \A u \in Threads : u # t => run'[u] = run[u]
  BY <1>2, <1>3 DEF WorkTyped, ChildFinish
<1>8. goal' \in [Threads -> GoalStatus]
  BY <1>2 DEF WorkTyped, ChildFinish, GoalStatus
<1>9. OneThread(t)
  BY <1>1, <1>6, <1>7 DEF OneThread
<1>10. TurnsFit(t)' /\ LinesFit(t)'
  <2>1. PICK p \in Seq(LineType) : p = pipe[t]
    BY <1>2, ThreadTypes
  <2>2. Elems(pipe'[t]) = Elems(p) \cup {l}
    BY <1>5, <1>6, <2>1, AppendElems
  <2>3. \A m \in Elems(pipe'[t]) :
          m \in Elems(pipe[t]) \/ (m.n <= begun[t] /\ (m.type = "started" \/ m.val \in {"ok", "replaced"} => m.n # 0))
    BY <1>3, <1>5, <2>1, <2>2
  <2> QED
    BY <1>1, <1>7, <1>9, <2>3, TurnOver
<1>11. KindsFit(t)'
  BY <1>1, <1>2 DEF KindsFit, CallFits, Starter
<1>12. Places(t)
  BY <1>1, <1>5, <1>6, NotePlaces
<1>13. LoginQuiet'
  BY <1>1, <1>2, <1>7 DEF LoginQuiet
<1>14. ChildTyped'
  BY <1>1, <1>2, <1>6, <1>7, <1>8 DEF WorkTyped, ChildTyped
<1> QED
  BY <1>1, <1>9, <1>10, <1>11, <1>12, <1>13, <1>14, ChildStepKeeps

LEMMA GoalTurnWork ==
  ASSUME WorkInv, NEW t \in Threads, ChildGoalTurn(t)
  PROVE  WorkInv'
<1>1. UNCHANGED <<toChild, owed, goal, submitted, prep, rec, tx, active, ended, recQ>>
  BY DEF ChildGoalTurn, tableVars, switchVars
<1>2. WorkTyped /\ TurnsFit(t) /\ KindsFit(t) /\ LoginQuiet
  BY DEF WorkInv, ThreadFits
<1>3. PICK n : n = begun[t] + 1
  OBVIOUS
<1>4. n \in 0..MaxTurns /\ n <= MaxTurns /\ begun[t] \in Nat /\ begun[t] < n
  <2>1. begun[t] \in 0..MaxTurns /\ MaxTurns \in Nat
    BY <1>2, ThreadTypes
  <2>2. begun[t] < MaxTurns
    BY Zenon DEF ChildGoalTurn
  <2> QED
    BY <1>3, <2>1, <2>2
<1>5. PICK l : l = Note("started", "", n)
  OBVIOUS
<1>6. l \in LineType /\ l.type = "started" /\ l.n = n /\ l.by = "stale" /\ ~SaysIdle(l)
  BY <1>4, <1>5, BeganLine
<1>7. /\ pipe' \in [Threads -> Seq(LineType)] /\ pipe'[t] = Append(pipe[t], l)
      /\ \A u \in Threads : u # t => pipe'[u] = pipe[u]
  <2>1. pipe' = Put(pipe, t, l)
    BY <1>3, <1>5 DEF ChildGoalTurn
  <2> QED
    BY <1>6, <2>1, PipePut
<1>8. /\ run' \in [Threads -> 0..MaxTurns] /\ begun' \in [Threads -> 0..MaxTurns]
      /\ ordinary' \in [Threads -> BOOLEAN] /\ run'[t] = n /\ begun'[t] = n /\ ~ordinary'[t]
      /\ \A u \in Threads : u # t => run'[u] = run[u] /\ begun'[u] = begun[u] /\ ordinary'[u] = ordinary[u]
  <2>1. /\ run' = [run EXCEPT ![t] = n] /\ begun' = [begun EXCEPT ![t] = n]
        /\ ordinary' = [ordinary EXCEPT ![t] = FALSE]
    BY <1>3, Zenon DEF ChildGoalTurn
  <2> QED
    BY <1>2, <1>4, <2>1 DEF WorkTyped
<1>9. OneThread(t)
  BY <1>1, <1>7, <1>8 DEF OneThread
<1>10. TurnsFit(t)' /\ LinesFit(t)'
  <2>1. \A w \in owed'[t] : w \in owed[t] \/ w.n = n
    BY <1>1
  <2> QED
    BY <1>3, <1>4, <1>6, <1>7, <1>8, <1>9, <2>1, TurnBegins
<1>11. KindsFit(t)'
  <2>1. \A d \in Elems(toChild[t]) : CallFits(t, d)'
    <3> SUFFICES ASSUME NEW d \in Elems(toChild[t]) PROVE CallFits(t, d)'
      OBVIOUS
    <3>1. CallFits(t, d)
      BY <1>2 DEF KindsFit
    <3>2. d.n \in Nat
      <4>1. \A cs \in Seq(CallType) : \A e \in Elems(cs) : e \in CallType
        BY DEF Elems
      <4>2. \A e \in CallType : e.n \in 0..MaxTurns
        BY DEF CallType
      <4> QED
        BY <1>2, <4>1, <4>2, ThreadTypes
    <3> QED
      BY <1>1, <1>4, <1>8, <3>1, <3>2 DEF CallFits
  <2> QED
    BY <1>1, <1>2, <2>1 DEF KindsFit, Starter
<1>12. Places(t)
  BY <1>1, <1>6, <1>7, NotePlaces
<1>13. LoginQuiet'
  BY <1>1, <1>2, <1>8 DEF LoginQuiet
<1>14. ChildTyped'
  BY <1>1, <1>2, <1>7, <1>8 DEF WorkTyped, ChildTyped
<1> QED
  BY <1>1, <1>9, <1>10, <1>11, <1>12, <1>13, <1>14, ChildStepKeeps

LEMMA GoalCallWork ==
  ASSUME WorkInv, NEW t \in Threads, ChildGoalCall(t)
  PROVE  WorkInv'
<1>1. UNCHANGED <<owed, run, begun, ordinary, submitted, prep, rec, tx, active, ended, recQ>>
  BY DEF ChildGoalCall, tableVars, switchVars
<1>2. WorkTyped /\ KindsFit(t)
  BY DEF WorkInv, ThreadFits
<1>3. PICK cs \in Seq(CallType) : cs = toChild[t]
  BY <1>2, ThreadTypes
<1>4. PICK i \in 1..Len(cs) :
        /\ TakesGoalCall(t, i)
        /\ \/ pipe' = Put(pipe, t, Reply(cs[i].by, goal[t], 0)) /\ goal' = goal
           \/ pipe' = Put(pipe, t, Reply(cs[i].by, "paused", 0)) /\ goal' = [goal EXCEPT ![t] = "paused"]
           \/ pipe' = Put(pipe, t, Reply(cs[i].by, "active", 0)) /\ goal' = [goal EXCEPT ![t] = "active"]
           \/ pipe' = Put(pipe, t, Reply(cs[i].by, "error", 0)) /\ goal' = goal
           \/ run[t] = 0 /\ pipe' = Put(pipe, t, Reply(cs[i].by, "missing", 0)) /\ goal' = goal
  BY <1>3, Zenon DEF ChildGoalCall
<1>5. i \in DOMAIN cs /\ cs[i] \in CallType /\ cs[i].by \in Waiters
  <2>1. i \in DOMAIN cs
    BY <1>3, <1>4
  <2>2. \A j \in DOMAIN cs : cs[j] \in CallType
    BY <1>3
  <2> QED
    BY <2>1, <2>2 DEF CallType
<1>6. PICK r \in Seq(CallType) : /\ r = SubSeq(cs, 1, i - 1) \o SubSeq(cs, i + 1, Len(cs))
                                 /\ Taken(r, cs, i) /\ Elems(r) \subseteq Elems(cs)
  BY <1>5, RemoveTakes
<1>7. toChild' = [toChild EXCEPT ![t] = r]
  <2>1. toChild' = [toChild EXCEPT ![t] = SubSeq(cs, 1, i - 1) \o SubSeq(cs, i + 1, Len(cs))]
    BY <1>3, <1>4, Zenon DEF TakesGoalCall
  <2>2. r = SubSeq(cs, 1, i - 1) \o SubSeq(cs, i + 1, Len(cs))
    BY <1>6
  <2> QED
    BY <2>1, <2>2, Zenon
<1>8. goal[t] \in GoalStatus /\ goal \in [Threads -> GoalStatus] /\ 0 \in 0..MaxTurns /\ 0 <= begun[t]
  <2>1. begun[t] \in 0..MaxTurns /\ MaxTurns \in Nat /\ goal[t] \in GoalStatus
    BY <1>2, ThreadTypes
  <2>2. goal \in [Threads -> GoalStatus]
    BY <1>2 DEF WorkTyped
  <2> QED
    BY <2>1, <2>2
<1>9. PICK val \in GoalStatus \cup {"error", "missing"} :
        /\ pipe' = Put(pipe, t, Reply(cs[i].by, val, 0)) /\ goal' \in [Threads -> GoalStatus]
        /\ val = "missing" => run[t] = 0
  <2>1. CASE pipe' = Put(pipe, t, Reply(cs[i].by, goal[t], 0)) /\ goal' = goal
    <3>1. goal[t] # "missing"
      BY <1>8 DEF GoalStatus
    <3> QED
      BY <1>8, <2>1, <3>1
  <2>2. CASE pipe' = Put(pipe, t, Reply(cs[i].by, "paused", 0)) /\ goal' = [goal EXCEPT ![t] = "paused"]
    <3>1. "paused" \in GoalStatus /\ "paused" # "missing"
      BY DEF GoalStatus
    <3> QED
      BY <1>8, <2>2, <3>1
  <2>3. CASE pipe' = Put(pipe, t, Reply(cs[i].by, "active", 0)) /\ goal' = [goal EXCEPT ![t] = "active"]
    <3>1. "active" \in GoalStatus /\ "active" # "missing"
      BY DEF GoalStatus
    <3> QED
      BY <1>8, <2>3, <3>1
  <2>4. CASE pipe' = Put(pipe, t, Reply(cs[i].by, "error", 0)) /\ goal' = goal
    BY <1>8, <2>4
  <2>5. CASE run[t] = 0 /\ pipe' = Put(pipe, t, Reply(cs[i].by, "missing", 0)) /\ goal' = goal
    BY <1>8, <2>5
  <2> QED
    BY <1>4, <2>1, <2>2, <2>3, <2>4, <2>5
<1>10. PICK l : l = Reply(cs[i].by, val, 0)
  OBVIOUS
<1>11. l \in LineType /\ l.type = "reply" /\ l.by = cs[i].by /\ l.val = val /\ l.n = 0
  BY <1>5, <1>8, <1>9, <1>10, ReplyFields
<1>12. SaysIdle(l) => run[t] = 0
  BY <1>9, <1>11 DEF SaysIdle, GoalStatus
<1>13. l.val \in {"ok", "replaced"} => l.n # 0
  BY <1>9, <1>11 DEF GoalStatus
<1>14. pipe' = Put(pipe, t, l) /\ goal' \in [Threads -> GoalStatus]
  BY <1>9, <1>10
<1>15. i \in DOMAIN toChild[t] /\ Taken(r, toChild[t], i) /\ Elems(r) \subseteq Elems(toChild[t]) /\ l.by = toChild[t][i].by
  BY <1>3, <1>5, <1>6, <1>11
<1>16. r \in Seq(CallType)
  BY <1>6
<1> QED
  BY <1>1, <1>7, <1>8, <1>11, <1>12, <1>13, <1>14, <1>15, <1>16, ChildReplies

(* Two lines at once.                                                       *)
LEMMA PairAppended ==
  ASSUME NEW S, NEW l \in S, NEW m \in S
  PROVE  Append(<<l>>, m) = <<l, m>>
<1>1. /\ <<l>> \in Seq(S) /\ Len(<<l>>) = 1 /\ <<l>>[1] = l /\ <<l, m>> \in Seq(S) /\ Len(<<l, m>>) = 2
      /\ <<l, m>>[1] = l /\ <<l, m>>[2] = m
  OBVIOUS
<1>2. PICK a \in Seq(S) : a = Append(<<l>>, m)
  BY <1>1, AppendProperties
<1>3. Len(a) = 2 /\ a[1] = l /\ a[2] = m
  BY <1>1, <1>2, AppendProperties
<1>4. PICK b \in Seq(S) : b = <<l, m>>
  BY <1>1
<1>5. Len(b) = 2 /\ b[1] = l /\ b[2] = m
  BY <1>1, <1>4
<1>6. a = b
  BY <1>3, <1>5, SeqEqual
<1> QED
  BY <1>2, <1>4, <1>6

LEMMA BothLines ==
  ASSUME NEW S, NEW s \in Seq(S), NEW l \in S, NEW m \in S
  PROVE  /\ s \o <<l, m>> = Append(Append(s, l), m)
         /\ Append(Append(s, l), m) \in Seq(S) /\ Elems(Append(Append(s, l), m)) = Elems(s) \cup {l, m}
<1>1. PICK k \in Seq(S) : k = Append(s, l)
  BY AppendProperties
<1>2. Elems(k) = Elems(s) \cup {l}
  <2>1. Elems(Append(s, l)) = Elems(s) \cup {l}
    BY AppendElems
  <2> QED
    BY <1>1, <2>1
<1>3. Elems(Append(k, m)) = Elems(k) \cup {m} /\ Append(k, m) \in Seq(S)
  <2>1. k \in Seq(S)
    BY <1>1
  <2> QED
    BY <2>1, AppendElems, AppendProperties
<1>4. k = s \o <<l>> /\ Append(k, m) = k \o <<m>>
  BY <1>1, AppendIsConcat
<1>5. <<l>> \in Seq(S) /\ <<m>> \in Seq(S)
  OBVIOUS
<1>6. (s \o <<l>>) \o <<m>> = s \o (<<l>> \o <<m>>)
  BY <1>5, ConcatAssociative
<1>7. Append(<<l>>, m) = <<l>> \o <<m>>
  BY <1>5, AppendIsConcat
<1>8. Append(<<l>>, m) = <<l, m>>
  BY PairAppended
<1>9. s \o <<l, m>> = Append(k, m)
  BY <1>4, <1>6, <1>7, <1>8, Zenon
<1> QED
  BY <1>1, <1>2, <1>3, <1>9

LEMMA InterruptWork ==
  ASSUME WorkInv, NEW t \in Threads, ChildInterrupt(t)
  PROVE  WorkInv'
<1>1. PICK c : c = Head(toChild[t])
  OBVIOUS
<1>2. Takes(t, {"interrupt"})
  BY DEF ChildInterrupt
<1>3. UNCHANGED <<owed, begun, ordinary, goal, submitted, prep, rec, tx, active, ended, recQ>>
  BY DEF ChildInterrupt, tableVars, switchVars
<1>4. WorkTyped /\ TurnsFit(t) /\ KindsFit(t) /\ LoginQuiet /\ \A b \in Awaited : OneOut(t, b)
  BY DEF WorkInv, ThreadFits
<1>5. PICK r \in Seq(CallType) :
         /\ toChild' = [toChild EXCEPT ![t] = r] /\ Taken(r, toChild[t], 1) /\ Elems(r) \subseteq Elems(toChild[t])
         /\ 1 \in DOMAIN toChild[t] /\ c = toChild[t][1]
         /\ c \in CallType /\ CallFits(t, c) /\ c.kind \in {"interrupt"}
  BY <1>1, <1>2, TakesHead
<1>6. /\ c.n \in 0..MaxTurns /\ c.n # 0 /\ c.n <= begun[t] /\ c.by \in Waiters
      /\ run[t] \in 0..MaxTurns /\ run[t] <= begun[t] /\ 0 \in 0..MaxTurns /\ 0 <= begun[t]
  <2>1. c.n \in 0..MaxTurns /\ c.by \in Waiters
    BY <1>5 DEF CallType
  <2>2. c.n # 0 /\ c.n <= begun[t]
    BY <1>5 DEF CallFits
  <2>3. run[t] \in 0..MaxTurns /\ begun[t] \in 0..MaxTurns /\ MaxTurns \in Nat
    BY <1>4, ThreadTypes
  <2>4. run[t] \in {0, begun[t]}
    BY <1>4 DEF TurnsFit
  <2> QED
    BY <2>1, <2>2, <2>3, <2>4
<1>7. CASE run[t] = 0 /\ pipe' = Put(pipe, t, Reply(c.by, "inactive", c.n)) /\ run' = run
  <2>1. "inactive" \in {"refused", "error", "inactive", "replaced"} /\ "inactive" # "replaced"
    OBVIOUS
  <2> QED
    BY <1>1, <1>2, <1>3, <1>6, <1>7, <2>1, TakesAndReplies
<1>8. CASE run[t] \notin {0, c.n} /\ pipe' = Put(pipe, t, Reply(c.by, "replaced", run[t])) /\ run' = run
  <2>1. "replaced" \in {"refused", "error", "inactive", "replaced"} /\ "replaced" # "inactive" /\ run[t] # 0
    BY <1>8
  <2> QED
    BY <1>1, <1>2, <1>3, <1>6, <1>8, <2>1, TakesAndReplies
<1>9. CASE pipe' = Put(pipe, t, Reply(c.by, "error", 0)) /\ run' = run
  <2>1. "error" \in {"refused", "error", "inactive", "replaced"} /\ "error" # "inactive" /\ "error" # "replaced"
    OBVIOUS
  <2> QED
    BY <1>1, <1>2, <1>3, <1>6, <1>9, <2>1, TakesAndReplies
<1>10. CASE /\ run[t] = c.n
            /\ run' = [run EXCEPT ![t] = 0]
            /\ \E both \in {<<Note("ended", "cutOff", c.n), Reply(c.by, "ok", c.n)>>,
                            <<Reply(c.by, "ok", c.n), Note("ended", "cutOff", c.n)>>} :
                 pipe' = [pipe EXCEPT ![t] = @ \o both]
  <2>1. PICK m : m = Note("ended", "cutOff", c.n)
    OBVIOUS
  <2>2. PICK l : l = Reply(c.by, "ok", c.n)
    OBVIOUS
  <2>3. m \in LineType /\ m.type = "ended" /\ m.n = c.n /\ m.by = "stale" /\ m.val = "cutOff"
    BY <1>6, <2>1, EndedLine
  <2>4. l \in LineType /\ l.type = "reply" /\ l.by = c.by /\ l.val = "ok" /\ l.n = c.n
    BY <1>6, <2>2, ReplyFields
  <2>5. PICK p \in Seq(LineType) : p = pipe[t]
    BY <1>4, ThreadTypes
  <2>6. PICK q : q = pipe'[t]
    OBVIOUS
  <2>7. PICK both \in {<<m, l>>, <<l, m>>} : pipe' = [pipe EXCEPT ![t] = p \o both]
    BY <1>10, <2>1, <2>2, <2>5, Zenon
  <2>8. pipe \in [Threads -> Seq(LineType)]
    BY <1>4 DEF WorkTyped
  <2>9. q = p \o both /\ \A u \in Threads : u # t => pipe'[u] = pipe[u]
    BY <2>6, <2>7, <2>8
  <2>10. q \in {Append(Append(p, l), m), Append(Append(p, m), l)} /\ q \in Seq(LineType) /\ Elems(q) = Elems(p) \cup {l, m}
    <3>1. p \in Seq(LineType) /\ m \in LineType /\ l \in LineType
      BY <2>3, <2>4, <2>5
    <3>2. CASE both = <<l, m>>
      <4>1. /\ p \o <<l, m>> = Append(Append(p, l), m)
            /\ Append(Append(p, l), m) \in Seq(LineType) /\ Elems(Append(Append(p, l), m)) = Elems(p) \cup {l, m}
        BY <3>1, BothLines
      <4> QED
        BY <2>9, <3>2, <4>1, Zenon
    <3>3. CASE both = <<m, l>>
      <4>1. /\ p \o <<m, l>> = Append(Append(p, m), l)
            /\ Append(Append(p, m), l) \in Seq(LineType) /\ Elems(Append(Append(p, m), l)) = Elems(p) \cup {m, l}
        BY <3>1, BothLines
      <4>2. {m, l} = {l, m}
        OBVIOUS
      <4> QED
        BY <2>9, <3>3, <4>1, <4>2, Zenon
    <3> QED
      BY <2>7, <3>2, <3>3
  <2>11. pipe' \in [Threads -> Seq(LineType)]
    <3>1. p \o both \in Seq(LineType)
      BY <2>9, <2>10, Zenon
    <3> QED
      BY <2>7, <2>8, <3>1
  <2>12. /\ run' \in [Threads -> 0..MaxTurns] /\ run'[t] = 0
         /\ \A u \in Threads : u # t => run'[u] = run[u]
    BY <1>4, <1>6, <1>10 DEF WorkTyped
  <2>13. /\ toChild' \in [Threads -> Seq(CallType)] /\ toChild'[t] = r
         /\ \A u \in Threads : u # t => toChild'[u] = toChild[u]
    BY <1>4, <1>5 DEF WorkTyped
  <2>14. OneThread(t)
    BY <1>3, <2>9, <2>12, <2>13 DEF OneThread
  <2>15. TurnsFit(t)' /\ LinesFit(t)'
    <3>1. \A w \in Elems(pipe'[t]) :
            w \in Elems(pipe[t]) \/ (w.n <= begun[t] /\ (w.type = "started" \/ w.val \in {"ok", "replaced"} => w.n # 0))
      BY <1>6, <2>3, <2>4, <2>5, <2>6, <2>10
    <3> QED
      BY <1>3, <2>12, <2>14, <3>1, TurnOver
  <2>16. KindsFit(t)'
    BY <1>3, <1>4, <1>5, <2>13 DEF KindsFit, CallFits, Starter
  <2>17. Places(t)
    <3> SUFFICES ASSUME NEW b \in Awaited
                 PROVE  /\ OneOf(toChild'[t], owed'[t], pipe'[t], b)
                        /\ Out(toChild'[t], owed'[t], pipe'[t], b) => OutNow(t, b)
      BY DEF Places
    <3>1. OneOf(toChild[t], owed[t], p, b)
      BY <1>4, <2>5 DEF OneOut
    <3>2. m.by # b
      BY <2>3 DEF Awaited
    <3>3. l.by = b => toChild[t][1].by = b
      BY <1>5, <2>4
    <3>4. OneOf(r, owed[t], q, b) /\ (Out(r, owed[t], q, b) => Out(toChild[t], owed[t], p, b))
      <4>1. PICK cs : cs = toChild[t]
        OBVIOUS
      <4>2. PICK os : os = owed[t]
        OBVIOUS
      <4>3. /\ OneOf(cs, os, p, b) /\ 1 \in DOMAIN cs /\ Taken(r, cs, 1) /\ (l.by = b => cs[1].by = b)
            /\ p \in Seq(LineType) /\ l \in LineType /\ m \in LineType
        BY <1>5, <2>3, <2>4, <2>5, <3>1, <3>3, <4>1, <4>2
      <4>4. q \in {Append(Append(p, l), m), Append(Append(p, m), l)}
        BY <2>10
      <4>5. OneOf(r, os, q, b) /\ (Out(r, os, q, b) => Out(cs, os, p, b))
        <5>1. CASE q = Append(Append(p, l), m)
          <6>1. PICK k \in Seq(LineType) : k = Append(p, l)
            BY <4>3, AppendProperties
          <6>2. OneOf(r, os, k, b) /\ (Out(r, os, k, b) => Out(cs, os, p, b))
            BY <4>3, <6>1, Replied
          <6>3. k \in Seq(LineType) /\ (m.by = b => ~Out(r, os, k, b))
            BY <3>2, <6>1
          <6>4. OneOf(r, os, Append(k, m), b) /\ (Out(r, os, Append(k, m), b) => Out(r, os, k, b) \/ m.by = b)
            BY <4>3, <6>2, <6>3, LinePut
          <6>5. q = Append(k, m)
            BY <5>1, <6>1, Zenon
          <6> QED
            BY <3>2, <6>2, <6>4, <6>5, Zenon
        <5>2. CASE q = Append(Append(p, m), l)
          <6>1. PICK k \in Seq(LineType) : k = Append(p, m)
            BY <4>3, AppendProperties
          <6>2. OneOf(cs, os, k, b) /\ (Out(cs, os, k, b) => Out(cs, os, p, b) \/ m.by = b)
            BY <3>2, <4>3, <6>1, LinePut
          <6>3. k \in Seq(LineType)
            BY <6>1
          <6>4. OneOf(r, os, Append(k, l), b) /\ (Out(r, os, Append(k, l), b) => Out(cs, os, k, b))
            BY <4>3, <6>2, <6>3, Replied
          <6>5. q = Append(k, l)
            BY <5>2, <6>1, Zenon
          <6> QED
            BY <3>2, <6>2, <6>4, <6>5, Zenon
        <5> QED
          BY <4>4, <5>1, <5>2
      <4> QED
        BY <4>1, <4>2, <4>5
    <3> QED
      BY <1>3, <2>5, <2>6, <2>13, <3>4 DEF OutNow
  <2>18. LoginQuiet'
    BY <1>3, <1>4, <2>12 DEF LoginQuiet
  <2>19. ChildTyped'
    BY <1>3, <1>4, <2>11, <2>12, <2>13 DEF WorkTyped, ChildTyped
  <2> QED
    BY <1>3, <2>14, <2>15, <2>16, <2>17, <2>18, <2>19, ChildStepKeeps
<1> QED
  BY <1>1, <1>7, <1>8, <1>9, <1>10, Zenon DEF ChildInterrupt

(* Steps that concern neither turns nor who waits.                          *)
LEMMA WorkUnchanged ==
  ASSUME WorkInv,
         UNCHANGED <<toChild, pipe, owed, run, begun, ordinary, goal, submitted, active, ended, recQ, prep, rec, tx>>
  PROVE  WorkInv'
<1>1. ASSUME NEW t \in Threads PROVE ThreadFits(t)'
  <2>1. SameThread(t)
    BY DEF SameThread
  <2>2. \A b \in Awaited : OneOut(t, b)
    BY DEF WorkInv, ThreadFits
  <2>3. \A b : Waits(t, b) => Waits(t, b)'
    BY DEF Waits
  <2>4. Stays(t)
    BY <2>2, <2>3 DEF Stays, OneOut
  <2> QED
    BY <2>1, <2>4, ThreadStays
<1>2. WorkTyped' /\ PrepOnce' /\ NothingSubmitted' /\ LoginQuiet'
  BY DEF WorkInv, WorkTyped, PrepOnce, AtRecovery, NothingSubmitted, LoginQuiet
<1> QED
  BY <1>1, <1>2 DEF WorkInv

-----------------------------------------------------------------------------
(* Steps of the shim that read no line.                                     *)
QuietTurns == UNCHANGED <<pipe, owed, run, begun, ordinary, goal, active, ended>>

(* Everybody who waits for a call goes on waiting.                          *)
WaitersStay ==
  /\ submitted \subseteq submitted'
  /\ prep.at \in {"goalGet", "pause"} => prep'.at \in {"goalGet", "pause"} /\ prep'.t = prep.t
  /\ rec.at = "await" => rec'.at = "await" /\ rec'.t = rec.t
  /\ tx.step \in DOMAIN ThreadStepKind /\ tx.at = "await" =>
       tx'.step = tx.step /\ tx'.at = "await" /\ tx'.t = tx.t

LEMMA WaitersStayPut ==
  ASSUME WorkInv, WaitersStay
  PROVE  \A u \in Threads : Stays(u)
<1> SUFFICES ASSUME NEW u \in Threads PROVE Stays(u)
  OBVIOUS
<1>1. ASSUME NEW b \in Awaited, OutNow(u, b) PROVE Waits(u, b) /\ Waits(u, b)'
  <2>1. Waits(u, b)
    BY <1>1 DEF WorkInv, ThreadFits, OneOut
  <2>2. Waits(u, b)'
    BY <2>1 DEF Waits, WaitersStay, Awaited
  <2> QED
    BY <2>1, <2>2
<1>2. tx.step = "continue" /\ OutNow(u, "main") => tx'.step = "continue"
  <2> SUFFICES ASSUME tx.step = "continue", OutNow(u, "main") PROVE tx'.step = "continue"
    OBVIOUS
  <2>1. Waits(u, "main")
    BY <1>1 DEF Awaited
  <2> QED
    BY <2>1 DEF Waits, WaitersStay
<1> QED
  BY <1>1, <1>2 DEF Stays

LEMMA AsksOne ==
  ASSUME WorkInv, QuietTurns, NEW t \in Threads, NEW c \in CallType, toChild' = Put(toChild, t, c),
         CallFits(t, c)', c.by \in Awaited => ~OutNow(t, c.by) /\ Waits(t, c.by)', WaitersStay
  PROVE  toChild' \in [Threads -> Seq(CallType)] /\ \A u \in Threads : ThreadFits(u)'
<1>1. toChild \in [Threads -> Seq(CallType)]
  BY DEF WorkInv, WorkTyped
<1>2. PICK cs \in Seq(CallType) : cs = toChild[t]
  BY <1>1
<1>3. Append(cs, c) \in Seq(CallType)
  OBVIOUS
<1>4. toChild' = [toChild EXCEPT ![t] = Append(cs, c)]
  BY <1>2 DEF Put
<1>5. toChild' \in [Threads -> Seq(CallType)] /\ toChild'[t] = Append(cs, c) /\ \A u \in Threads : u # t => toChild'[u] = toChild[u]
  BY <1>1, <1>3, <1>4
<1>6. \A u \in Threads : Stays(u)
  BY WaitersStayPut
<1>7. \A u \in Threads :
        \/ toChild'[u] = toChild[u]
        \/ \E d \in CallType : /\ toChild'[u] = Append(toChild[u], d) /\ CallFits(u, d)'
                               /\ d.by \in Awaited => ~OutNow(u, d.by) /\ Waits(u, d.by)'
  <2> SUFFICES ASSUME NEW u \in Threads, toChild'[u] # toChild[u]
               PROVE  \E d \in CallType : /\ toChild'[u] = Append(toChild[u], d) /\ CallFits(u, d)'
                                          /\ d.by \in Awaited => ~OutNow(u, d.by) /\ Waits(u, d.by)'
    OBVIOUS
  <2>1. u = t
    BY <1>5
  <2>2. toChild'[u] = Append(toChild[u], c)
    BY <1>2, <1>5, <2>1
  <2> QED
    BY <2>1, <2>2
<1> QED
  BY <1>5, <1>6, <1>7, AskKeeps DEF QuietTurns

LEMMA AsksNone ==
  ASSUME WorkInv, QuietTurns, toChild' = toChild, WaitersStay
  PROVE  toChild' \in [Threads -> Seq(CallType)] /\ \A u \in Threads : ThreadFits(u)'
<1>1. \A u \in Threads : Stays(u)
  BY WaitersStayPut
<1>2. \A u \in Threads : SameThread(u)
  BY DEF SameThread, QuietTurns
<1>3. \A u \in Threads : ThreadFits(u)'
  BY <1>1, <1>2, ThreadStays
<1> QED
  BY <1>3 DEF WorkInv, WorkTyped

LEMMA ShimKeeps ==
  ASSUME WorkInv, QuietTurns, toChild' \in [Threads -> Seq(CallType)], \A u \in Threads : ThreadFits(u)',
         submitted' \subseteq Threads, recQ' \in Seq({"prep", "cancel", "defer"}),
         {"at", "t"} \subseteq DOMAIN prep', {"step", "at", "t"} \subseteq DOMAIN tx',
         rec' = rec \/ {"at", "t"} \subseteq DOMAIN rec', PrepOnce', NothingSubmitted', LoginQuiet'
  PROVE  WorkInv'
BY DEF WorkInv, WorkTyped, QuietTurns

(* The queue of recoveries grows by a call that is not the preparation's, or by its first. *)
LEMMA RecoveryQueues ==
  ASSUME WorkInv, NEW who \in {"prep", "cancel", "defer"}, recQ' = Append(recQ, who),
         AtRecovery => AtRecovery' /\ who # "prep",
         who = "prep" => AtRecovery'
  PROVE  recQ' \in Seq({"prep", "cancel", "defer"}) /\ PrepOnce'
<1>1. PICK s \in Seq({"prep", "cancel", "defer"}) : s = recQ
  BY DEF WorkInv, WorkTyped
<1>2. PICK r : r = Append(s, who)
  OBVIOUS
<1>3. r \in Seq({"prep", "cancel", "defer"})
  BY <1>1, <1>2
<1>4. /\ \A i \in DOMAIN r : (i \in DOMAIN s /\ r[i] = s[i]) \/ (i \notin DOMAIN s /\ r[i] = who)
      /\ \A i, j \in DOMAIN r : i \notin DOMAIN s /\ j \notin DOMAIN s => i = j
  BY <1>1, <1>2, AppendPuts
<1>5. /\ \A i \in DOMAIN s : s[i] = "prep" => AtRecovery
      /\ \A i, j \in DOMAIN s : s[i] = "prep" /\ s[j] = "prep" => i = j
  BY <1>1 DEF WorkInv, PrepOnce
<1>6. \A i \in DOMAIN r : r[i] = "prep" => AtRecovery'
  BY <1>4, <1>5
<1>7. \A i, j \in DOMAIN r : r[i] = "prep" /\ r[j] = "prep" => i = j
  BY <1>4, <1>5
<1>8. recQ' = r
  BY <1>1, <1>2
<1> QED
  BY <1>3, <1>6, <1>7, <1>8 DEF PrepOnce

(* A work start of the client is sent on.                                   *)
LEMMA StartSent ==
  ASSUME WorkInv, NEW t \in Threads, ~Barrier, t \notin submitted, submitted' = submitted \cup {t},
         toChild' = Put(toChild, t, Call("start", "client", 0)),
         QuietTurns, UNCHANGED <<recQ, prep, rec, tx>>
  PROVE  WorkInv'
<1>1. PICK c : c = Call("start", "client", 0)
  OBVIOUS
<1>2. c.kind = "start" /\ c.by = "client" /\ c.n = 0 /\ c \in CallType /\ 0 <= begun[t]
  <2>1. 0 \in 0..MaxTurns
    BY SwitchBarrierAssumption
  <2>2. begun[t] \in 0..MaxTurns /\ MaxTurns \in Nat
    BY ThreadTypes DEF WorkInv
  <2>3. c = [kind |-> "start", by |-> "client", n |-> 0]
    BY <1>1 DEF Call
  <2>4. "client" \in Waiters
    BY DEF Waiters
  <2> QED
    BY <2>1, <2>2, <2>3, <2>4 DEF CallType
<1>3. tx.step = "off" /\ prep.at = "off"
  BY DEF Barrier
<1>4. ~OutNow(t, "client")
  BY DEF WorkInv, ThreadFits, OneOut, Waits, Awaited
<1>5. Waits(t, "client")'
  BY DEF Waits
<1>6. WaitersStay
  BY <1>3 DEF WaitersStay
<1>7. CallFits(t, c)'
  BY <1>2 DEF CallFits, QuietTurns
<1>8. toChild' \in [Threads -> Seq(CallType)] /\ \A u \in Threads : ThreadFits(u)'
  BY <1>1, <1>2, <1>4, <1>5, <1>6, <1>7, AsksOne
<1>9. PrepOnce' /\ NothingSubmitted' /\ LoginQuiet'
  BY <1>3 DEF WorkInv, PrepOnce, AtRecovery, NothingSubmitted, LoginQuiet
<1>10. /\ submitted' \subseteq Threads /\ recQ' \in Seq({"prep", "cancel", "defer"})
       /\ {"at", "t"} \subseteq DOMAIN prep' /\ {"step", "at", "t"} \subseteq DOMAIN tx'
  BY DEF WorkInv, WorkTyped
<1> QED
  BY <1>8, <1>9, <1>10, ShimKeeps

LEMMA WorkStartWork ==
  ASSUME WorkInv, NEW t \in Threads, WorkStart(t)
  PROVE  WorkInv'
<1>1. UNCHANGED <<pipe, owed, run, begun, ordinary, goal, active, ended, recQ, prep, rec, tx>> /\ t \notin submitted
  BY DEF WorkStart, switchVars
<1>2. CASE Barrier
  <2>1. UNCHANGED <<toChild, submitted>>
    BY <1>2 DEF WorkStart
  <2> QED
    BY <1>1, <2>1, WorkUnchanged
<1>3. CASE ~Barrier
  <2>1. submitted' = submitted \cup {t} /\ toChild' = Put(toChild, t, Call("start", "client", 0))
    BY <1>3 DEF WorkStart
  <2> QED
    BY <1>1, <1>3, <2>1, StartSent DEF QuietTurns
<1> QED
  BY <1>2, <1>3

(* A start that waits is not with the child.                                *)
HeldApart == held \cap submitted = {}

LEMMA FlushHeldWork ==
  ASSUME WorkInv, HeldApart, NEW t \in Threads, FlushHeld(t)
  PROVE  WorkInv'
<1>1. UNCHANGED <<pipe, owed, run, begun, ordinary, goal, active, ended, recQ, prep, rec, tx>>
  BY DEF FlushHeld, switchVars
<1>2. /\ ~Barrier /\ t \notin submitted
      /\ submitted' = submitted \cup {t} /\ toChild' = Put(toChild, t, Call("start", "client", 0))
  BY DEF FlushHeld, HeldApart
<1> QED
  BY <1>1, <1>2, StartSent DEF QuietTurns

(* Interrupts that nobody waits for any more.                               *)
LEMMA InterruptsLeft ==
  ASSUME WorkInv, UNCHANGED <<run, begun, ordinary, goal, active, ended, tx>>, LeaveInterrupts, WaitersStay
  PROVE  /\ toChild' \in [Threads -> Seq(CallType)] /\ pipe' \in [Threads -> Seq(LineType)]
         /\ owed' \in [Threads -> SUBSET [by : Waiters, n : 0..MaxTurns]]
         /\ \A u \in Threads : ThreadFits(u)'
<1>1. PICK f : f = [b \in Waiters |-> IF b = "int" THEN "oldInt" ELSE IF b = "again" THEN "oldAgain" ELSE b]
  OBVIOUS
<1>2. Relabel(Threads, f)
  BY <1>1, Zenon DEF LeaveInterrupts
<1>3. f \in [Waiters -> Waiters] /\ f["client"] = "client" /\ f["main"] = "main"
  BY <1>1 DEF Waiters
<1>4. \A b \in Waiters : f[b] \in Awaited => f[b] = b
  BY <1>1 DEF Awaited
<1>5. \A u \in Threads : Stays(u)
  BY WaitersStayPut
<1>6. \A u \in Threads : \A b \in Awaited : OutNow(u, b) => Waits(u, b)'
  BY <1>5 DEF Stays
<1> QED
  BY <1>2, <1>3, <1>4, <1>6, RelabelKeeps

LEMMA SwitchRequestWork ==
  ASSUME WorkInv, NEW policy, NEW target, NEW recent, SwitchRequest(policy, target, recent)
  PROVE  WorkInv'
<1>1. /\ UNCHANGED <<run, begun, ordinary, goal, active, ended, tx, submitted, recQ, rec>>
      /\ LeaveInterrupts /\ ~Barrier
      /\ prep' = [prep EXCEPT !.at = "next", !.todo = submitted \cup ActiveThreads \cup recent]
  BY DEF SwitchRequest, tableVars
<1>2. prep.at = "off" /\ recQ = <<>> /\ tx.step = "off"
  BY <1>1 DEF Barrier
<1>3. WaitersStay
  BY <1>1, <1>2 DEF WaitersStay
<1>4. /\ toChild' \in [Threads -> Seq(CallType)] /\ pipe' \in [Threads -> Seq(LineType)]
      /\ owed' \in [Threads -> SUBSET [by : Waiters, n : 0..MaxTurns]]
      /\ \A u \in Threads : ThreadFits(u)'
  BY <1>1, <1>3, InterruptsLeft
<1>5. DOMAIN prep' = DOMAIN prep
  BY <1>1
<1>6. WorkTyped'
  BY <1>1, <1>4, <1>5 DEF WorkInv, WorkTyped
<1>7. PrepOnce' /\ NothingSubmitted' /\ LoginQuiet'
  BY <1>1, <1>2 DEF PrepOnce, NothingSubmitted, LoginQuiet
<1> QED
  BY <1>4, <1>6, <1>7 DEF WorkInv

LEMMA CancelWork ==
  ASSUME WorkInv, Cancel
  PROVE  WorkInv'
<1>1. /\ UNCHANGED <<run, begun, ordinary, goal, active, ended, tx, submitted, prep, rec>>
      /\ LeaveInterrupts /\ recQ' = Append(recQ, "cancel")
  BY DEF Cancel, tableVars
<1>2. WaitersStay
  BY <1>1 DEF WaitersStay
<1>3. /\ toChild' \in [Threads -> Seq(CallType)] /\ pipe' \in [Threads -> Seq(LineType)]
      /\ owed' \in [Threads -> SUBSET [by : Waiters, n : 0..MaxTurns]]
      /\ \A u \in Threads : ThreadFits(u)'
  BY <1>1, <1>2, InterruptsLeft
<1>4. recQ' \in Seq({"prep", "cancel", "defer"}) /\ PrepOnce'
  BY <1>1, RecoveryQueues DEF AtRecovery
<1>5. WorkTyped'
  BY <1>1, <1>3, <1>4 DEF WorkInv, WorkTyped
<1>6. NothingSubmitted' /\ LoginQuiet'
  BY <1>1 DEF WorkInv, NothingSubmitted, LoginQuiet
<1> QED
  BY <1>3, <1>4, <1>5, <1>6 DEF WorkInv

(* One call on a thread, or on none.                                        *)
LEMMA AsksAny ==
  ASSUME WorkInv, QuietTurns, NEW t, NEW c \in CallType, toChild' = Put(toChild, t, c),
         t \in Threads => /\ CallFits(t, c)'
                          /\ c.by \in Awaited => ~OutNow(t, c.by) /\ Waits(t, c.by)',
         WaitersStay
  PROVE  toChild' \in [Threads -> Seq(CallType)] /\ \A u \in Threads : ThreadFits(u)'
<1>1. CASE t \in Threads
  BY <1>1, AsksOne
<1>2. CASE t \notin Threads
  <2>1. toChild \in [Threads -> Seq(CallType)]
    BY DEF WorkInv, WorkTyped
  <2>2. toChild' = toChild
    BY <1>2, <2>1 DEF Put
  <2> QED
    BY <2>2, AsksNone
<1> QED
  BY <1>1, <1>2

(* A call of the shim about a Goal.                                         *)
LEMMA GoalCallFields ==
  ASSUME NEW kind \in {"goalGet", "pause", "resume"}, NEW by \in Waiters, NEW c, c = Call(kind, by, 0)
  PROVE  c \in CallType /\ c.kind = kind /\ c.by = by /\ c.n = 0 /\ c.kind \notin {"start", "continue", "interrupt"}
<1>1. 0 \in 0..MaxTurns
  BY SwitchBarrierAssumption
<1>2. c = [kind |-> kind, by |-> by, n |-> 0]
  BY DEF Call
<1> QED
  BY <1>1, <1>2 DEF CallType

LEMMA GoalCallFits ==
  ASSUME NEW c, c.n = 0, c.kind \notin {"start", "continue", "interrupt"}, WorkInv, NEW t \in Threads,
         begun' = begun
  PROVE  CallFits(t, c)'
<1>1. 0 <= begun[t]
  <2>1. begun[t] \in 0..MaxTurns /\ MaxTurns \in Nat
    BY ThreadTypes DEF WorkInv
  <2> QED
    BY <2>1
<1> QED
  BY <1>1 DEF CallFits

LEMMA PrepareNextWork ==
  ASSUME WorkInv, PrepareNext
  PROVE  WorkInv'
<1>1. /\ QuietTurns /\ UNCHANGED <<submitted, tx, recQ, rec>> /\ prep.at = "next"
      /\ \/ toChild' = toChild /\ prep' = [prep EXCEPT !.at = "off", !.todo = {}]
         \/ \E t \in prep.todo :
              /\ prep' = [at |-> "goalGet", t |-> t, todo |-> prep.todo \ {t}]
              /\ toChild' = Put(toChild, t, Call("goalGet", "prep", 0))
  BY DEF PrepareNext, EndPrepare, QuietTurns, tableVars
<1>2. WaitersStay
  BY <1>1 DEF WaitersStay
<1>3. {"at", "t"} \subseteq DOMAIN prep'
  <2>1. CASE prep' = [prep EXCEPT !.at = "off", !.todo = {}]
    <3>1. DOMAIN prep' = DOMAIN prep
      BY <2>1
    <3> QED
      BY <3>1 DEF WorkInv, WorkTyped
  <2>2. CASE \E t \in prep.todo : prep' = [at |-> "goalGet", t |-> t, todo |-> prep.todo \ {t}]
    BY <2>2
  <2> QED
    BY <1>1, <2>1, <2>2
<1>4. PrepOnce' /\ NothingSubmitted' /\ LoginQuiet'
  <2>1. \A i \in DOMAIN recQ : recQ[i] # "prep"
    BY <1>1 DEF WorkInv, PrepOnce, AtRecovery
  <2>2. PrepOnce'
    BY <1>1, <2>1 DEF PrepOnce
  <2> QED
    BY <1>1, <2>2 DEF WorkInv, NothingSubmitted, LoginQuiet, QuietTurns
<1>5. toChild' \in [Threads -> Seq(CallType)] /\ \A u \in Threads : ThreadFits(u)'
  <2>1. CASE toChild' = toChild
    BY <1>1, <1>2, <2>1, AsksNone
  <2>2. CASE toChild' # toChild
    <3>1. PICK t \in prep.todo :
              /\ prep' = [at |-> "goalGet", t |-> t, todo |-> prep.todo \ {t}]
              /\ toChild' = Put(toChild, t, Call("goalGet", "prep", 0))
      BY <1>1, <2>2
    <3>2. PICK c : c = Call("goalGet", "prep", 0)
      OBVIOUS
    <3>3. c \in CallType /\ c.by = "prep" /\ c.n = 0 /\ c.kind \notin {"start", "continue", "interrupt"}
      <4>1. "prep" \in Waiters
        BY DEF Waiters
      <4> QED
        BY <3>2, <4>1, GoalCallFields
    <3>4. ASSUME t \in Threads PROVE CallFits(t, c)' /\ ~OutNow(t, "prep") /\ Waits(t, "prep")'
      <4>1. begun' = begun
        BY <1>1 DEF QuietTurns
      <4>2. CallFits(t, c)'
        BY <3>3, <3>4, <4>1, GoalCallFits
      <4>3. ~OutNow(t, "prep")
        BY <1>1, <3>4 DEF WorkInv, ThreadFits, OneOut, Waits, Awaited
      <4>4. Waits(t, "prep")'
        BY <3>1 DEF Waits
      <4> QED
        BY <4>2, <4>3, <4>4
    <3> QED
      BY <1>1, <1>2, <3>1, <3>2, <3>3, <3>4, AsksAny
  <2> QED
    BY <2>1, <2>2
<1>6. submitted' \subseteq Threads /\ recQ' \in Seq({"prep", "cancel", "defer"}) /\ {"step", "at", "t"} \subseteq DOMAIN tx'
  BY <1>1 DEF WorkInv, WorkTyped
<1> QED
  BY <1>1, <1>3, <1>4, <1>5, <1>6, ShimKeeps

LEMMA RecoverNextWork ==
  ASSUME WorkInv, RecoverNext
  PROVE  WorkInv'
<1>1. QuietTurns /\ UNCHANGED <<submitted, tx>> /\ recQ # <<>> /\ rec.at # "await"
  BY DEF RecoverNext, QuietTurns, tableVars
<1>2. PICK s \in Seq({"prep", "cancel", "defer"}) : s = recQ
  BY DEF WorkInv, WorkTyped
<1>3. {"step", "at", "t"} \subseteq DOMAIN tx' /\ submitted' \subseteq Threads
  BY <1>1 DEF WorkInv, WorkTyped
<1>4. NothingSubmitted' /\ LoginQuiet'
  BY <1>1 DEF WorkInv, NothingSubmitted, LoginQuiet, QuietTurns
<1>5. CASE /\ UNCHANGED <<recQ, prep>>
           /\ \E t, T : rec' = [at |-> "await", t |-> t, todo |-> T] /\ toChild' = Put(toChild, t, Call("resume", "rec", 0))
  <2>1. PICK t, T : rec' = [at |-> "await", t |-> t, todo |-> T] /\ toChild' = Put(toChild, t, Call("resume", "rec", 0))
    BY <1>5
  <2>2. PICK c : c = Call("resume", "rec", 0)
    OBVIOUS
  <2>3. c \in CallType /\ c.by = "rec" /\ c.n = 0 /\ c.kind \notin {"start", "continue", "interrupt"}
    <3>1. "rec" \in Waiters
      BY DEF Waiters
    <3> QED
      BY <2>2, <3>1, GoalCallFields
  <2>4. WaitersStay
    BY <1>1, <1>5 DEF WaitersStay
  <2>5. t \in Threads => CallFits(t, c)'
    <3>1. begun' = begun
      BY <1>1 DEF QuietTurns
    <3> QED
      BY <2>3, <3>1, GoalCallFits
  <2>6. t \in Threads => ~OutNow(t, "rec") /\ Waits(t, "rec")'
    BY <1>1, <2>1 DEF WorkInv, ThreadFits, OneOut, Waits, Awaited
  <2>7. toChild' \in [Threads -> Seq(CallType)] /\ \A u \in Threads : ThreadFits(u)'
    BY <1>1, <2>1, <2>2, <2>3, <2>4, <2>5, <2>6, AsksAny
  <2>8. PrepOnce' /\ recQ' \in Seq({"prep", "cancel", "defer"}) /\ {"at", "t"} \subseteq DOMAIN prep'
    BY <1>5 DEF WorkInv, WorkTyped, PrepOnce, AtRecovery
  <2>9. {"at", "t"} \subseteq DOMAIN rec'
    BY <2>1
  <2> QED
    BY <1>1, <1>3, <1>4, <2>7, <2>8, <2>9, ShimKeeps
<1>6. CASE /\ recQ' = Tail(recQ) /\ toChild' = toChild /\ rec' = [rec EXCEPT !.at = "off", !.todo = {}]
           /\ prep' = IF Head(recQ) = "prep" THEN [prep EXCEPT !.at = "off", !.todo = {}] ELSE prep
  <2>1. PICK r : r = Tail(s)
    OBVIOUS
  <2>2. PICK h : h = Head(s)
    OBVIOUS
  <2>3. /\ r \in Seq({"prep", "cancel", "defer"}) /\ h = s[1] /\ 1 \in DOMAIN s
        /\ \A j \in DOMAIN r : j + 1 \in DOMAIN s /\ r[j] = s[j + 1] /\ j \in Nat /\ 1 < j + 1
    BY <1>1, <1>2, <2>1, <2>2, TailTakes
  <2>4. recQ' = r /\ prep' = IF h = "prep" THEN [prep EXCEPT !.at = "off", !.todo = {}] ELSE prep
    BY <1>2, <1>6, <2>1, <2>2
  <2>5. /\ \A i \in DOMAIN s : s[i] = "prep" => AtRecovery
        /\ \A i, j \in DOMAIN s : s[i] = "prep" /\ s[j] = "prep" => i = j
    BY <1>2 DEF WorkInv, PrepOnce
  <2>6. h = "prep" => AtRecovery /\ \A j \in DOMAIN r : r[j] # "prep"
    <3>1. ASSUME h = "prep", NEW j \in DOMAIN r, r[j] = "prep" PROVE FALSE
      <4>1. s[1] = "prep" /\ j + 1 \in DOMAIN s /\ s[j + 1] = "prep" /\ j \in Nat /\ 1 < j + 1
        BY <2>3, <3>1
      <4>2. 1 = j + 1
        BY <2>3, <2>5, <4>1
      <4> QED
        BY <4>1, <4>2
    <3> QED
      BY <2>3, <2>5, <3>1
  <2>7. \A i, j \in DOMAIN r : r[i] = "prep" /\ r[j] = "prep" => i = j
    <3> SUFFICES ASSUME NEW i \in DOMAIN r, NEW j \in DOMAIN r, r[i] = "prep", r[j] = "prep" PROVE i = j
      OBVIOUS
    <3>1. i + 1 = j + 1 /\ i \in Nat /\ j \in Nat
      BY <2>3, <2>5
    <3> QED
      BY <3>1
  <2>8. \A i \in DOMAIN r : r[i] = "prep" => AtRecovery'
    BY <2>3, <2>4, <2>5, <2>6 DEF AtRecovery
  <2>9. PrepOnce'
    BY <2>4, <2>7, <2>8 DEF PrepOnce, AtRecovery
  <2>10. WaitersStay
    BY <1>1, <2>4, <2>6 DEF WaitersStay, AtRecovery
  <2>11. {"at", "t"} \subseteq DOMAIN prep'
    BY <2>4 DEF WorkInv, WorkTyped
  <2>14. {"at", "t"} \subseteq DOMAIN rec'
    <3>1. DOMAIN rec' = DOMAIN rec
      BY <1>6
    <3> QED
      BY <3>1 DEF WorkInv, WorkTyped
  <2>12. toChild' \in [Threads -> Seq(CallType)] /\ \A u \in Threads : ThreadFits(u)'
    BY <1>1, <1>6, <2>10, AsksNone
  <2>13. recQ' \in Seq({"prep", "cancel", "defer"})
    BY <2>3, <2>4
  <2> QED
    BY <1>1, <1>3, <1>4, <2>9, <2>11, <2>12, <2>13, <2>14, ShimKeeps
<1>7. CASE /\ Again /\ recQ' = Append(Tail(recQ), "prep") /\ toChild' = toChild
           /\ rec' = [rec EXCEPT !.at = "off", !.todo = {}] /\ prep' = [prep EXCEPT !.at = "recover"]
  <2>1. PICK q : q = Tail(s)
    OBVIOUS
  <2>2. PICK r : r = Append(q, "prep")
    OBVIOUS
  <2>3. /\ q \in Seq({"prep", "cancel", "defer"}) /\ s[1] = "prep" /\ 1 \in DOMAIN s
        /\ \A j \in DOMAIN q : j + 1 \in DOMAIN s /\ q[j] = s[j + 1] /\ j \in Nat /\ 1 < j + 1
    BY <1>1, <1>2, <1>7, <2>1, TailTakes DEF Again
  <2>4. \A i, j \in DOMAIN s : s[i] = "prep" /\ s[j] = "prep" => i = j
    BY <1>2 DEF WorkInv, PrepOnce
  <2>5. \A j \in DOMAIN q : q[j] # "prep"
    <3> SUFFICES ASSUME NEW j \in DOMAIN q, q[j] = "prep" PROVE FALSE
      OBVIOUS
    <3>1. 1 = j + 1 /\ 1 < j + 1 /\ j \in Nat
      BY <2>3, <2>4
    <3> QED
      BY <3>1
  <2>6. /\ r \in Seq({"prep", "cancel", "defer"})
        /\ \A i \in DOMAIN r : (i \in DOMAIN q /\ r[i] = q[i]) \/ (i \notin DOMAIN q /\ r[i] = "prep")
        /\ \A i, j \in DOMAIN r : i \notin DOMAIN q /\ j \notin DOMAIN q => i = j
    BY <2>2, <2>3, AppendPuts
  <2>7. recQ' = r
    BY <1>2, <1>7, <2>1, <2>2
  <2>8. {"at", "t"} \subseteq DOMAIN prep' /\ prep'.at = "recover" /\ prep.at = "late"
    BY <1>7 DEF Again, WorkInv, WorkTyped
  <2>9. PrepOnce'
    BY <2>5, <2>6, <2>7, <2>8 DEF PrepOnce, AtRecovery
  <2>10. WaitersStay
    BY <1>1, <2>8 DEF WaitersStay
  <2>11. {"at", "t"} \subseteq DOMAIN rec'
    <3>1. DOMAIN rec' = DOMAIN rec
      BY <1>7
    <3> QED
      BY <3>1 DEF WorkInv, WorkTyped
  <2>12. toChild' \in [Threads -> Seq(CallType)] /\ \A u \in Threads : ThreadFits(u)'
    BY <1>1, <1>7, <2>10, AsksNone
  <2>13. recQ' \in Seq({"prep", "cancel", "defer"})
    BY <2>6, <2>7
  <2> QED
    BY <1>1, <1>3, <1>4, <2>8, <2>9, <2>11, <2>12, <2>13, ShimKeeps
<1> QED
  BY <1>5, <1>6, <1>7 DEF RecoverNext

LEMMA GraceExpiredWork ==
  ASSUME WorkInv, GraceExpired
  PROVE  WorkInv'
<1>1. UNCHANGED <<pipe, owed, run, begun, ordinary, goal, active, ended, submitted, prep, rec, tx>>
  BY DEF GraceExpired, tableVars
<1>2. WaitersStay /\ QuietTurns
  BY <1>1 DEF WaitersStay, QuietTurns
<1>3. NothingSubmitted' /\ LoginQuiet'
  BY <1>1 DEF WorkInv, NothingSubmitted, LoginQuiet
<1>4. /\ submitted' \subseteq Threads /\ {"at", "t"} \subseteq DOMAIN prep'
      /\ {"step", "at", "t"} \subseteq DOMAIN tx'
  BY <1>1 DEF WorkInv, WorkTyped
<1>5. CASE toChild' = toChild /\ (recQ' = recQ \/ recQ' = Append(recQ, "defer"))
  <2>1. recQ' \in Seq({"prep", "cancel", "defer"}) /\ PrepOnce'
    <3>1. CASE recQ' = recQ
      BY <1>1, <3>1 DEF WorkInv, WorkTyped, PrepOnce, AtRecovery
    <3>2. CASE recQ' = Append(recQ, "defer")
      BY <1>1, <3>2, RecoveryQueues DEF AtRecovery
    <3> QED
      BY <1>5, <3>1, <3>2
  <2>2. toChild' \in [Threads -> Seq(CallType)] /\ \A u \in Threads : ThreadFits(u)'
    BY <1>2, <1>5, AsksNone
  <2> QED
    BY <1>1, <1>2, <1>3, <1>4, <2>1, <2>2, ShimKeeps
<1>6. CASE /\ recQ' = recQ
           /\ toChild' = [t \in Threads |->
                IF active[t] # 0 THEN Append(toChild[t], Call("interrupt", "int", active[t])) ELSE toChild[t]]
  <2>1. ASSUME NEW u \in Threads
        PROVE  /\ toChild'[u] \in Seq(CallType)
               /\ \/ toChild'[u] = toChild[u]
                  \/ \E c \in CallType : /\ toChild'[u] = Append(toChild[u], c) /\ CallFits(u, c)'
                                         /\ c.by \in Awaited => ~OutNow(u, c.by) /\ Waits(u, c.by)'
    <3>1. CASE active[u] = 0
      <4>1. toChild'[u] = toChild[u]
        BY <1>6, <3>1
      <4> QED
        BY <4>1, ThreadTypes DEF WorkInv
    <3>2. CASE active[u] # 0
      <4>1. PICK c : c = Call("interrupt", "int", active[u])
        OBVIOUS
      <4>2. c.kind = "interrupt" /\ c.by = "int" /\ c.n = active[u] /\ c \in CallType
        <5>1. active[u] \in 0..MaxTurns
          BY ThreadTypes DEF WorkInv
        <5>2. "int" \in Waiters
          BY DEF Waiters
        <5> QED
          BY <4>1, <5>1, <5>2 DEF Call, CallType
      <4>3. active[u] <= begun[u]
        BY DEF WorkInv, ThreadFits, TurnsFit
      <4>4. CallFits(u, c)' /\ c.by \notin Awaited
        BY <1>1, <3>2, <4>2, <4>3 DEF CallFits, Awaited
      <4>5. toChild'[u] = Append(toChild[u], c)
        BY <1>6, <3>2, <4>1
      <4>6. toChild[u] \in Seq(CallType)
        BY ThreadTypes DEF WorkInv
      <4>7. Append(toChild[u], c) \in Seq(CallType)
        BY <4>2, <4>6
      <4> QED
        BY <4>2, <4>4, <4>5, <4>7
    <3> QED
      BY <3>1, <3>2
  <2>2. toChild' \in [Threads -> Seq(CallType)]
    <3>1. toChild' = [u \in Threads |-> toChild'[u]]
      BY <1>6
    <3> QED
      BY <2>1, <3>1
  <2>3. \A u \in Threads : Stays(u)
    BY <1>2, WaitersStayPut
  <2>4. \A u \in Threads : ThreadFits(u)'
    BY <1>1, <2>1, <2>2, <2>3, AskKeeps
  <2>5. recQ' \in Seq({"prep", "cancel", "defer"}) /\ PrepOnce'
    BY <1>1, <1>6 DEF WorkInv, WorkTyped, PrepOnce, AtRecovery
  <2> QED
    BY <1>1, <1>2, <1>3, <1>4, <2>2, <2>4, <2>5, ShimKeeps
<1> QED
  BY <1>5, <1>6 DEF GraceExpired, Defer

LEMMA ThreadSteps == DOMAIN ThreadStepKind = {"resume", "undoResume", "continue"}
BY DEF ThreadStepKind

LEMMA DrainPendingWork ==
  ASSUME WorkInv, ControlInv, DrainPending
  PROVE  WorkInv'
<1>1. UNCHANGED <<toChild, pipe, owed, run, begun, ordinary, goal, active, ended, submitted, prep, rec, recQ>>
  BY DEF DrainPending, tableVars, childVars
<1>2. CASE tx' = tx
  BY <1>1, <1>2, WorkUnchanged
<1>3. CASE pending /\ NoTurnCounted /\ tx' = Enter(NoTx, "login", {})
  <2>1. tx.step = "off" /\ submitted = {} /\ ActiveThreads = {}
    BY <1>3 DEF ControlInv, PendingPhase, NoTurnCounted
  <2>2. WaitersStay /\ QuietTurns
    BY <1>1, <2>1, ThreadSteps DEF WaitersStay, QuietTurns
  <2>3. toChild' \in [Threads -> Seq(CallType)] /\ \A u \in Threads : ThreadFits(u)'
    BY <1>1, <2>2, AsksNone
  <2>4. PrepOnce' /\ NothingSubmitted'
    BY <1>1, <2>1 DEF WorkInv, PrepOnce, AtRecovery, NothingSubmitted
  <2>5. ASSUME NEW t \in Threads, run[t] # 0, ordinary[t] PROVE FALSE
    <3>1. LinesFit(t) /\ OneOut(t, "client")
      BY DEF WorkInv, ThreadFits, Awaited
    <3>2. active[t] = 0 /\ t \notin submitted
      BY <2>1 DEF ActiveThreads
    <3>3. PICK j \in DOMAIN pipe[t] : SaysRunning(t, pipe[t][j])
      BY <2>5, <3>1, <3>2 DEF LinesFit
    <3>4. (\E o \in owed[t] : Starter(o.by)) \/ \E i \in DOMAIN pipe[t] : j < i /\ Starter(pipe[t][i].by)
      BY <2>5, <3>1, <3>3 DEF LinesFit
    <3>5. OutNow(t, "client")
      BY <2>1, <3>4 DEF Starter, OutNow, Out
    <3> QED
      BY <3>1, <3>2, <3>5 DEF OneOut, Waits
  <2>6. LoginQuiet'
    BY <1>1, <2>5 DEF LoginQuiet, WorkInv, WorkTyped
  <2>7. {"step", "at", "t"} \subseteq DOMAIN tx'
    BY <1>3 DEF Enter, NoTx
  <2>8. submitted' \subseteq Threads /\ recQ' \in Seq({"prep", "cancel", "defer"}) /\ {"at", "t"} \subseteq DOMAIN prep'
    BY <1>1 DEF WorkInv, WorkTyped
  <2> QED
    BY <1>1, <2>2, <2>3, <2>4, <2>6, <2>7, <2>8, ShimKeeps
<1> QED
  BY <1>2, <1>3 DEF DrainPending

(* A step of the transaction that concerns accounts.                        *)
AccountSteps == {"login", "identity", "activate", "undoLogin", "undoIdentity", "undoActivate"}

LEMMA AccountWork ==
  ASSUME WorkInv, tx.step \in AccountSteps, DOMAIN tx' = DOMAIN tx, tx'.step = "login" => tx.step = "login",
         UNCHANGED <<toChild, pipe, owed, run, begun, ordinary, goal, submitted, active, ended, recQ, prep, rec>>
  PROVE  WorkInv'
<1>1. tx.step # "off" /\ tx.step \notin DOMAIN ThreadStepKind
  BY ThreadSteps DEF AccountSteps
<1>2. WaitersStay /\ QuietTurns
  BY <1>1 DEF WaitersStay, QuietTurns
<1>3. toChild' \in [Threads -> Seq(CallType)] /\ \A u \in Threads : ThreadFits(u)'
  BY <1>2, AsksNone
<1>4. PrepOnce' /\ NothingSubmitted' /\ LoginQuiet'
  BY <1>1 DEF WorkInv, PrepOnce, AtRecovery, NothingSubmitted, LoginQuiet
<1>5. /\ submitted' \subseteq Threads /\ recQ' \in Seq({"prep", "cancel", "defer"})
      /\ {"at", "t"} \subseteq DOMAIN prep' /\ {"step", "at", "t"} \subseteq DOMAIN tx'
  BY DEF WorkInv, WorkTyped
<1> QED
  BY <1>2, <1>3, <1>4, <1>5, ShimKeeps

LEMMA EnterKeepsFields ==
  ASSUME NEW x, {"step", "at", "t"} \subseteq DOMAIN x, NEW step, NEW todo
  PROVE  DOMAIN Enter(x, step, todo) = DOMAIN x /\ Enter(x, step, todo).step = step /\ Enter(x, step, todo).at = "next"
BY DEF Enter

LEMMA UndoFields ==
  ASSUME NEW x, {"step", "at", "t"} \subseteq DOMAIN x
  PROVE  /\ DOMAIN UndoAfterLogin(x) = DOMAIN x /\ UndoAfterLogin(x).step \notin {"login", "continue", "off"}
         /\ DOMAIN UndoFrom(x) = DOMAIN x /\ UndoFrom(x).step \notin {"login", "continue", "off"}
<1>1. \A step, todo : DOMAIN Enter(x, step, todo) = DOMAIN x /\ Enter(x, step, todo).step = step
  BY EnterKeepsFields
<1>2. DOMAIN UndoAfterLogin(x) = DOMAIN x /\ UndoAfterLogin(x).step \notin {"login", "continue", "off"}
  BY <1>1 DEF UndoAfterLogin
<1> QED
  BY <1>1, <1>2 DEF UndoFrom

LEMMA TxCallWork ==
  ASSUME WorkInv, TxCall
  PROVE  WorkInv'
<1>1. /\ UNCHANGED <<pipe, owed, run, begun, ordinary, goal, submitted, active, ended, recQ, prep, rec>>
      /\ tx.step \in AccountSteps /\ toChild' = toChild
      /\ tx' = [tx EXCEPT !.at = "await", !.attempted = @ \/ tx.step = "activate"]
  BY DEF TxCall, tableVars, ChildStep, ManagerStep, AccountSteps
<1>2. DOMAIN tx' = DOMAIN tx /\ tx'.step = tx.step
  BY <1>1 DEF WorkInv, WorkTyped
<1> QED
  BY <1>1, <1>2, AccountWork

LEMMA TxNoCredentialsWork ==
  ASSUME WorkInv, TxNoCredentials
  PROVE  WorkInv'
<1>1. /\ UNCHANGED <<toChild, pipe, owed, run, begun, ordinary, goal, submitted, active, ended, recQ, prep, rec>>
      /\ tx.step \in AccountSteps /\ tx' = [tx EXCEPT !.at = "await"]
  BY DEF TxNoCredentials, tableVars, childVars, AccountSteps
<1>2. DOMAIN tx' = DOMAIN tx /\ tx'.step = tx.step
  BY <1>1 DEF WorkInv, WorkTyped
<1> QED
  BY <1>1, <1>2, AccountWork

LEMMA AccountStepWork ==
  ASSUME WorkInv, NEW ok, AccountStepSettles(ok),
         UNCHANGED <<toChild, pipe, owed, run, begun, ordinary, goal, submitted, active, ended, recQ, prep, rec>>
  PROVE  WorkInv'
<1>1. {"step", "at", "t"} \subseteq DOMAIN tx
  BY DEF WorkInv, WorkTyped
<1>2. \A step, todo : DOMAIN Enter(tx, step, todo) = DOMAIN tx /\ Enter(tx, step, todo).step = step
  BY <1>1, EnterKeepsFields
<1>3. PICK x : x = [tx EXCEPT !.applied = TRUE]
  OBVIOUS
<1>4. \A step, todo : DOMAIN Enter(x, step, todo) = DOMAIN tx /\ Enter(x, step, todo).step = step
  <2>1. DOMAIN x = DOMAIN tx
    BY <1>3
  <2> QED
    BY <1>1, <2>1, EnterKeepsFields
<1>5. /\ DOMAIN UndoAfterLogin(tx) = DOMAIN tx /\ UndoAfterLogin(tx).step # "login"
      /\ DOMAIN UndoFrom(tx) = DOMAIN tx /\ UndoFrom(tx).step # "login"
  BY <1>1, UndoFields
<1>6. tx.step \in AccountSteps
  BY DEF AccountStepSettles, AccountSteps
<1>7. \/ \E todo : tx' = Enter(x, "identity", todo)
      \/ \E todo : \E step \in {"activate", "resume", "undoIdentity", "undoResume"} : tx' = Enter(tx, step, todo)
      \/ tx' = UndoAfterLogin(tx) \/ tx' = UndoFrom(tx)
  BY <1>3 DEF AccountStepSettles
<1>8. DOMAIN tx' = DOMAIN tx /\ tx'.step # "login"
  <2>1. CASE \E todo : tx' = Enter(x, "identity", todo)
    BY <1>4, <2>1
  <2>2. CASE \E todo : \E step \in {"activate", "resume", "undoIdentity", "undoResume"} : tx' = Enter(tx, step, todo)
    BY <1>2, <2>2
  <2>3. CASE tx' = UndoAfterLogin(tx) \/ tx' = UndoFrom(tx)
    BY <1>5, <2>3
  <2> QED
    BY <1>7, <2>1, <2>2, <2>3
<1> QED
  BY <1>6, <1>8, AccountWork

LEMMA ReadAccountAnswerWork ==
  ASSUME WorkInv, ReadAccountAnswer
  PROVE  WorkInv'
<1>1. UNCHANGED <<toChild, pipe, owed, run, begun, ordinary, goal, submitted, active, ended, recQ, prep, rec>>
  BY DEF ReadAccountAnswer, childVars
<1>2. CASE AccountStepSettles(answer = "ok")
  <2>1. PICK ok : AccountStepSettles(ok)
    BY <1>2
  <2> QED
    BY <1>1, <2>1, AccountStepWork
<1>3. CASE tx.step \in {"identity", "undoIdentity"} /\ tx' = [tx EXCEPT !.at = "next"]
  <2>1. tx.step \in AccountSteps /\ DOMAIN tx' = DOMAIN tx /\ tx'.step = tx.step
    BY <1>3 DEF AccountSteps, WorkInv, WorkTyped
  <2> QED
    BY <1>1, <2>1, AccountWork
<1> QED
  BY <1>2, <1>3 DEF ReadAccountAnswer

LEMMA AccountStepTimerWork ==
  ASSUME WorkInv, AccountStepTimer
  PROVE  WorkInv'
<1>1. UNCHANGED <<toChild, pipe, owed, run, begun, ordinary, goal, submitted, active, ended, recQ, prep, rec>>
  BY DEF AccountStepTimer
<1>2. AccountStepSettles(FALSE)
  BY DEF AccountStepTimer
<1> QED
  BY <1>1, <1>2, AccountStepWork

LEMMA TxNextThreadWork ==
  ASSUME WorkInv, TxNextThread
  PROVE  WorkInv'
<1>1. /\ QuietTurns /\ UNCHANGED <<submitted, prep, rec, recQ>>
      /\ tx.step \in DOMAIN ThreadStepKind /\ tx.at = "next" /\ {"step", "at", "t"} \subseteq DOMAIN tx
  BY DEF TxNextThread, QuietTurns, tableVars, WorkInv, WorkTyped
<1>2. tx.step \in {"resume", "undoResume", "continue"}
  BY <1>1, ThreadSteps
<1>3. WaitersStay
  BY <1>1 DEF WaitersStay
<1>4. submitted = {}
  BY <1>2 DEF WorkInv, NothingSubmitted
<1>5. PrepOnce' /\ NothingSubmitted' /\ submitted' \subseteq Threads /\ recQ' \in Seq({"prep", "cancel", "defer"})
      /\ {"at", "t"} \subseteq DOMAIN prep'
  BY <1>1, <1>4 DEF WorkInv, WorkTyped, PrepOnce, AtRecovery, NothingSubmitted
<1>6. CASE \E t \in tx.todo :
             /\ tx' = [tx EXCEPT !.at = "await", !.t = t, !.todo = @ \ {t}]
             /\ toChild' = Put(toChild, t, Call(ThreadStepKind[tx.step], "main", 0))
  <2>1. PICK t \in tx.todo :
             /\ tx' = [tx EXCEPT !.at = "await", !.t = t, !.todo = @ \ {t}]
             /\ toChild' = Put(toChild, t, Call(ThreadStepKind[tx.step], "main", 0))
    BY <1>6
  <2>2. DOMAIN tx' = DOMAIN tx /\ tx'.step = tx.step /\ tx'.at = "await" /\ tx'.t = t
    BY <1>1, <2>1
  <2>3. PICK c : c = Call(ThreadStepKind[tx.step], "main", 0)
    OBVIOUS
  <2>4. /\ c \in CallType /\ c.by = "main" /\ c.n = 0 /\ c.kind \in {"resume", "continue"}
        /\ c.kind = "continue" => tx.step = "continue"
    <3>1. ThreadStepKind[tx.step] \in {"resume", "continue"} /\ (ThreadStepKind[tx.step] = "continue" => tx.step = "continue")
      BY <1>2 DEF ThreadStepKind
    <3>2. "main" \in Waiters /\ 0 \in 0..MaxTurns
      BY SwitchBarrierAssumption DEF Waiters
    <3>3. c = [kind |-> ThreadStepKind[tx.step], by |-> "main", n |-> 0]
      BY <2>3 DEF Call
    <3> QED
      BY <3>1, <3>2, <3>3 DEF CallType
  <2>5. ASSUME t \in Threads PROVE CallFits(t, c)' /\ ~OutNow(t, "main") /\ Waits(t, "main")'
    <3>1. 0 <= begun[t] /\ begun' = begun
      <4>1. begun[t] \in 0..MaxTurns /\ MaxTurns \in Nat
        BY <2>5, ThreadTypes DEF WorkInv
      <4> QED
        BY <1>1, <4>1 DEF QuietTurns
    <3>2. CallFits(t, c)'
      BY <2>2, <2>4, <3>1 DEF CallFits
    <3>3. ~OutNow(t, "main")
      BY <1>1, <2>5 DEF WorkInv, ThreadFits, OneOut, Waits, Awaited
    <3>4. Waits(t, "main")'
      BY <1>1, <2>2 DEF Waits
    <3> QED
      BY <3>2, <3>3, <3>4
  <2>6. toChild' \in [Threads -> Seq(CallType)] /\ \A u \in Threads : ThreadFits(u)'
    BY <1>1, <1>3, <2>1, <2>3, <2>4, <2>5, AsksAny
  <2>7. LoginQuiet' /\ {"step", "at", "t"} \subseteq DOMAIN tx'
    BY <1>1, <1>2, <2>2 DEF LoginQuiet
  <2> QED
    BY <1>1, <1>5, <2>6, <2>7, ShimKeeps
<1>7. CASE toChild' = toChild /\ (tx' = NoTx \/ tx' = Enter(tx, "continue", req.recovery))
  <2>1. tx'.step # "login" /\ {"step", "at", "t"} \subseteq DOMAIN tx'
    <3>1. CASE tx' = NoTx
      BY <3>1 DEF NoTx
    <3>2. CASE tx' = Enter(tx, "continue", req.recovery)
      BY <1>1, <3>2, EnterKeepsFields
    <3> QED
      BY <1>7, <3>1, <3>2
  <2>2. LoginQuiet'
    BY <2>1 DEF LoginQuiet
  <2>3. toChild' \in [Threads -> Seq(CallType)] /\ \A u \in Threads : ThreadFits(u)'
    BY <1>1, <1>3, <1>7, AsksNone
  <2> QED
    BY <1>1, <1>5, <2>1, <2>2, <2>3, ShimKeeps
<1> QED
  BY <1>6, <1>7 DEF TxNextThread

-----------------------------------------------------------------------------
(* Steps of the shim that read a line.                                      *)
LEMMA HeadLine ==
  ASSUME WorkInv, NEW t \in Threads, pipe[t] # <<>>, NEW m, m = Head(pipe[t])
  PROVE  /\ m \in LineType /\ m.n \in 0..MaxTurns /\ m.n <= begun[t] /\ m.by \in Waiters
         /\ m.type = "started" \/ m.val \in {"ok", "replaced"} => m.n # 0
         /\ m.by \in Awaited => Waits(t, m.by)
<1>1. WorkTyped /\ TurnsFit(t) /\ \A b \in Awaited : OneOut(t, b)
  BY DEF WorkInv, ThreadFits
<1>2. PICK p \in Seq(LineType) : p = pipe[t]
  BY <1>1, ThreadTypes
<1>3. m = p[1] /\ 1 \in DOMAIN p /\ m \in Elems(p)
  <2>1. p # <<>> /\ m = Head(p)
    BY <1>2
  <2> QED
    BY <2>1, TailTakes
<1>4. m \in LineType
  <2>1. \A i \in DOMAIN p : p[i] \in LineType
    BY <1>2
  <2> QED
    BY <1>3, <2>1
<1>5. m.n \in 0..MaxTurns /\ m.by \in Waiters
  BY <1>4 DEF LineType
<1>6. m.n <= begun[t] /\ (m.type = "started" \/ m.val \in {"ok", "replaced"} => m.n # 0)
  BY <1>1, <1>2, <1>3 DEF TurnsFit
<1>7. OutNow(t, m.by)
  BY <1>2, <1>3 DEF OutNow, Out
<1> QED
  BY <1>1, <1>4, <1>5, <1>6, <1>7 DEF OneOut

(* What becomes of the tables of turns, on the thread of the line only.     *)
TablesMove(t, m) ==
  /\ active' \in [Threads -> 0..MaxTurns] /\ ended' \in [Threads -> 0..MaxTurns]
  /\ \A u \in Threads : u # t => active'[u] = active[u] /\ ended'[u] = ended[u]
  /\ ReadAs(t, m)

LEMMA TablesStay ==
  ASSUME WorkInv, NEW t \in Threads, NEW m, m.type # "started", UNCHANGED <<active, ended>>
  PROVE  TablesMove(t, m)
<1>1. active[t] \in 0..MaxTurns /\ ended[t] \in 0..MaxTurns /\ WorkTyped
  BY ThreadTypes DEF WorkInv
<1>2. ReadAs(t, m)
  BY <1>1 DEF ReadAs
<1> QED
  BY <1>1, <1>2 DEF TablesMove, WorkTyped

LEMMA TablesSet ==
  ASSUME WorkInv, NEW t \in Threads, NEW m, NEW a \in 0..MaxTurns, NEW e \in 0..MaxTurns,
         active' = [active EXCEPT ![t] = a], ended' = [ended EXCEPT ![t] = e],
         a \in {active[t], m.n} \/ (SaysIdle(m) /\ a = 0),
         a = 0 => active[t] = 0 \/ SaysIdle(m),
         m.type = "started" => a = m.n \/ m.n <= ended[t],
         \/ e = ended[t]
         \/ SaysIdle(m) /\ e \in {m.n, active[t]}
         \/ m.n # 0 /\ e = m.n - 1
  PROVE  TablesMove(t, m)
<1>1. active \in [Threads -> 0..MaxTurns] /\ ended \in [Threads -> 0..MaxTurns]
  BY DEF WorkInv, WorkTyped
<1>2. /\ active' \in [Threads -> 0..MaxTurns] /\ ended' \in [Threads -> 0..MaxTurns]
      /\ active'[t] = a /\ ended'[t] = e
      /\ \A u \in Threads : u # t => active'[u] = active[u] /\ ended'[u] = ended[u]
  BY <1>1
<1>3. ReadAs(t, m)
  BY <1>2 DEF ReadAs
<1> QED
  BY <1>2, <1>3 DEF TablesMove

LEMMA ReadWork ==
  ASSUME WorkInv, NEW t \in Threads, NEW m, m = Head(pipe[t]), pipe[t] # <<>>,
         pipe' = [pipe EXCEPT ![t] = Tail(@)], UNCHANGED <<owed, run, begun, ordinary, goal>>,
         TablesMove(t, m), AsksOn(t, m),
         \A u \in Threads : \A b \in Awaited : Waits(u, b) /\ (u # t \/ b # m.by) => Waits(u, b)',
         tx.step = "continue" => tx'.step = "continue",
         submitted' \subseteq submitted, recQ' \in Seq({"prep", "cancel", "defer"}),
         {"at", "t"} \subseteq DOMAIN prep', {"step", "at", "t"} \subseteq DOMAIN tx',
         rec' = rec \/ {"at", "t"} \subseteq DOMAIN rec',
         PrepOnce', tx.step = "off" => tx' = tx, tx'.step = "login" => tx' = tx
  PROVE  WorkInv'
<1>1. \A u \in Threads : \A b \in Awaited : OutNow(u, b) /\ (u # t \/ b # m.by) => Waits(u, b)'
  BY DEF WorkInv, ThreadFits, OneOut
<1>2. /\ toChild' \in [Threads -> Seq(CallType)] /\ pipe' \in [Threads -> Seq(LineType)]
      /\ \A u \in Threads : ThreadFits(u)'
  BY <1>1, ReadKeeps DEF TablesMove
<1>3. WorkTyped'
  BY <1>2 DEF WorkInv, WorkTyped, TablesMove
<1>4. NothingSubmitted' /\ LoginQuiet'
  BY DEF WorkInv, NothingSubmitted, LoginQuiet
<1> QED
  BY <1>2, <1>3, <1>4 DEF WorkInv

(* The shim learns of a turn, or of its end, and asks nobody for anything.  *)
LEMMA ReadTurnWork ==
  ASSUME WorkInv, NEW t \in Threads, NEW m, m = Head(pipe[t]), pipe[t] # <<>>,
         pipe' = [pipe EXCEPT ![t] = Tail(@)],
         UNCHANGED <<toChild, owed, run, begun, ordinary, goal, prep, rec, tx>>,
         TablesMove(t, m), submitted' \in {submitted, submitted \ {t}},
         submitted' # submitted => m.by = "client",
         PrepOnce', recQ' \in Seq({"prep", "cancel", "defer"})
  PROVE  WorkInv'
<1>1. \A u \in Threads : \A b \in Awaited : Waits(u, b) /\ (u # t \/ b # m.by) => Waits(u, b)'
  BY DEF Waits
<1>2. AsksOn(t, m)
  BY DEF AsksOn
<1>3. /\ {"at", "t"} \subseteq DOMAIN prep' /\ {"step", "at", "t"} \subseteq DOMAIN tx'
      /\ submitted' \subseteq submitted
  BY DEF WorkInv, WorkTyped
<1> QED
  BY <1>1, <1>2, <1>3, ReadWork

LEMMA ReadStartedWork ==
  ASSUME WorkInv, NEW t \in Threads, ReadStarted(t)
  PROVE  WorkInv'
<1>1. PICK m : m = Head(pipe[t])
  OBVIOUS
<1>2. /\ pipe[t] # <<>> /\ pipe' = [pipe EXCEPT ![t] = Tail(@)] /\ m.type = "started"
      /\ active' = [active EXCEPT ![t] = IF m.n > ended[t] THEN m.n ELSE @]
      /\ UNCHANGED <<toChild, owed, run, begun, ordinary, goal, submitted, ended, prep, rec, tx, recQ>>
  BY <1>1 DEF ReadStarted, Reads, switchVars
<1>3. /\ m \in LineType /\ m.n \in 0..MaxTurns /\ m.n # 0 /\ active[t] \in 0..MaxTurns /\ ended[t] \in 0..MaxTurns
  BY <1>1, <1>2, HeadLine, ThreadTypes DEF WorkInv
<1>4. TablesMove(t, m)
  <2>1. PICK a \in 0..MaxTurns : a = IF m.n > ended[t] THEN m.n ELSE active[t]
    BY <1>3
  <2>2. PICK e \in 0..MaxTurns : e = ended[t]
    BY <1>3
  <2>3. active' = [active EXCEPT ![t] = a]
    BY <1>2, <2>1
  <2>4. ended' = [ended EXCEPT ![t] = e]
    BY <1>2, <2>2 DEF WorkInv, WorkTyped
  <2>5. /\ a \in {active[t], m.n} /\ (a = 0 => active[t] = 0) /\ (a = m.n \/ m.n <= ended[t])
    BY <1>3, <2>1, SwitchBarrierAssumption
  <2> QED
    BY <2>2, <2>3, <2>4, <2>5, TablesSet
<1>5. PrepOnce' /\ recQ' \in Seq({"prep", "cancel", "defer"})
  BY <1>2 DEF WorkInv, WorkTyped, PrepOnce, AtRecovery
<1> QED
  BY <1>1, <1>2, <1>4, <1>5, ReadTurnWork

LEMMA ReadEndedWork ==
  ASSUME WorkInv, NEW t \in Threads, ReadEnded(t)
  PROVE  WorkInv'
<1>1. PICK m : m = Head(pipe[t])
  OBVIOUS
<1>2. /\ pipe[t] # <<>> /\ pipe' = [pipe EXCEPT ![t] = Tail(@)] /\ m.type = "ended"
      /\ active' = [active EXCEPT ![t] = IF @ = m.n THEN 0 ELSE @]
      /\ ended' = [ended EXCEPT ![t] = IF m.n > @ THEN m.n ELSE @]
      /\ UNCHANGED <<toChild, owed, run, begun, ordinary, goal, submitted, prep, rec, tx, recQ>>
  BY <1>1 DEF ReadEnded, Reads
<1>3. /\ m \in LineType /\ m.n \in 0..MaxTurns /\ active[t] \in 0..MaxTurns /\ ended[t] \in 0..MaxTurns
  BY <1>1, <1>2, HeadLine, ThreadTypes DEF WorkInv
<1>4. TablesMove(t, m)
  <2>1. PICK a : a = IF active[t] = m.n THEN 0 ELSE active[t]
    OBVIOUS
  <2>2. PICK e : e = IF m.n > ended[t] THEN m.n ELSE ended[t]
    OBVIOUS
  <2>3. active' = [active EXCEPT ![t] = a] /\ ended' = [ended EXCEPT ![t] = e]
    BY <1>2, <2>1, <2>2
  <2>4. SaysIdle(m) /\ a \in 0..MaxTurns /\ e \in 0..MaxTurns
    BY <1>2, <1>3, <2>1, <2>2, SwitchBarrierAssumption DEF SaysIdle
  <2>5. (a = active[t] \/ a = 0) /\ (e = ended[t] \/ e = m.n) /\ m.type # "started"
    BY <1>2, <2>1, <2>2
  <2> QED
    BY <2>3, <2>4, <2>5, TablesSet
<1>5. PrepOnce' /\ recQ' \in Seq({"prep", "cancel", "defer"})
  BY <1>2 DEF WorkInv, WorkTyped, PrepOnce, AtRecovery
<1> QED
  BY <1>1, <1>2, <1>4, <1>5, ReadTurnWork

LEMMA ReadStartAnswerWork ==
  ASSUME WorkInv, NEW t \in Threads, ReadStartAnswer(t)
  PROVE  WorkInv'
<1>1. PICK m : m = Head(pipe[t])
  OBVIOUS
<1>2. /\ pipe[t] # <<>> /\ pipe' = [pipe EXCEPT ![t] = Tail(@)] /\ m.type = "reply" /\ m.by = "client"
      /\ active' = [active EXCEPT ![t] = IF m.val = "ok" /\ m.n > ended[t] THEN m.n ELSE @]
      /\ submitted' = submitted \ {t}
      /\ UNCHANGED <<toChild, owed, run, begun, ordinary, goal, ended, prep, rec, tx, recQ>>
  BY <1>1 DEF ReadStartAnswer, Reads
<1>3. /\ m \in LineType /\ m.n \in 0..MaxTurns /\ active[t] \in 0..MaxTurns /\ ended[t] \in 0..MaxTurns
      /\ m.val = "ok" => m.n # 0
  BY <1>1, <1>2, HeadLine, ThreadTypes DEF WorkInv
<1>4. TablesMove(t, m)
  <2>1. PICK a : a = IF m.val = "ok" /\ m.n > ended[t] THEN m.n ELSE active[t]
    OBVIOUS
  <2>2. PICK e \in 0..MaxTurns : e = ended[t]
    BY <1>3
  <2>3. active' = [active EXCEPT ![t] = a]
    BY <1>2, <2>1
  <2>4. ended' = [ended EXCEPT ![t] = e]
    BY <1>2, <2>2 DEF WorkInv, WorkTyped
  <2>5. a \in 0..MaxTurns /\ (a = active[t] \/ (a = m.n /\ m.n # 0)) /\ m.type # "started"
    BY <1>2, <1>3, <2>1
  <2> QED
    BY <2>2, <2>3, <2>4, <2>5, TablesSet
<1>5. PrepOnce' /\ recQ' \in Seq({"prep", "cancel", "defer"})
  BY <1>2 DEF WorkInv, WorkTyped, PrepOnce, AtRecovery
<1> QED
  BY <1>1, <1>2, <1>4, <1>5, ReadTurnWork

(* The shim reads an answer it has asked for itself.                        *)
AnswerRead(t, m) ==
  /\ m = Head(pipe[t]) /\ pipe[t] # <<>> /\ pipe' = [pipe EXCEPT ![t] = Tail(@)] /\ m.type = "reply"
  /\ UNCHANGED <<owed, run, begun, ordinary, goal, submitted>>

LEMMA PrepareReplyWork ==
  ASSUME WorkInv, NEW t \in Threads, NEW m, AnswerRead(t, m), m.by = "prep", PrepareReply(m.val), tx' = tx, rec' = rec
  PROVE  WorkInv'
<1>1. /\ m \in LineType /\ m.n \in 0..MaxTurns /\ prep.at \in {"goalGet", "pause"} /\ prep.t = t
  <2>1. m.by \in Awaited /\ pipe[t] # <<>> /\ m = Head(pipe[t])
    BY DEF AnswerRead, Awaited
  <2>2. m \in LineType /\ m.n \in 0..MaxTurns /\ Waits(t, m.by)
    BY <2>1, HeadLine
  <2> QED
    BY <2>2 DEF Waits
<1>2. {"at", "t"} \subseteq DOMAIN prep /\ {"step", "at", "t"} \subseteq DOMAIN tx'
  BY DEF WorkInv, WorkTyped
<1>3. \E x \in {"next", "late", "recover", "pause"} : prep' = [prep EXCEPT !.at = x]
  BY <1>1 DEF PrepareReply, PrepareFails, PrepareMissing, PrepareAsksPause, PrepareContinues, PreparePaused
<1>4. PICK x \in {"next", "late", "recover", "pause"} : prep' = [prep EXCEPT !.at = x]
  BY <1>3
<1>5. {"at", "t"} \subseteq DOMAIN prep' /\ prep'.at = x /\ prep'.t = t
  BY <1>1, <1>2, <1>4
<1>6. recQ' = recQ \/ (recQ' = Append(recQ, "prep") /\ prep'.at \in {"late", "recover"})
  BY <1>1, <1>2 DEF PrepareReply, PrepareFails, PrepareMissing, PrepareAsksPause, PrepareContinues, PreparePaused
<1>7. recQ' \in Seq({"prep", "cancel", "defer"}) /\ PrepOnce'
  <2>1. CASE recQ' = recQ
    <3>1. \A i \in DOMAIN recQ : recQ[i] # "prep"
      BY <1>1 DEF WorkInv, PrepOnce, AtRecovery
    <3> QED
      BY <2>1, <3>1 DEF WorkInv, WorkTyped, PrepOnce, AtRecovery
  <2>2. CASE recQ' = Append(recQ, "prep") /\ prep'.at \in {"late", "recover"}
    BY <1>1, <2>2, RecoveryQueues DEF AtRecovery
  <2> QED
    BY <1>6, <2>1, <2>2
<1>8. TablesMove(t, m)
  <2>1. m.type # "started"
    BY DEF AnswerRead
  <2>2. CASE UNCHANGED <<active, ended>>
    BY <2>1, <2>2, TablesStay
  <2>3. CASE m.val = "missing" /\ PrepareMissing(t)
    <3>1. PICK e : e = IF active[t] > ended[t] THEN active[t] ELSE ended[t]
      OBVIOUS
    <3>2. active' = [active EXCEPT ![t] = 0] /\ ended' = [ended EXCEPT ![t] = e]
      BY <2>3, <3>1 DEF PrepareMissing
    <3>3. /\ active[t] \in 0..MaxTurns /\ ended[t] \in 0..MaxTurns /\ MaxTurns \in Nat /\ 0 \in 0..MaxTurns
      BY ThreadTypes, SwitchBarrierAssumption DEF WorkInv
    <3>4. SaysIdle(m) /\ e \in 0..MaxTurns /\ (e = ended[t] \/ e = active[t])
      BY <2>3, <3>1, <3>3 DEF SaysIdle
    <3> QED
      BY <2>1, <3>2, <3>3, <3>4, TablesSet
  <2> QED
    BY <1>1, <2>2, <2>3 DEF PrepareReply, PrepareFails, PrepareAsksPause, PrepareContinues, PreparePaused
<1>9. AsksOn(t, m)
  <2>1. CASE toChild' = toChild
    BY <2>1 DEF AsksOn
  <2>2. CASE PrepareAsksPause(t)
    <3>1. PICK c : c = Call("pause", "prep", 0)
      OBVIOUS
    <3>2. toChild' = Put(toChild, t, c) /\ prep'.at = "pause"
      BY <1>2, <2>2, <3>1 DEF PrepareAsksPause
    <3>3. c \in CallType /\ c.by = "prep" /\ c.n = 0 /\ c.kind \notin {"start", "continue", "interrupt"}
      <4>1. "prep" \in Waiters
        BY DEF Waiters
      <4> QED
        BY <3>1, <4>1, GoalCallFields
    <3>4. CallFits(t, c)'
      <4>1. begun' = begun
        BY DEF AnswerRead
      <4> QED
        BY <3>3, <4>1, GoalCallFits
    <3>5. Waits(t, "prep")'
      BY <1>5, <3>2 DEF Waits
    <3> QED
      BY <3>2, <3>3, <3>4, <3>5 DEF AsksOn
  <2> QED
    BY <1>1, <2>1, <2>2 DEF PrepareReply
<1>10. \A u \in Threads : \A b \in Awaited : Waits(u, b) /\ (u # t \/ b # m.by) => Waits(u, b)'
  BY <1>1 DEF Waits, AnswerRead
<1>11. submitted' \subseteq submitted
  BY DEF AnswerRead
<1> QED
  BY <1>2, <1>5, <1>7, <1>8, <1>9, <1>10, <1>11, ReadWork DEF AnswerRead

LEMMA RecoverReplyWork ==
  ASSUME WorkInv, NEW t \in Threads, NEW m, AnswerRead(t, m), m.by = "rec", RecoverReply(m.val),
         UNCHANGED <<toChild, active, ended, prep, recQ, tx>>
  PROVE  WorkInv'
<1>1. rec.at = "await" /\ rec.t = t
  <2>1. m.by \in Awaited /\ pipe[t] # <<>> /\ m = Head(pipe[t])
    BY DEF AnswerRead, Awaited
  <2>2. Waits(t, m.by)
    BY <2>1, HeadLine
  <2> QED
    BY <2>2 DEF Waits
<1>2. TablesMove(t, m) /\ AsksOn(t, m)
  BY TablesStay DEF AnswerRead, AsksOn
<1>3. PrepOnce' /\ recQ' \in Seq({"prep", "cancel", "defer"})
  BY DEF WorkInv, WorkTyped, PrepOnce, AtRecovery
<1>4. \A u \in Threads : \A b \in Awaited : Waits(u, b) /\ (u # t \/ b # m.by) => Waits(u, b)'
  BY <1>1 DEF Waits, AnswerRead, Awaited
<1>5. {"at", "t"} \subseteq DOMAIN prep' /\ {"step", "at", "t"} \subseteq DOMAIN tx' /\ submitted' \subseteq submitted
  BY DEF WorkInv, WorkTyped, AnswerRead
<1>6. {"at", "t"} \subseteq DOMAIN rec'
  <2>1. DOMAIN rec' = DOMAIN rec
    BY DEF RecoverReply
  <2> QED
    BY <2>1 DEF WorkInv, WorkTyped
<1> QED
  BY <1>2, <1>3, <1>4, <1>5, <1>6, ReadWork DEF AnswerRead

(* An answer nobody waits for.                                              *)
LEMMA StaleReplyWork ==
  ASSUME WorkInv, NEW t \in Threads, NEW m, AnswerRead(t, m),
         UNCHANGED <<toChild, active, ended, prep, rec, recQ, tx>>
  PROVE  WorkInv'
<1>1. TablesMove(t, m)
  BY TablesStay DEF AnswerRead
<1>2. PrepOnce' /\ recQ' \in Seq({"prep", "cancel", "defer"})
  BY DEF WorkInv, WorkTyped, PrepOnce, AtRecovery
<1> QED
  BY <1>1, <1>2, ReadTurnWork DEF AnswerRead

LEMMA InterruptQueues ==
  ASSUME NEW t, NEW r, InterruptDone(t, r)
  PROVE  recQ' = recQ \/ recQ' = Append(recQ, "defer")
BY DEF InterruptDone, Defer

LEMMA InterruptReplyWork ==
  ASSUME WorkInv, NEW t \in Threads, NEW m, AnswerRead(t, m), InterruptReply(t, m.by, m.val, m.n),
         UNCHANGED <<prep, rec, tx>>
  PROVE  WorkInv'
<1>1. /\ m \in LineType /\ m.n \in 0..MaxTurns /\ m.n <= begun[t] /\ (m.val = "replaced" => m.n # 0)
      /\ m.type = "reply"
  BY HeadLine DEF AnswerRead
<1>2. /\ active[t] \in 0..MaxTurns /\ ended[t] \in 0..MaxTurns /\ MaxTurns \in Nat /\ 0 \in 0..MaxTurns
  BY ThreadTypes, SwitchBarrierAssumption DEF WorkInv
<1>3. recQ' = recQ \/ recQ' = Append(recQ, "defer")
  BY InterruptQueues DEF InterruptReply, OlderSettled
<1>4. recQ' \in Seq({"prep", "cancel", "defer"}) /\ PrepOnce'
  <2>1. CASE recQ' = recQ
    BY <2>1 DEF WorkInv, WorkTyped, PrepOnce, AtRecovery
  <2>2. CASE recQ' = Append(recQ, "defer")
    BY <2>2, RecoveryQueues DEF AtRecovery
  <2> QED
    BY <1>3, <2>1, <2>2
<1>5. /\ {"at", "t"} \subseteq DOMAIN prep' /\ {"step", "at", "t"} \subseteq DOMAIN tx' /\ submitted' \subseteq submitted
  BY DEF WorkInv, WorkTyped, AnswerRead
<1>6. \A u \in Threads : \A b \in Awaited : Waits(u, b) => Waits(u, b)'
  BY DEF Waits, AnswerRead
<1>7. TablesMove(t, m) /\ AsksOn(t, m)
  <2>1. CASE UNCHANGED <<toChild, active, ended>>
    BY <1>1, <2>1, TablesStay DEF AsksOn
  <2>2. CASE /\ m.val = "inactive" /\ toChild' = toChild
             /\ active' = [active EXCEPT ![t] = IF @ = m.n THEN 0 ELSE @]
             /\ ended' = [ended EXCEPT ![t] = IF m.n > @ THEN m.n ELSE @]
    <3>1. PICK a : a = IF active[t] = m.n THEN 0 ELSE active[t]
      OBVIOUS
    <3>2. PICK e : e = IF m.n > ended[t] THEN m.n ELSE ended[t]
      OBVIOUS
    <3>3. active' = [active EXCEPT ![t] = a] /\ ended' = [ended EXCEPT ![t] = e]
      BY <2>2, <3>1, <3>2
    <3>4. SaysIdle(m) /\ a \in 0..MaxTurns /\ e \in 0..MaxTurns
      BY <1>1, <1>2, <2>2, <3>1, <3>2 DEF SaysIdle
    <3>5. (a = active[t] \/ a = 0) /\ (e = ended[t] \/ e = m.n) /\ m.type # "started"
      BY <1>1, <3>1, <3>2
    <3>6. TablesMove(t, m)
      BY <3>3, <3>4, <3>5, TablesSet
    <3> QED
      BY <2>2, <3>6 DEF AsksOn
  <2>3. CASE /\ m.val = "replaced"
             /\ active' = [active EXCEPT ![t] = m.n]
             /\ ended' = [ended EXCEPT ![t] = IF m.n - 1 > @ THEN m.n - 1 ELSE @]
             /\ \E b \in {"again", "oldAgain"} : toChild' = Put(toChild, t, Call("interrupt", b, m.n))
    <3>1. PICK e : e = IF m.n - 1 > ended[t] THEN m.n - 1 ELSE ended[t]
      OBVIOUS
    <3>2. active' = [active EXCEPT ![t] = m.n] /\ ended' = [ended EXCEPT ![t] = e]
      BY <2>3, <3>1
    <3>3. m.n # 0 /\ e \in 0..MaxTurns /\ (e = ended[t] \/ e = m.n - 1) /\ m.type # "started"
      BY <1>1, <1>2, <2>3, <3>1
    <3>4. TablesMove(t, m)
      BY <1>1, <3>2, <3>3, TablesSet
    <3>5. PICK b \in {"again", "oldAgain"} : toChild' = Put(toChild, t, Call("interrupt", b, m.n))
      BY <2>3
    <3>6. PICK c : c = Call("interrupt", b, m.n)
      OBVIOUS
    <3>7. c.kind = "interrupt" /\ c.by = b /\ c.n = m.n /\ c \in CallType /\ b \notin Awaited
      <4>1. b \in Waiters /\ b \notin Awaited
        BY <3>5 DEF Waiters, Awaited
      <4> QED
        BY <1>1, <3>6, <4>1 DEF Call, CallType
    <3>8. CallFits(t, c)'
      BY <1>1, <3>3, <3>7 DEF CallFits, AnswerRead
    <3>9. AsksOn(t, m)
      BY <3>5, <3>6, <3>7, <3>8 DEF AsksOn
    <3> QED
      BY <3>4, <3>9
  <2> QED
    BY <2>1, <2>2, <2>3 DEF InterruptReply
<1> QED
  BY <1>4, <1>5, <1>6, <1>7, ReadWork DEF AnswerRead

LEMMA ThreadStepWork ==
  ASSUME WorkInv, NEW t \in Threads, NEW m, AnswerRead(t, m), m.by = "main", ThreadStepSettles(m.val, m.n),
         UNCHANGED <<toChild, ended, prep, rec, recQ>>
  PROVE  WorkInv'
<1>1. /\ m \in LineType /\ m.n \in 0..MaxTurns /\ (m.val = "ok" => m.n # 0) /\ m.type = "reply"
      /\ tx.step \in DOMAIN ThreadStepKind /\ tx.at = "await" /\ tx.t = t
  <2>1. m.by \in Awaited /\ pipe[t] # <<>> /\ m = Head(pipe[t]) /\ m.type = "reply"
    BY DEF AnswerRead, Awaited
  <2>2. m \in LineType /\ m.n \in 0..MaxTurns /\ (m.val = "ok" => m.n # 0) /\ Waits(t, m.by)
    BY <2>1, HeadLine
  <2> QED
    BY <2>1, <2>2 DEF Waits
<1>2. {"step", "at", "t"} \subseteq DOMAIN tx
  BY DEF WorkInv, WorkTyped
<1>3. /\ {"step", "at", "t"} \subseteq DOMAIN tx' /\ tx'.step # "login"
      /\ tx.step = "continue" => tx'.step = "continue"
  <2>1. CASE tx' = [tx EXCEPT !.at = "next"]
    BY <1>1, <1>2, <2>1, ThreadSteps
  <2>2. CASE tx' = UndoFrom(tx) /\ tx.step = "resume"
    BY <1>2, <2>2, UndoFields
  <2>3. CASE tx' = NoTx /\ tx.step = "undoResume"
    BY <2>3 DEF NoTx
  <2> QED
    BY <2>1, <2>2, <2>3 DEF ThreadStepSettles
<1>4. TablesMove(t, m)
  <2>1. CASE active' = active
    BY <1>1, <2>1, TablesStay
  <2>2. CASE active' = [active EXCEPT ![t] = m.n] /\ m.val = "ok"
    <3>1. PICK e \in 0..MaxTurns : e = ended[t]
      BY ThreadTypes DEF WorkInv
    <3>2. ended' = [ended EXCEPT ![t] = e]
      BY <3>1 DEF WorkInv, WorkTyped
    <3> QED
      BY <1>1, <2>2, <3>1, <3>2, TablesSet
  <2>3. active' = active \/ (active' = [active EXCEPT ![t] = m.n] /\ m.val = "ok")
    <3>1. CASE active' = [active EXCEPT ![tx.t] = IF m.val = "ok" THEN m.n ELSE @]
      BY <1>1, <3>1 DEF WorkInv, WorkTyped
    <3> QED
      BY <3>1 DEF ThreadStepSettles
  <2> QED
    BY <2>1, <2>2, <2>3
<1>5. AsksOn(t, m)
  BY DEF AsksOn
<1>6. \A u \in Threads : \A b \in Awaited : Waits(u, b) /\ (u # t \/ b # m.by) => Waits(u, b)'
  BY <1>1 DEF Waits, AnswerRead, Awaited
<1>7. /\ PrepOnce' /\ recQ' \in Seq({"prep", "cancel", "defer"}) /\ {"at", "t"} \subseteq DOMAIN prep'
      /\ submitted' \subseteq submitted /\ tx.step # "off"
  BY <1>1, ThreadSteps DEF WorkInv, WorkTyped, PrepOnce, AtRecovery, AnswerRead
<1> QED
  BY <1>3, <1>4, <1>5, <1>6, <1>7, ReadWork DEF AnswerRead

LEMMA ReadInternalAnswerWork ==
  ASSUME WorkInv, NEW t \in Threads, ReadInternalAnswer(t)
  PROVE  WorkInv'
<1>1. PICK m : m = Head(pipe[t])
  OBVIOUS
<1>2. AnswerRead(t, m)
  BY <1>1 DEF ReadInternalAnswer, Reads, AnswerRead
<1>3. CASE m.by = "prep" /\ PrepareReply(m.val) /\ tx' = tx /\ rec' = rec
  BY <1>2, <1>3, PrepareReplyWork
<1>4. CASE m.by = "rec" /\ RecoverReply(m.val) /\ UNCHANGED <<toChild, active, ended, prep, recQ, tx>>
  BY <1>2, <1>4, RecoverReplyWork
<1>7. CASE UNCHANGED <<toChild, active, ended, prep, rec, recQ, tx>>
  BY <1>2, <1>7, StaleReplyWork
<1>5. CASE InterruptReply(t, m.by, m.val, m.n) /\ UNCHANGED <<prep, rec, tx>>
  BY <1>2, <1>5, InterruptReplyWork
<1>6. CASE m.by = "main" /\ ThreadStepSettles(m.val, m.n) /\ UNCHANGED <<toChild, ended, prep, rec, recQ>>
  BY <1>2, <1>6, ThreadStepWork
<1> QED
  BY <1>1, <1>3, <1>4, <1>5, <1>6, <1>7 DEF ReadInternalAnswer

-----------------------------------------------------------------------------
(* Steps of the shim that stop to wait for a call.                          *)
LEMMA AbandonKeeps ==
  ASSUME WorkInv, UNCHANGED <<run, begun, ordinary, goal, active, ended, submitted>>,
         NEW T, NEW B, Abandon(T, B), "client" \notin B,
         tx.step = "continue" => "main" \notin B /\ tx'.step = "continue",
         \A u \in Threads : \A b \in Awaited : Waits(u, b) /\ ~(u \in T /\ b \in B) => Waits(u, b)',
         recQ' \in Seq({"prep", "cancel", "defer"}), PrepOnce',
         {"at", "t"} \subseteq DOMAIN prep', {"step", "at", "t"} \subseteq DOMAIN tx',
         rec' = rec \/ {"at", "t"} \subseteq DOMAIN rec',
         tx.step = "off" => tx' = tx, tx'.step = "login" => tx' = tx
  PROVE  WorkInv'
<1>1. PICK f : f = [b \in Waiters |-> IF b \in B THEN "stale" ELSE b]
  OBVIOUS
<1>2. Relabel(T, f)
  BY <1>1, Zenon DEF Abandon
<1>3. /\ f \in [Waiters -> Waiters] /\ f["client"] = "client"
      /\ "main" \notin B => f["main"] = "main"
  BY <1>1 DEF Waiters
<1>4. \A b \in Waiters : f[b] \in Awaited => f[b] = b
  BY <1>1 DEF Awaited
<1>5. \A b \in Awaited : f[b] = b => b \notin B
  BY <1>1 DEF Awaited, Waiters
<1>6. \A u \in Threads : \A b \in Awaited : OutNow(u, b) /\ (u \in T => f[b] = b) => Waits(u, b)'
  BY <1>5 DEF WorkInv, ThreadFits, OneOut
<1>7. /\ toChild' \in [Threads -> Seq(CallType)] /\ pipe' \in [Threads -> Seq(LineType)]
      /\ owed' \in [Threads -> SUBSET [by : Waiters, n : 0..MaxTurns]]
      /\ \A u \in Threads : ThreadFits(u)'
  BY <1>2, <1>3, <1>4, <1>6, RelabelKeeps
<1>8. WorkTyped'
  BY <1>7 DEF WorkInv, WorkTyped
<1>9. NothingSubmitted' /\ LoginQuiet'
  BY DEF WorkInv, NothingSubmitted, LoginQuiet
<1> QED
  BY <1>7, <1>8, <1>9 DEF WorkInv

LEMMA PrepareTimerWork ==
  ASSUME WorkInv, PrepareTimer
  PROVE  WorkInv'
<1>1. /\ UNCHANGED <<run, begun, ordinary, goal, active, ended, submitted, tx, rec>>
      /\ Abandon({prep.t}, {"prep"}) /\ recQ' = Append(recQ, "prep")
      /\ prep.at \in {"goalGet", "pause"} /\ prep' = [prep EXCEPT !.at = "recover"]
  BY DEF PrepareTimer, PrepareFails
<1>2. {"at", "t"} \subseteq DOMAIN prep' /\ prep'.at = "recover" /\ {"step", "at", "t"} \subseteq DOMAIN tx'
  BY <1>1 DEF WorkInv, WorkTyped
<1>3. recQ' \in Seq({"prep", "cancel", "defer"}) /\ PrepOnce'
  BY <1>1, <1>2, RecoveryQueues DEF AtRecovery
<1>4. \A u \in Threads : \A b \in Awaited : Waits(u, b) /\ ~(u \in {prep.t} /\ b \in {"prep"}) => Waits(u, b)'
  BY <1>1 DEF Waits
<1> QED
  BY <1>1, <1>2, <1>3, <1>4, AbandonKeeps

LEMMA RecoverTimerWork ==
  ASSUME WorkInv, RecoverTimer
  PROVE  WorkInv'
<1>1. /\ UNCHANGED <<run, begun, ordinary, goal, active, ended, submitted, tx, prep, recQ>>
      /\ Abandon({rec.t}, {"rec"}) /\ \E x \in {"next", "failed"} : rec'.at = x /\ DOMAIN rec' = DOMAIN rec
  BY DEF RecoverTimer, RecoverReply, tableVars, WorkInv, WorkTyped
<1>2. /\ {"at", "t"} \subseteq DOMAIN prep' /\ {"step", "at", "t"} \subseteq DOMAIN tx'
      /\ {"at", "t"} \subseteq DOMAIN rec'
  BY <1>1 DEF WorkInv, WorkTyped
<1>3. recQ' \in Seq({"prep", "cancel", "defer"}) /\ PrepOnce'
  BY <1>1 DEF WorkInv, WorkTyped, PrepOnce, AtRecovery
<1>4. \A u \in Threads : \A b \in Awaited : Waits(u, b) /\ ~(u \in {rec.t} /\ b \in {"rec"}) => Waits(u, b)'
  BY <1>1 DEF Waits, Awaited
<1> QED
  BY <1>1, <1>2, <1>3, <1>4, AbandonKeeps

LEMMA InterruptTimerWork ==
  ASSUME WorkInv, NEW t \in Threads, InterruptTimer(t)
  PROVE  WorkInv'
<1>1. /\ UNCHANGED <<run, begun, ordinary, goal, active, ended, submitted, tx, prep, rec>>
      /\ Abandon({t}, {"int", "again"}) /\ (recQ' = recQ \/ recQ' = Append(recQ, "defer"))
  BY InterruptQueues DEF InterruptTimer, tableVars
<1>2. {"at", "t"} \subseteq DOMAIN prep' /\ {"step", "at", "t"} \subseteq DOMAIN tx'
  BY <1>1 DEF WorkInv, WorkTyped
<1>3. recQ' \in Seq({"prep", "cancel", "defer"}) /\ PrepOnce'
  <2>1. CASE recQ' = recQ
    BY <1>1, <2>1 DEF WorkInv, WorkTyped, PrepOnce, AtRecovery
  <2>2. CASE recQ' = Append(recQ, "defer")
    BY <1>1, <2>2, RecoveryQueues DEF AtRecovery
  <2> QED
    BY <1>1, <2>1, <2>2
<1>4. \A u \in Threads : \A b \in Awaited : Waits(u, b) => Waits(u, b)'
  BY <1>1 DEF Waits
<1> QED
  BY <1>1, <1>2, <1>3, <1>4, AbandonKeeps

(* Without the timer of the Continue turn, only Goals are given up.         *)
LEMMA ThreadStepTimerWork ==
  ASSUME WorkInv, ThreadStepTimer, "continue" \notin Timeouts
  PROVE  WorkInv'
<1>1. /\ UNCHANGED <<run, begun, ordinary, goal, ended, submitted, prep, rec, recQ>>
      /\ Abandon({tx.t}, {"main"}) /\ ThreadStepSettles("error", 0) /\ tx.step \in {"resume", "undoResume"}
  BY ThreadSteps DEF ThreadStepTimer
<1>2. active' = active /\ (tx' = UndoFrom(tx) \/ tx' = NoTx)
  BY <1>1 DEF ThreadStepSettles
<1>3. {"at", "t"} \subseteq DOMAIN prep' /\ {"step", "at", "t"} \subseteq DOMAIN tx
  BY <1>1 DEF WorkInv, WorkTyped
<1>4. {"step", "at", "t"} \subseteq DOMAIN tx' /\ tx'.step # "login"
  <2>1. CASE tx' = UndoFrom(tx)
    BY <1>3, <2>1, UndoFields
  <2>2. CASE tx' = NoTx
    BY <2>2 DEF NoTx
  <2> QED
    BY <1>2, <2>1, <2>2
<1>5. recQ' \in Seq({"prep", "cancel", "defer"}) /\ PrepOnce'
  BY <1>1 DEF WorkInv, WorkTyped, PrepOnce, AtRecovery
<1>6. \A u \in Threads : \A b \in Awaited : Waits(u, b) /\ ~(u \in {tx.t} /\ b \in {"main"}) => Waits(u, b)'
  BY <1>1 DEF Waits, Awaited
<1> QED
  BY <1>1, <1>2, <1>3, <1>4, <1>5, <1>6, AbandonKeeps

-----------------------------------------------------------------------------
(* Starts wait, or are with the child.                                      *)
LEMMA HeldApartStep ==
  ASSUME HeldApart, [Next]_vars
  PROVE  HeldApart'
<1>1. CASE held' = held /\ submitted' \subseteq submitted
  BY <1>1 DEF HeldApart
<1>2. ASSUME NEW t \in Threads, WorkStart(t) PROVE HeldApart'
  BY <1>2 DEF WorkStart, HeldApart
<1>3. ASSUME NEW t \in Threads, FlushHeld(t) PROVE HeldApart'
  BY <1>3 DEF FlushHeld, HeldApart
<1>4. ASSUME NEW t \in Threads, ReadStartAnswer(t) PROVE HeldApart'
  BY <1>4 DEF ReadStartAnswer, HeldApart
<1>5. CASE UNCHANGED vars
  BY <1>1, <1>5 DEF vars, tableVars
<1>6. ASSUME NEW policy, NEW target, NEW recent, SwitchRequest(policy, target, recent) PROVE HeldApart'
  BY <1>1, <1>6 DEF SwitchRequest, tableVars
<1>7. CASE Cancel
  BY <1>1, <1>7 DEF Cancel, tableVars
<1>8. CASE ShimStep
  BY <1>1, <1>3, <1>8 DEF ShimStep, PrepareNext, RecoverNext, DrainPending, TxCall, TxNextThread, TxNoCredentials, tableVars
<1>9. CASE TimerStep
  BY <1>1, <1>9 DEF TimerStep, PrepareTimer, RecoverTimer, ThreadStepTimer, AccountStepTimer, GraceExpired, InterruptTimer, tableVars
<1>10. CASE ReadStep
  BY <1>1, <1>4, <1>10 DEF ReadStep, ReadAccountAnswer, ReadStarted, ReadEnded, ReadInternalAnswer
<1>11. CASE ChildAccountCall \/ ManagerActivate
  BY <1>1, <1>11 DEF ChildAccountCall, ManagerActivate, tableVars
<1>12. ASSUME NEW t \in Threads,
              ChildAnswer(t) \/ ChildFinish(t) \/ ChildGoalTurn(t) \/ ChildStart(t) \/ ChildGoalCall(t) \/ ChildInterrupt(t)
       PROVE  HeldApart'
  BY <1>1, <1>12 DEF ChildAnswer, ChildFinish, ChildGoalTurn, ChildStart, ChildGoalCall, ChildInterrupt, tableVars
<1> QED
  BY <1>2, <1>5, <1>6, <1>7, <1>8, <1>9, <1>10, <1>11, <1>12 DEF Next

LEMMA InitWork ==
  Init => WorkInv /\ HeldApart
<1> SUFFICES ASSUME Init PROVE WorkInv /\ HeldApart
  OBVIOUS
<1>1. /\ toChild = [t \in Threads |-> <<>>] /\ pipe = [t \in Threads |-> <<>>] /\ owed = [t \in Threads |-> {}]
      /\ run = [t \in Threads |-> 0] /\ begun = [t \in Threads |-> 0] /\ ordinary = [t \in Threads |-> FALSE]
      /\ active = [t \in Threads |-> 0] /\ ended = [t \in Threads |-> 0]
      /\ goal \in InitGoals /\ submitted = {} /\ held = {} /\ recQ = <<>> /\ prep = Idle /\ rec = Idle /\ tx = NoTx
  BY DEF Init
<1>2. tx.step = "off" /\ {"at", "t"} \subseteq DOMAIN prep /\ {"step", "at", "t"} \subseteq DOMAIN tx /\ {"at", "t"} \subseteq DOMAIN rec
  BY <1>1 DEF Idle, NoTx
<1>3. goal \in [Threads -> GoalStatus] /\ 0 \in 0..MaxTurns
  BY <1>1, SwitchBarrierAssumption DEF GoalStatus
<1>4. \A S : <<>> \in Seq(S) /\ DOMAIN <<>> = {}
  OBVIOUS
<1>5. WorkTyped
  BY <1>1, <1>2, <1>3, <1>4 DEF WorkTyped
<1>6. ASSUME NEW t \in Threads PROVE ThreadFits(t)
  <2>1. toChild[t] = <<>> /\ pipe[t] = <<>> /\ owed[t] = {} /\ run[t] = 0 /\ begun[t] = 0 /\ active[t] = 0 /\ ended[t] = 0
    BY <1>1
  <2>2. Elems(<<>>) = {}
    BY <1>4 DEF Elems
  <2>3. TurnsFit(t) /\ LinesFit(t) /\ KindsFit(t)
    BY <2>1, <2>2 DEF TurnsFit, LinesFit, KindsFit
  <2>4. \A b \in Awaited : OneOut(t, b)
    BY <1>4, <2>1 DEF OneOut, OneOf, OutNow, Out
  <2> QED
    BY <2>3, <2>4 DEF ThreadFits
<1>7. PrepOnce /\ NothingSubmitted /\ LoginQuiet /\ HeldApart
  BY <1>1, <1>2, <1>4 DEF PrepOnce, NothingSubmitted, LoginQuiet, HeldApart
<1> QED
  BY <1>5, <1>6, <1>7 DEF WorkInv

LEMMA WorkStep ==
  ASSUME "continue" \notin Timeouts, ControlInv, WorkInv, HeldApart, [Next]_vars
  PROVE  WorkInv'
<1>1. CASE UNCHANGED vars
  BY <1>1, WorkUnchanged DEF vars, childVars, tableVars, switchVars
<1>2. ASSUME NEW t \in Threads, WorkStart(t) PROVE WorkInv'
  BY <1>2, WorkStartWork
<1>3. ASSUME NEW policy, NEW target, NEW recent, SwitchRequest(policy, target, recent) PROVE WorkInv'
  BY <1>3, SwitchRequestWork
<1>4. CASE Cancel
  BY <1>4, CancelWork
<1>5. CASE ShimStep
  BY <1>5, PrepareNextWork, RecoverNextWork, DrainPendingWork, TxCallWork, TxNextThreadWork,
     TxNoCredentialsWork, FlushHeldWork DEF ShimStep
<1>6. CASE TimerStep
  BY <1>6, PrepareTimerWork, RecoverTimerWork, ThreadStepTimerWork, AccountStepTimerWork, GraceExpiredWork,
     InterruptTimerWork DEF TimerStep
<1>7. CASE ReadStep
  BY <1>7, ReadAccountAnswerWork, ReadStartedWork, ReadEndedWork, ReadStartAnswerWork,
     ReadInternalAnswerWork DEF ReadStep
<1>8. CASE ChildAccountCall
  BY <1>8, WorkUnchanged DEF ChildAccountCall, tableVars, switchVars
<1>9. CASE ManagerActivate
  BY <1>9, WorkUnchanged DEF ManagerActivate, childVars, tableVars, switchVars
<1>10. ASSUME NEW t \in Threads,
              ChildAnswer(t) \/ ChildFinish(t) \/ ChildGoalTurn(t) \/ ChildStart(t) \/ ChildGoalCall(t) \/ ChildInterrupt(t)
       PROVE  WorkInv'
  BY <1>10, AnswerWork, FinishWork, GoalTurnWork, StartWork, GoalCallWork, InterruptWork
<1> QED
  BY <1>1, <1>2, <1>3, <1>4, <1>5, <1>6, <1>7, <1>8, <1>9, <1>10 DEF Next

(* The login the child is asked to change never meets a turn the client or  *)
(* the shim asked for, running or on its way to the child, as long as the   *)
(* start of a Continue turn is answered: one whose timer has fired may      *)
(* still begin its turn during the login of the next switch.                *)
THEOREM CutoverIsQuiet ==
  ASSUME "continue" \notin Timeouts
  PROVE  Spec => []CutoverMeetsNoOrdinaryTurn
<1>1. Init => WorkInv /\ HeldApart
  BY InitWork
<1>2. ControlInv /\ WorkInv /\ HeldApart /\ [Next]_vars => WorkInv' /\ HeldApart'
  BY WorkStep, HeldApartStep
<1>3. WorkInv => CutoverMeetsNoOrdinaryTurn
  <2> SUFFICES ASSUME WorkInv, LoginInFlight, NEW t \in Threads
               PROVE  /\ run[t] # 0 => ~ordinary[t]
                      /\ \A i \in DOMAIN toChild[t] : toChild[t][i].kind # "start"
    BY DEF CutoverMeetsNoOrdinaryTurn
  <2>1. tx.step = "login" /\ submitted = {}
    BY DEF LoginInFlight, WorkInv, NothingSubmitted
  <2>2. run[t] # 0 => ~ordinary[t]
    BY <2>1 DEF WorkInv, LoginQuiet
  <2>3. ASSUME NEW i \in DOMAIN toChild[t], toChild[t][i].kind = "start" PROVE FALSE
    <3>1. KindsFit(t) /\ OneOut(t, "client")
      BY DEF WorkInv, ThreadFits, Awaited
    <3>2. toChild[t][i].by = "client"
      BY <2>3, <3>1 DEF KindsFit, CallFits, Elems
    <3>3. OutNow(t, "client")
      BY <3>2 DEF OutNow, Out
    <3> QED
      BY <2>1, <3>1, <3>3 DEF OneOut, Waits
  <2> QED
    BY <2>2, <2>3
<1> QED
  BY <1>1, <1>2, <1>3, ControlIsInvariant, PTL DEF Spec
-----------------------------------------------------------------------------
(* Goals.  GoalInv says that the shim knows of every Goal a switch has      *)
(* paused, or will read of it, and that something is left to resume each    *)
(* of them, as long as the shim has not given up on one.                    *)

GoalShapes ==
  /\ {"at", "t", "todo"} \subseteq DOMAIN prep /\ {"at", "t", "todo"} \subseteq DOMAIN rec
  /\ {"step", "at", "t", "todo"} \subseteq DOMAIN tx
  /\ {"canceled", "paused"} \subseteq DOMAIN req

(* The preparation asks of no Goal that it has paused.                      *)
PrepApart ==
  prep.at # "off" =>
    /\ req.paused \cap prep.todo = {}
    /\ prep.at \in {"goalGet", "pause"} => prep.t \notin req.paused \cup prep.todo

(* A recovery resumes Goals that are paused, one after another.             *)
RecoveryFits ==
  /\ rec.at \in {"off", "next", "await"}
  /\ recQ = <<>> => rec.at = "off"
  /\ rec.at # "off" => rec.todo \subseteq req.paused
  /\ rec.at = "await" => rec.t \in req.paused /\ rec.t \notin rec.todo

(* Something is left to resume the Goal of t.                               *)
RecoveryComes(t) ==
  recQ # <<>> /\ (rec.at = "off" \/ Len(recQ) > 1 \/ t \in rec.todo \/ (rec.at = "await" /\ rec.t = t))
ResumeComes(t) ==
  \/ tx.step \in AccountSteps
  \/ tx.step \in {"resume", "undoResume"} /\ (t \in tx.todo \/ (tx.at = "await" /\ tx.t = t))
Resumable(t) == pending \/ RecoveryComes(t) \/ ResumeComes(t)
PausedIsResumed == \A t \in req.paused : Resumable(t)

(* What is said of the Goal of t.                                           *)
SaysPaused(m) == m.type = "reply" /\ m.by = "prep" /\ m.val = "paused"
SaysResumed(m) == m.by \in {"rec", "main"} /\ m.val = "active"
PausesFit(t) == \A c \in Elems(toChild[t]) : c.kind = "pause" => c.by = "prep" /\ prep.at = "pause"
PauseIsKnown(t) ==
  goal[t] = "paused" =>
    \/ t \in req.paused
    \/ prep.at = "pause" /\ prep.t = t /\ \E m \in Elems(pipe[t]) : SaysPaused(m)
ResumedIsTrue(t) == \A m \in Elems(pipe[t]) : SaysResumed(m) => goal[t] # "paused"
TalkFits == \A t \in Threads : PausesFit(t) /\ PauseIsKnown(t) /\ ResumedIsTrue(t)

GoalsHeld == PrepApart /\ RecoveryFits /\ PausedIsResumed /\ TalkFits
GoalInv == GoalShapes /\ (~unresumed => GoalsHeld)

(* No new call to pause, no new word of a resumed Goal, and none lost of a paused one. *)
CallsStay(t) == \A c \in Elems(toChild'[t]) : c.kind = "pause" => \E d \in Elems(toChild[t]) : d.kind = "pause" /\ d.by = c.by
LinesStay(t) ==
  /\ \A m \in Elems(pipe'[t]) : SaysResumed(m) => \E l \in Elems(pipe[t]) : SaysResumed(l)
  /\ prep.at = "pause" /\ (\E m \in Elems(pipe[t]) : SaysPaused(m)) => \E m \in Elems(pipe'[t]) : SaysPaused(m)
GoalStays(t) == goal'[t] = "paused" => goal[t] = "paused"

LEMMA TalkStays ==
  ASSUME TalkFits, \A t \in Threads : CallsStay(t) /\ LinesStay(t) /\ GoalStays(t),
         prep.at = "pause" => prep'.at = "pause" /\ prep'.t = prep.t,
         \A t \in Threads : t \in req.paused => t \in req'.paused \/ goal'[t] # "paused"
  PROVE  TalkFits'
<1> SUFFICES ASSUME NEW t \in Threads PROVE PausesFit(t)' /\ PauseIsKnown(t)' /\ ResumedIsTrue(t)'
  BY DEF TalkFits
<1>1. PausesFit(t) /\ PauseIsKnown(t) /\ ResumedIsTrue(t) /\ CallsStay(t) /\ LinesStay(t) /\ GoalStays(t)
  BY DEF TalkFits
<1>2. PausesFit(t)'
  BY <1>1 DEF PausesFit, CallsStay
<1>3. PauseIsKnown(t)'
  BY <1>1 DEF PauseIsKnown, LinesStay, GoalStays
<1>4. ResumedIsTrue(t)'
  BY <1>1 DEF ResumedIsTrue, LinesStay, GoalStays
<1> QED
  BY <1>2, <1>3, <1>4

(* Nothing of the control is touched.                                       *)
LEMMA RestStays ==
  ASSUME PrepApart, RecoveryFits, PausedIsResumed,
         prep' = prep, rec' = rec, recQ' = recQ, tx' = tx, pending' = pending, req'.paused = req.paused
  PROVE  PrepApart' /\ RecoveryFits' /\ PausedIsResumed'
<1>1. PrepApart'
  BY DEF PrepApart
<1>2. RecoveryFits'
  BY DEF RecoveryFits
<1>3. PausedIsResumed'
  BY DEF PausedIsResumed, Resumable, RecoveryComes, ResumeComes
<1> QED
  BY <1>1, <1>2, <1>3

LEMMA SameTalk ==
  ASSUME NEW t, toChild'[t] = toChild[t]
  PROVE  CallsStay(t)
BY DEF CallsStay

LEMMA SameLines ==
  ASSUME NEW t, pipe'[t] = pipe[t]
  PROVE  LinesStay(t)
BY DEF LinesStay

(* A call is put behind the others, that is none to pause.                  *)
LEMMA CallPutStays ==
  ASSUME WorkInv, NEW t, NEW c \in CallType, c.kind # "pause", toChild' = Put(toChild, t, c)
  PROVE  \A u \in Threads : CallsStay(u)
<1> SUFFICES ASSUME NEW u \in Threads PROVE CallsStay(u)
  OBVIOUS
<1>1. toChild \in [Threads -> Seq(CallType)]
  BY DEF WorkInv, WorkTyped
<1>2. CASE t \notin Threads \/ u # t
  <2>1. toChild'[u] = toChild[u]
    BY <1>1, <1>2 DEF Put
  <2> QED
    BY <2>1, SameTalk
<1>3. CASE u = t
  <2>1. PICK cs \in Seq(CallType) : cs = toChild[u]
    BY <1>1
  <2>2. toChild'[u] = Append(cs, c)
    BY <1>1, <1>3, <2>1 DEF Put
  <2>3. Elems(Append(cs, c)) = Elems(cs) \cup {c}
    BY AppendElems
  <2>4. Elems(toChild'[u]) = Elems(toChild[u]) \cup {c}
    BY <2>1, <2>2, <2>3
  <2> QED
    BY <2>4 DEF CallsStay
<1> QED
  BY <1>2, <1>3

(* Calls are taken or relabelled, none is put.                              *)
LEMMA FewerCalls ==
  ASSUME NEW t, Elems(toChild'[t]) \subseteq Elems(toChild[t])
  PROVE  CallsStay(t)
BY DEF CallsStay

(* A line is put behind the others.                                         *)
LEMMA LinePutElems ==
  ASSUME WorkInv, NEW t \in Threads, NEW l \in LineType, pipe' = Put(pipe, t, l)
  PROVE  /\ Elems(pipe'[t]) = Elems(pipe[t]) \cup {l}
         /\ \A u \in Threads : u # t => pipe'[u] = pipe[u]
<1>1. pipe \in [Threads -> Seq(LineType)]
  BY DEF WorkInv, WorkTyped
<1>2. PICK p \in Seq(LineType) : p = pipe[t]
  BY <1>1
<1>3. pipe'[t] = Append(p, l) /\ \A u \in Threads : u # t => pipe'[u] = pipe[u]
  BY <1>1, <1>2 DEF Put
<1>4. Elems(Append(p, l)) = Elems(p) \cup {l}
  BY AppendElems
<1> QED
  BY <1>2, <1>3, <1>4

LEMMA LinePutStays ==
  ASSUME WorkInv, NEW t \in Threads, NEW l \in LineType, ~SaysResumed(l), pipe' = Put(pipe, t, l)
  PROVE  \A u \in Threads : LinesStay(u)
<1>1. Elems(pipe'[t]) = Elems(pipe[t]) \cup {l} /\ \A u \in Threads : u # t => pipe'[u] = pipe[u]
  BY LinePutElems
<1> SUFFICES ASSUME NEW u \in Threads PROVE LinesStay(u)
  OBVIOUS
<1>2. CASE u # t
  BY <1>1, <1>2, SameLines
<1>3. CASE u = t
  BY <1>1, <1>3 DEF LinesStay
<1> QED
  BY <1>2, <1>3

-----------------------------------------------------------------------------
(* The child's steps.                                                       *)
LEMMA ChildGoals ==
  ASSUME GoalsHeld, UNCHANGED <<prep, rec, recQ, tx, pending, req>>,
         \A u \in Threads : CallsStay(u) /\ LinesStay(u) /\ GoalStays(u)
  PROVE  GoalsHeld'
<1>1. PrepApart' /\ RecoveryFits' /\ PausedIsResumed'
  BY RestStays DEF GoalsHeld
<1>2. TalkFits'
  BY TalkStays DEF GoalsHeld
<1> QED
  BY <1>1, <1>2 DEF GoalsHeld

(* One thread's calls become fewer.                                         *)
LEMMA CallTakenStays ==
  ASSUME WorkInv, NEW t \in Threads, NEW r \in Seq(CallType), toChild' = [toChild EXCEPT ![t] = r],
         Elems(r) \subseteq Elems(toChild[t])
  PROVE  \A u \in Threads : CallsStay(u)
<1>1. toChild \in [Threads -> Seq(CallType)]
  BY DEF WorkInv, WorkTyped
<1>2. ASSUME NEW u \in Threads PROVE Elems(toChild'[u]) \subseteq Elems(toChild[u])
  BY <1>1, <1>2
<1> QED
  BY <1>2, FewerCalls

LEMMA AnswerGoals ==
  ASSUME WorkInv, GoalsHeld, NEW t \in Threads, ChildAnswer(t)
  PROVE  GoalsHeld'
<1>1. UNCHANGED <<toChild, goal, prep, rec, recQ, tx, pending, req>>
  BY DEF ChildAnswer, switchVars
<1>2. PICK o \in owed[t] : pipe' = Put(pipe, t, Reply(o.by, "ok", o.n))
  BY DEF ChildAnswer
<1>3. o.by \in Waiters /\ o.n \in 0..MaxTurns
  BY ThreadTypes DEF WorkInv
<1>4. PICK l : l = Reply(o.by, "ok", o.n)
  OBVIOUS
<1>5. l \in LineType /\ l.val = "ok"
  BY <1>3, <1>4, ReplyFields
<1>6. \A u \in Threads : LinesStay(u)
  BY <1>2, <1>4, <1>5, LinePutStays DEF SaysResumed
<1>7. \A u \in Threads : CallsStay(u) /\ GoalStays(u)
  BY <1>1, SameTalk DEF GoalStays
<1> QED
  BY <1>1, <1>6, <1>7, ChildGoals

LEMMA FinishGoals ==
  ASSUME WorkInv, GoalsHeld, NEW t \in Threads, ChildFinish(t)
  PROVE  GoalsHeld'
<1>1. UNCHANGED <<toChild, prep, rec, recQ, tx, pending, req>> /\ pipe' = Put(pipe, t, Note("ended", "done", run[t]))
  BY DEF ChildFinish, switchVars
<1>2. goal' \in {goal, [goal EXCEPT ![t] = IF @ = "active" /\ ~ordinary[t] THEN "none" ELSE @]}
  BY DEF ChildFinish
<1>3. run[t] \in 0..MaxTurns /\ goal \in [Threads -> GoalStatus]
  BY ThreadTypes DEF WorkInv, WorkTyped
<1>4. PICK l : l = Note("ended", "done", run[t])
  OBVIOUS
<1>5. l \in LineType /\ l.val = "done"
  BY <1>3, <1>4, EndedLine
<1>6. \A u \in Threads : LinesStay(u)
  BY <1>1, <1>4, <1>5, LinePutStays DEF SaysResumed
<1>7. \A u \in Threads : CallsStay(u)
  BY <1>1, SameTalk
<1>8. \A u \in Threads : GoalStays(u)
  BY <1>2, <1>3 DEF GoalStays
<1> QED
  BY <1>1, <1>6, <1>7, <1>8, ChildGoals

LEMMA GoalTurnGoals ==
  ASSUME WorkInv, GoalsHeld, NEW t \in Threads, ChildGoalTurn(t)
  PROVE  GoalsHeld'
<1>1. UNCHANGED <<toChild, goal, prep, rec, recQ, tx, pending, req>> /\ pipe' = Put(pipe, t, Note("started", "", begun[t] + 1))
  BY DEF ChildGoalTurn, switchVars
<1>2. begun[t] + 1 \in 0..MaxTurns
  <2>1. begun[t] \in 0..MaxTurns /\ MaxTurns \in Nat /\ begun[t] < MaxTurns
    BY ThreadTypes DEF WorkInv, ChildGoalTurn
  <2> QED
    BY <2>1
<1>3. PICK l : l = Note("started", "", begun[t] + 1)
  OBVIOUS
<1>4. l \in LineType /\ l.by = "stale"
  BY <1>2, <1>3, BeganLine
<1>5. \A u \in Threads : LinesStay(u)
  BY <1>1, <1>3, <1>4, LinePutStays DEF SaysResumed
<1>6. \A u \in Threads : CallsStay(u) /\ GoalStays(u)
  BY <1>1, SameTalk DEF GoalStays
<1> QED
  BY <1>1, <1>5, <1>6, ChildGoals

LEMMA StartGoals ==
  ASSUME WorkInv, GoalsHeld, NEW t \in Threads, ChildStart(t)
  PROVE  GoalsHeld'
<1>1. UNCHANGED <<goal, prep, rec, recQ, tx, pending, req>> /\ Takes(t, {"start", "continue"})
  BY DEF ChildStart, switchVars
<1>2. PICK c : c = Head(toChild[t])
  OBVIOUS
<1>3. PICK r \in Seq(CallType) :
         toChild' = [toChild EXCEPT ![t] = r] /\ Elems(r) \subseteq Elems(toChild[t]) /\ c \in CallType
  BY <1>1, <1>2, TakesHead
<1>4. \A u \in Threads : CallsStay(u)
  BY <1>3, CallTakenStays
<1>5. PICK l \in LineType : ~SaysResumed(l) /\ pipe' = Put(pipe, t, l)
  <2>1. CASE begun[t] < MaxTurns /\ pipe' = Put(pipe, t, Note("started", "", begun[t] + 1))
    <3>1. begun[t] + 1 \in 0..MaxTurns
      <4>1. begun[t] \in 0..MaxTurns /\ MaxTurns \in Nat
        BY ThreadTypes DEF WorkInv
      <4>2. begun[t] < MaxTurns
        BY <2>1
      <4> QED
        BY <4>1, <4>2
    <3>2. PICK l : l = Note("started", "", begun[t] + 1)
      OBVIOUS
    <3>3. l \in LineType /\ l.by = "stale"
      BY <3>1, <3>2, BeganLine
    <3> QED
      BY <2>1, <3>2, <3>3 DEF SaysResumed
  <2>2. CASE pipe' = Put(pipe, t, Reply(c.by, "refused", 0))
    <3>1. PICK l : l = Reply(c.by, "refused", 0)
      OBVIOUS
    <3>2. c.by \in Waiters /\ 0 \in 0..MaxTurns
      BY <1>3, SwitchBarrierAssumption DEF CallType
    <3>3. l \in LineType /\ l.val = "refused"
      BY <3>1, <3>2, ReplyFields
    <3> QED
      BY <2>2, <3>1, <3>3 DEF SaysResumed
  <2> QED
    BY <1>2, <2>1, <2>2 DEF ChildStart
<1>6. \A u \in Threads : LinesStay(u)
  BY <1>5, LinePutStays
<1>7. \A u \in Threads : GoalStays(u)
  BY <1>1 DEF GoalStays
<1> QED
  BY <1>1, <1>4, <1>6, <1>7, ChildGoals

LEMMA InterruptGoals ==
  ASSUME WorkInv, GoalsHeld, NEW t \in Threads, ChildInterrupt(t)
  PROVE  GoalsHeld'
<1>1. UNCHANGED <<goal, prep, rec, recQ, tx, pending, req>> /\ Takes(t, {"interrupt"})
  BY DEF ChildInterrupt, switchVars
<1>2. PICK c : c = Head(toChild[t])
  OBVIOUS
<1>3. PICK r \in Seq(CallType) :
         toChild' = [toChild EXCEPT ![t] = r] /\ Elems(r) \subseteq Elems(toChild[t]) /\ c \in CallType
  BY <1>1, <1>2, TakesHead
<1>4. \A u \in Threads : CallsStay(u)
  BY <1>3, CallTakenStays
<1>5. c.by \in Waiters /\ c.n \in 0..MaxTurns /\ 0 \in 0..MaxTurns /\ run[t] \in 0..MaxTurns
  BY <1>3, SwitchBarrierAssumption, ThreadTypes DEF CallType, WorkInv
<1>6. \A u \in Threads : GoalStays(u)
  BY <1>1 DEF GoalStays
<1>7. CASE \E val \in {"inactive", "replaced", "error"}, n \in 0..MaxTurns : pipe' = Put(pipe, t, Reply(c.by, val, n))
  <2>1. PICK val \in {"inactive", "replaced", "error"}, n \in 0..MaxTurns : pipe' = Put(pipe, t, Reply(c.by, val, n))
    BY <1>7
  <2>2. PICK l : l = Reply(c.by, val, n)
    OBVIOUS
  <2>3. l \in LineType /\ l.val = val
    BY <1>5, <2>2, ReplyFields
  <2>4. \A u \in Threads : LinesStay(u)
    BY <2>1, <2>2, <2>3, LinePutStays DEF SaysResumed
  <2> QED
    BY <1>1, <1>4, <1>6, <2>4, ChildGoals
<1>8. CASE \E both \in {<<Note("ended", "cutOff", c.n), Reply(c.by, "ok", c.n)>>,
                        <<Reply(c.by, "ok", c.n), Note("ended", "cutOff", c.n)>>} :
             pipe' = [pipe EXCEPT ![t] = @ \o both]
  <2>1. PICK m : m = Note("ended", "cutOff", c.n)
    OBVIOUS
  <2>2. PICK l : l = Reply(c.by, "ok", c.n)
    OBVIOUS
  <2>3. m \in LineType /\ m.val = "cutOff" /\ l \in LineType /\ l.val = "ok"
    BY <1>5, <2>1, <2>2, EndedLine, ReplyFields
  <2>4. pipe \in [Threads -> Seq(LineType)]
    BY DEF WorkInv, WorkTyped
  <2>5. PICK p \in Seq(LineType) : p = pipe[t]
    BY <2>4
  <2>6. PICK both \in {<<m, l>>, <<l, m>>} : pipe' = [pipe EXCEPT ![t] = p \o both]
    BY <1>8, <2>1, <2>2, <2>5, Zenon
  <2>7. PICK q : q = p \o both
    OBVIOUS
  <2>8. Elems(q) = Elems(p) \cup {l, m}
    <3>1. CASE both = <<m, l>>
      <4>1. p \o <<m, l>> = Append(Append(p, m), l) /\ Elems(Append(Append(p, m), l)) = Elems(p) \cup {m, l}
        BY <2>3, BothLines
      <4> QED
        BY <2>7, <3>1, <4>1, Zenon
    <3>2. CASE both = <<l, m>>
      <4>1. p \o <<l, m>> = Append(Append(p, l), m) /\ Elems(Append(Append(p, l), m)) = Elems(p) \cup {l, m}
        BY <2>3, BothLines
      <4> QED
        BY <2>7, <3>2, <4>1, Zenon
    <3> QED
      BY <2>6, <3>1, <3>2
  <2>9. pipe'[t] = q /\ \A u \in Threads : u # t => pipe'[u] = pipe[u]
    BY <2>4, <2>6, <2>7
  <2>10. ASSUME NEW u \in Threads PROVE LinesStay(u)
    <3>1. CASE u # t
      BY <2>9, <3>1, SameLines
    <3>2. CASE u = t
      BY <2>3, <2>5, <2>8, <2>9, <3>2 DEF LinesStay, SaysResumed
    <3> QED
      BY <3>1, <3>2
  <2> QED
    BY <1>1, <1>4, <1>6, <2>10, ChildGoals
<1> QED
  BY <1>2, <1>5, <1>7, <1>8 DEF ChildInterrupt

(* Whoever is said to have resumed a Goal waits for that answer.            *)
LEMMA WhoPauses ==
  ASSUME WorkInv, TalkFits, NEW t \in Threads, NEW c \in Elems(toChild[t]), c.kind = "pause"
  PROVE  prep.at = "pause" /\ prep.t = t /\ c.by = "prep"
<1>1. c.by = "prep" /\ prep.at = "pause"
  BY DEF TalkFits, PausesFit
<1>2. OutNow(t, "prep") /\ OneOut(t, "prep")
  BY <1>1 DEF OutNow, Out, Elems, WorkInv, ThreadFits, Awaited
<1> QED
  BY <1>1, <1>2 DEF OneOut, Waits

LEMMA WhoResumes ==
  ASSUME WorkInv, NEW t \in Threads, NEW m \in Elems(pipe[t]), SaysResumed(m)
  PROVE  (rec.at = "await" /\ rec.t = t) \/ (tx.step \in DOMAIN ThreadStepKind /\ tx.at = "await" /\ tx.t = t)
<1>1. PICK b \in {"rec", "main"} : m.by = b
  BY DEF SaysResumed
<1>2. OutNow(t, b) /\ OneOut(t, b)
  BY <1>1 DEF OutNow, Out, Elems, WorkInv, ThreadFits, Awaited
<1> QED
  BY <1>1, <1>2 DEF OneOut, Waits

(* A Goal that is about to be paused is not being resumed.                  *)
LEMMA NotBoth ==
  ASSUME WorkInv, ControlInv, GoalsHeld, NEW t \in Threads, prep.at = "pause", prep.t = t
  PROVE  \A m \in Elems(pipe[t]) : ~SaysResumed(m)
<1> SUFFICES ASSUME NEW m \in Elems(pipe[t]), SaysResumed(m) PROVE FALSE
  OBVIOUS
<1>1. tx.step = "off"
  BY DEF ControlInv, PreparingPhase
<1>2. tx.step \notin DOMAIN ThreadStepKind
  BY <1>1, ThreadSteps
<1>3. rec.at = "await" /\ rec.t = t
  BY <1>2, WhoResumes
<1>4. t \in req.paused
  BY <1>3 DEF GoalsHeld, RecoveryFits
<1> QED
  BY <1>4 DEF GoalsHeld, PrepApart

LEMMA GoalCallGoals ==
  ASSUME WorkInv, ControlInv, GoalsHeld, NEW t \in Threads, ChildGoalCall(t)
  PROVE  GoalsHeld'
<1>1. UNCHANGED <<prep, rec, recQ, tx, pending, req>>
  BY DEF ChildGoalCall, switchVars
<1>2. WorkTyped /\ TalkFits
  BY DEF WorkInv, GoalsHeld
<1>3. PICK cs \in Seq(CallType) : cs = toChild[t]
  BY <1>2, ThreadTypes
<1>4. PICK i \in 1..Len(cs) :
        /\ TakesGoalCall(t, i)
        /\ \/ pipe' = Put(pipe, t, Reply(cs[i].by, goal[t], 0)) /\ goal' = goal
           \/ /\ pipe' = Put(pipe, t, Reply(cs[i].by, "paused", 0)) /\ goal' = [goal EXCEPT ![t] = "paused"]
              /\ cs[i].kind = "pause"
           \/ pipe' = Put(pipe, t, Reply(cs[i].by, "active", 0)) /\ goal' = [goal EXCEPT ![t] = "active"]
           \/ pipe' = Put(pipe, t, Reply(cs[i].by, "error", 0)) /\ goal' = goal
           \/ pipe' = Put(pipe, t, Reply(cs[i].by, "missing", 0)) /\ goal' = goal
  BY <1>3, Zenon DEF ChildGoalCall
<1>5. i \in DOMAIN cs /\ cs[i] \in CallType /\ cs[i].by \in Waiters
  <2>1. i \in DOMAIN cs
    BY <1>3, <1>4
  <2>2. \A j \in DOMAIN cs : cs[j] \in CallType
    BY <1>3
  <2> QED
    BY <2>1, <2>2 DEF CallType
<1>6. PICK r \in Seq(CallType) : /\ r = SubSeq(cs, 1, i - 1) \o SubSeq(cs, i + 1, Len(cs))
                                 /\ Taken(r, cs, i) /\ Elems(r) \subseteq Elems(cs)
  BY <1>5, RemoveTakes
<1>7. toChild' = [toChild EXCEPT ![t] = r]
  <2>1. toChild' = [toChild EXCEPT ![t] = SubSeq(cs, 1, i - 1) \o SubSeq(cs, i + 1, Len(cs))]
    BY <1>3, <1>4, Zenon DEF TakesGoalCall
  <2>2. r = SubSeq(cs, 1, i - 1) \o SubSeq(cs, i + 1, Len(cs))
    BY <1>6
  <2> QED
    BY <2>1, <2>2, Zenon
<1>8. \A u \in Threads : CallsStay(u)
  <2>1. r \in Seq(CallType) /\ Elems(r) \subseteq Elems(toChild[t])
    BY <1>3, <1>6
  <2> QED
    BY <1>7, <2>1, CallTakenStays
<1>9. goal[t] \in GoalStatus /\ goal \in [Threads -> GoalStatus] /\ 0 \in 0..MaxTurns
  BY <1>2, ThreadTypes, SwitchBarrierAssumption DEF WorkTyped
<1>10. PICK by \in Waiters, kind \in {cs[i].kind} : by = cs[i].by
  BY <1>5
<1>11. PICK val \in GoalStatus \cup {"error", "missing"} :
         /\ pipe' = Put(pipe, t, Reply(by, val, 0))
         /\ \/ goal' = goal /\ (val = "active" => goal[t] = "active")
            \/ goal' = [goal EXCEPT ![t] = "paused"] /\ val = "paused" /\ kind = "pause"
            \/ goal' = [goal EXCEPT ![t] = "active"] /\ val = "active"
  <2>1. CASE pipe' = Put(pipe, t, Reply(by, goal[t], 0)) /\ goal' = goal
    BY <1>9, <2>1
  <2>2. CASE pipe' = Put(pipe, t, Reply(by, "paused", 0)) /\ goal' = [goal EXCEPT ![t] = "paused"] /\ kind = "pause"
    BY <2>2 DEF GoalStatus
  <2>3. CASE pipe' = Put(pipe, t, Reply(by, "active", 0)) /\ goal' = [goal EXCEPT ![t] = "active"]
    BY <2>3 DEF GoalStatus
  <2>4. CASE pipe' = Put(pipe, t, Reply(by, "error", 0)) /\ goal' = goal
    BY <2>4
  <2>5. CASE pipe' = Put(pipe, t, Reply(by, "missing", 0)) /\ goal' = goal
    BY <2>5
  <2> QED
    BY <1>4, <1>10, <2>1, <2>2, <2>3, <2>4, <2>5
<1>12. PICK l : l = Reply(by, val, 0)
  OBVIOUS
<1>13. l \in LineType /\ l.type = "reply" /\ l.by = by /\ l.val = val
  BY <1>9, <1>11, <1>12, ReplyFields
<1>14. Elems(pipe'[t]) = Elems(pipe[t]) \cup {l} /\ \A u \in Threads : u # t => pipe'[u] = pipe[u]
  BY <1>11, <1>12, <1>13, LinePutElems
<1>15. kind = "pause" => prep.at = "pause" /\ prep.t = t /\ by = "prep"
  <2>1. kind = "pause" => cs[i] \in Elems(toChild[t]) /\ cs[i].kind = "pause"
    BY <1>3, <1>5, <1>10 DEF Elems
  <2> QED
    BY <1>2, <1>10, <2>1, WhoPauses
<1>16. PausesFit(t)' /\ PauseIsKnown(t)' /\ ResumedIsTrue(t)'
  <2>1. PausesFit(t) /\ PauseIsKnown(t) /\ ResumedIsTrue(t) /\ CallsStay(t)
    BY <1>2, <1>8 DEF TalkFits
  <2>2. PausesFit(t)'
    BY <1>1, <2>1 DEF PausesFit, CallsStay
  <2>3. PauseIsKnown(t)'
    <3>1. CASE goal'[t] = "paused" /\ goal[t] = "paused"
      BY <1>1, <1>14, <2>1, <3>1 DEF PauseIsKnown
    <3>2. CASE goal'[t] = "paused" /\ val = "paused" /\ kind = "pause"
      BY <1>1, <1>13, <1>14, <1>15, <3>2 DEF PauseIsKnown, SaysPaused
    <3>3. goal'[t] # "paused" \/ goal[t] = "paused" \/ (val = "paused" /\ kind = "pause")
      BY <1>9, <1>11
    <3> QED
      BY <3>1, <3>2, <3>3 DEF PauseIsKnown
  <2>4. ResumedIsTrue(t)'
    <3>1. CASE goal' = goal /\ (val = "active" => goal[t] = "active")
      BY <1>13, <1>14, <2>1, <3>1 DEF ResumedIsTrue, SaysResumed
    <3>2. CASE val = "paused" /\ kind = "pause"
      <4>1. \A m \in Elems(pipe[t]) : ~SaysResumed(m)
        BY <1>15, <3>2, NotBoth
      <4>2. ~SaysResumed(l)
        BY <1>13, <3>2 DEF SaysResumed
      <4> QED
        BY <1>14, <4>1, <4>2 DEF ResumedIsTrue
    <3>3. CASE goal' = [goal EXCEPT ![t] = "active"]
      BY <1>9, <3>3 DEF ResumedIsTrue
    <3> QED
      BY <1>11, <3>1, <3>2, <3>3
  <2> QED
    BY <2>2, <2>3, <2>4
<1>17. ASSUME NEW u \in Threads, u # t PROVE PausesFit(u)' /\ PauseIsKnown(u)' /\ ResumedIsTrue(u)'
  <2>1. PausesFit(u) /\ PauseIsKnown(u) /\ ResumedIsTrue(u) /\ CallsStay(u)
    BY <1>2, <1>8 DEF TalkFits
  <2>2. goal'[u] = goal[u] /\ pipe'[u] = pipe[u]
    BY <1>9, <1>11, <1>14, <1>17
  <2>3. PausesFit(u)'
    BY <1>1, <2>1 DEF PausesFit, CallsStay
  <2>4. PauseIsKnown(u)' /\ ResumedIsTrue(u)'
    BY <1>1, <2>1, <2>2 DEF PauseIsKnown, ResumedIsTrue
  <2> QED
    BY <2>3, <2>4
<1>18. TalkFits'
  BY <1>16, <1>17 DEF TalkFits
<1>19. PrepApart' /\ RecoveryFits' /\ PausedIsResumed'
  BY <1>1, RestStays DEF GoalsHeld
<1> QED
  BY <1>18, <1>19 DEF GoalsHeld

-----------------------------------------------------------------------------
(* The shim's steps.                                                        *)
LEMMA RelabelStays ==
  ASSUME WorkInv, TalkFits, NEW T, NEW f \in [Waiters -> Waiters], Relabel(T, f),
         prep.at = "pause" => f["prep"] = "prep", \A b \in Waiters : f[b] \in {"rec", "main"} => f[b] = b
  PROVE  \A u \in Threads : CallsStay(u) /\ LinesStay(u)
<1> SUFFICES ASSUME NEW u \in Threads PROVE CallsStay(u) /\ LinesStay(u)
  OBVIOUS
<1>1. CASE u \notin T
  <2>1. toChild'[u] = toChild[u] /\ pipe'[u] = pipe[u]
    BY <1>1 DEF Relabel
  <2> QED
    BY <2>1, SameTalk, SameLines
<1>2. CASE u \in T
  <2>1. PICK cs \in Seq(CallType) : cs = toChild[u]
    BY ThreadTypes DEF WorkInv
  <2>2. PICK p \in Seq(LineType) : p = pipe[u]
    BY ThreadTypes DEF WorkInv
  <2>3. PICK ds : ds = [i \in DOMAIN cs |-> [cs[i] EXCEPT !.by = f[@]]]
    OBVIOUS
  <2>4. PICK q : q = [i \in DOMAIN p |-> [p[i] EXCEPT !.by = f[@]]]
    OBVIOUS
  <2>5. toChild'[u] = ds /\ pipe'[u] = q
    BY <1>2, <2>1, <2>2, <2>3, <2>4 DEF Relabel
  <2>6. /\ DOMAIN ds = DOMAIN cs
        /\ \A i \in DOMAIN cs : cs[i].by \in Waiters /\ ds[i].kind = cs[i].kind /\ ds[i].by = f[cs[i].by]
    <3>1. \A i \in DOMAIN cs : cs[i] \in CallType
      OBVIOUS
    <3>2. \A c \in CallType : /\ c.by \in Waiters /\ [c EXCEPT !.by = f[@]].kind = c.kind
                              /\ [c EXCEPT !.by = f[@]].by = f[c.by]
      BY DEF CallType
    <3> QED
      BY <2>3, <3>1, <3>2
  <2>7. /\ DOMAIN q = DOMAIN p
        /\ \A i \in DOMAIN p : /\ p[i].by \in Waiters /\ q[i].type = p[i].type /\ q[i].val = p[i].val
                               /\ q[i].by = f[p[i].by]
    <3>1. \A i \in DOMAIN p : p[i] \in LineType
      OBVIOUS
    <3>2. \A c \in LineType : /\ c.by \in Waiters /\ [c EXCEPT !.by = f[@]].type = c.type
                              /\ [c EXCEPT !.by = f[@]].val = c.val /\ [c EXCEPT !.by = f[@]].by = f[c.by]
      BY DEF LineType
    <3> QED
      BY <2>4, <3>1, <3>2
  <2>8. CallsStay(u)
    <3> SUFFICES ASSUME NEW i \in DOMAIN ds, ds[i].kind = "pause"
                 PROVE  \E d \in Elems(toChild[u]) : d.kind = "pause" /\ d.by = ds[i].by
      BY <2>5 DEF CallsStay, Elems
    <3>1. cs[i] \in Elems(toChild[u]) /\ cs[i].kind = "pause" /\ ds[i].by = f[cs[i].by]
      BY <2>1, <2>6 DEF Elems
    <3>2. cs[i].by = "prep" /\ prep.at = "pause"
      BY <3>1 DEF TalkFits, PausesFit
    <3> QED
      BY <3>1, <3>2
  <2>9. \A m \in Elems(pipe'[u]) : SaysResumed(m) => \E l \in Elems(pipe[u]) : SaysResumed(l)
    BY <2>2, <2>5, <2>7 DEF SaysResumed, Elems
  <2>10. prep.at = "pause" /\ (\E m \in Elems(pipe[u]) : SaysPaused(m)) => \E m \in Elems(pipe'[u]) : SaysPaused(m)
    <3> SUFFICES ASSUME prep.at = "pause", NEW i \in DOMAIN p, SaysPaused(p[i])
                 PROVE  \E m \in Elems(pipe'[u]) : SaysPaused(m)
      BY <2>2 DEF Elems
    <3>1. SaysPaused(q[i]) /\ q[i] \in Elems(pipe'[u])
      BY <2>5, <2>7 DEF SaysPaused, Elems
    <3> QED
      BY <3>1
  <2> QED
    BY <2>8, <2>9, <2>10 DEF LinesStay
<1> QED
  BY <1>1, <1>2

LEMMA InterruptsLeftStays ==
  ASSUME WorkInv, TalkFits, LeaveInterrupts
  PROVE  \A u \in Threads : CallsStay(u) /\ LinesStay(u)
<1>1. PICK f : f = [b \in Waiters |-> IF b = "int" THEN "oldInt" ELSE IF b = "again" THEN "oldAgain" ELSE b]
  OBVIOUS
<1>2. Relabel(Threads, f)
  BY <1>1, Zenon DEF LeaveInterrupts
<1>3. f \in [Waiters -> Waiters] /\ f["prep"] = "prep" /\ \A b \in Waiters : f[b] \in {"rec", "main"} => f[b] = b
  BY <1>1 DEF Waiters
<1> QED
  BY <1>2, <1>3, RelabelStays

LEMMA AbandonStays ==
  ASSUME WorkInv, TalkFits, NEW T, NEW B, Abandon(T, B), prep.at = "pause" => "prep" \notin B
  PROVE  \A u \in Threads : CallsStay(u) /\ LinesStay(u)
<1>1. PICK f : f = [b \in Waiters |-> IF b \in B THEN "stale" ELSE b]
  OBVIOUS
<1>2. Relabel(T, f)
  BY <1>1, Zenon DEF Abandon
<1>3. /\ f \in [Waiters -> Waiters] /\ ("prep" \notin B => f["prep"] = "prep")
      /\ \A b \in Waiters : f[b] \in {"rec", "main"} => f[b] = b
  BY <1>1 DEF Waiters
<1> QED
  BY <1>2, <1>3, RelabelStays

(* A recovery that is queued comes to every Goal that is paused by then.    *)
LEMMA QueuedRecovery ==
  ASSUME WorkInv, RecoveryFits, NEW who \in {"prep", "cancel", "defer"}, recQ' = Append(recQ, who), rec' = rec
  PROVE  recQ' # <<>> /\ \A t : RecoveryComes(t)'
<1>1. PICK s \in Seq({"prep", "cancel", "defer"}) : s = recQ
  BY DEF WorkInv, WorkTyped
<1>2. PICK r : r = Append(s, who)
  OBVIOUS
<1>3. r # <<>> /\ (s = <<>> \/ Len(r) > 1)
  BY <1>2
<1>4. recQ' = r /\ (s = <<>> => rec'.at = "off")
  BY <1>1, <1>2 DEF RecoveryFits
<1> QED
  BY <1>3, <1>4 DEF RecoveryComes

LEMMA RestQueued ==
  ASSUME WorkInv, GoalsHeld, NEW who \in {"prep", "cancel", "defer"}, recQ' = Append(recQ, who), rec' = rec,
         req'.paused = req.paused,
         prep' = prep \/ (prep.at # "off" /\ prep'.at = "recover" /\ prep'.todo = prep.todo)
  PROVE  PrepApart' /\ RecoveryFits' /\ PausedIsResumed'
<1>1. recQ' # <<>> /\ \A t : RecoveryComes(t)'
  BY QueuedRecovery DEF GoalsHeld
<1>2. PausedIsResumed'
  BY <1>1 DEF PausedIsResumed, Resumable
<1>3. RecoveryFits'
  BY <1>1 DEF RecoveryFits, GoalsHeld
<1>4. PrepApart'
  BY DEF PrepApart, GoalsHeld
<1> QED
  BY <1>2, <1>3, <1>4

(* The shim asks for something and stays otherwise as it is.                *)
LEMMA AskGoals ==
  ASSUME WorkInv, GoalsHeld, NEW t, NEW c \in CallType, c.kind # "pause", toChild' = Put(toChild, t, c),
         UNCHANGED <<pipe, goal>>, prep.at = "pause" => prep'.at = "pause" /\ prep'.t = prep.t,
         req'.paused = req.paused
  PROVE  TalkFits'
<1>1. \A u \in Threads : CallsStay(u)
  BY CallPutStays
<1>2. \A u \in Threads : LinesStay(u) /\ GoalStays(u)
  BY SameLines DEF GoalStays
<1> QED
  BY <1>1, <1>2, TalkStays DEF GoalsHeld

LEMMA SilentGoals ==
  ASSUME GoalsHeld, UNCHANGED <<toChild, pipe, goal>>, prep.at = "pause" => prep'.at = "pause" /\ prep'.t = prep.t,
         req'.paused = req.paused
  PROVE  TalkFits'
<1>1. \A u \in Threads : CallsStay(u) /\ LinesStay(u) /\ GoalStays(u)
  BY SameTalk, SameLines DEF GoalStays
<1> QED
  BY <1>1, TalkStays DEF GoalsHeld

(* Nothing that the Goals depend on changes.                                *)
LEMMA QuietGoals ==
  ASSUME GoalsHeld, UNCHANGED <<toChild, pipe, goal, prep, rec, recQ, tx, pending>>, req'.paused = req.paused
  PROVE  GoalsHeld'
<1>1. TalkFits'
  BY SilentGoals
<1>2. PrepApart' /\ RecoveryFits' /\ PausedIsResumed'
  BY RestStays DEF GoalsHeld
<1> QED
  BY <1>1, <1>2 DEF GoalsHeld

LEMMA StartSentGoals ==
  ASSUME WorkInv, GoalsHeld, NEW t, toChild' = Put(toChild, t, Call("start", "client", 0)),
         UNCHANGED <<pipe, goal, prep, rec, recQ, tx, pending, req>>
  PROVE  GoalsHeld'
<1>1. PICK c : c = Call("start", "client", 0)
  OBVIOUS
<1>2. c \in CallType /\ c.kind = "start"
  <2>1. 0 \in 0..MaxTurns /\ "client" \in Waiters
    BY SwitchBarrierAssumption DEF Waiters
  <2> QED
    BY <1>1, <2>1 DEF Call, CallType
<1>3. TalkFits'
  BY <1>1, <1>2, AskGoals
<1>4. PrepApart' /\ RecoveryFits' /\ PausedIsResumed'
  BY RestStays DEF GoalsHeld
<1> QED
  BY <1>3, <1>4 DEF GoalsHeld

LEMMA WorkStartGoals ==
  ASSUME WorkInv, GoalsHeld, NEW t \in Threads, WorkStart(t) \/ FlushHeld(t)
  PROVE  GoalsHeld'
<1>1. UNCHANGED <<pipe, goal, prep, rec, recQ, tx, pending, req>>
  BY DEF WorkStart, FlushHeld, switchVars
<1>2. toChild' = toChild \/ toChild' = Put(toChild, t, Call("start", "client", 0))
  BY DEF WorkStart, FlushHeld
<1> QED
  BY <1>1, <1>2, QuietGoals, StartSentGoals

LEMMA SwitchRequestGoals ==
  ASSUME WorkInv, GoalShapes, GoalsHeld, NEW policy, NEW target, NEW recent, SwitchRequest(policy, target, recent)
  PROVE  GoalsHeld'
<1>1. /\ UNCHANGED <<goal, recQ, rec, tx>> /\ LeaveInterrupts /\ ~Barrier
      /\ prep' = [prep EXCEPT !.at = "next", !.todo = submitted \cup ActiveThreads \cup recent]
      /\ req' = [NoRequest EXCEPT !.canceled = FALSE, !.policy = policy, !.target = target,
                              !.previous = managerAccount, !.recent = recent]
  BY DEF SwitchRequest
<1>2. prep.at = "off" /\ recQ = <<>> /\ tx.step = "off" /\ ~pending
  BY <1>1 DEF Barrier
<1>3. req.paused = {}
  BY <1>2 DEF GoalsHeld, PausedIsResumed, Resumable, RecoveryComes, ResumeComes, AccountSteps
<1>4. req'.paused = {}
  BY <1>1 DEF NoRequest
<1>5. prep'.at = "next"
  BY <1>1 DEF GoalShapes
<1>6. PrepApart' /\ PausedIsResumed'
  BY <1>4, <1>5 DEF PrepApart, PausedIsResumed
<1>7. RecoveryFits'
  BY <1>1, <1>2 DEF RecoveryFits, GoalsHeld
<1>8. \A u \in Threads : CallsStay(u) /\ LinesStay(u) /\ GoalStays(u)
  BY <1>1, InterruptsLeftStays DEF GoalsHeld, GoalStays
<1>9. TalkFits'
  BY <1>2, <1>3, <1>8, TalkStays DEF GoalsHeld
<1> QED
  BY <1>6, <1>7, <1>9 DEF GoalsHeld

LEMMA CancelGoals ==
  ASSUME WorkInv, GoalShapes, GoalsHeld, Cancel
  PROVE  GoalsHeld'
<1>1. /\ UNCHANGED <<goal, prep, rec, tx>> /\ LeaveInterrupts /\ recQ' = Append(recQ, "cancel")
      /\ req' = [req EXCEPT !.canceled = TRUE]
  BY DEF Cancel
<1>2. req'.paused = req.paused
  BY <1>1 DEF GoalShapes
<1>3. PrepApart' /\ RecoveryFits' /\ PausedIsResumed'
  BY <1>1, <1>2, RestQueued
<1>4. \A u \in Threads : CallsStay(u) /\ LinesStay(u) /\ GoalStays(u)
  BY <1>1, InterruptsLeftStays DEF GoalsHeld, GoalStays
<1>5. TalkFits'
  BY <1>1, <1>2, <1>4, TalkStays DEF GoalsHeld
<1> QED
  BY <1>3, <1>5 DEF GoalsHeld

(* The request is put off, or goes on.                                      *)
LEMMA RestDeferred ==
  ASSUME WorkInv, GoalsHeld, UNCHANGED <<prep, rec, tx>>, req'.paused = req.paused,
         UNCHANGED <<pending, recQ>> \/ recQ' = Append(recQ, "defer")
  PROVE  PrepApart' /\ RecoveryFits' /\ PausedIsResumed'
BY RestStays, RestQueued DEF GoalsHeld

LEMMA GraceExpiredGoals ==
  ASSUME WorkInv, GoalShapes, GoalsHeld, GraceExpired
  PROVE  GoalsHeld'
<1>1. UNCHANGED <<pipe, goal, prep, rec, tx>>
  BY DEF GraceExpired
<1>2. req'.paused = req.paused
  BY DEF GraceExpired, GoalShapes
<1>3. UNCHANGED <<pending, recQ>> \/ recQ' = Append(recQ, "defer")
  BY DEF GraceExpired, Defer
<1>4. PrepApart' /\ RecoveryFits' /\ PausedIsResumed'
  BY <1>1, <1>2, <1>3, RestDeferred
<1>5. CASE toChild' = toChild
  BY <1>1, <1>2, <1>4, <1>5, SilentGoals DEF GoalsHeld
<1>6. CASE toChild' = [t \in Threads |->
             IF active[t] # 0 THEN Append(toChild[t], Call("interrupt", "int", active[t])) ELSE toChild[t]]
  <2>1. ASSUME NEW u \in Threads PROVE CallsStay(u)
    <3>1. CASE active[u] = 0
      <4>1. toChild'[u] = toChild[u]
        BY <1>6, <3>1
      <4> QED
        BY <4>1, SameTalk
    <3>2. CASE active[u] # 0
      <4>1. PICK c : c = Call("interrupt", "int", active[u])
        OBVIOUS
      <4>2. c.kind = "interrupt" /\ c \in CallType
        <5>1. active[u] \in 0..MaxTurns
          BY ThreadTypes DEF WorkInv
        <5>2. "int" \in Waiters
          BY DEF Waiters
        <5> QED
          BY <4>1, <5>1, <5>2 DEF Call, CallType
      <4>3. PICK cs \in Seq(CallType) : cs = toChild[u]
        BY ThreadTypes DEF WorkInv
      <4>4. toChild'[u] = Append(cs, c)
        BY <1>6, <3>2, <4>1, <4>3
      <4>5. Elems(Append(cs, c)) = Elems(cs) \cup {c}
        BY <4>2, AppendElems
      <4>6. Elems(toChild'[u]) = Elems(toChild[u]) \cup {c}
        BY <4>3, <4>4, <4>5
      <4> QED
        BY <4>2, <4>6 DEF CallsStay
    <3> QED
      BY <3>1, <3>2
  <2>2. \A u \in Threads : LinesStay(u) /\ GoalStays(u)
    BY <1>1, SameLines DEF GoalStays
  <2>3. TalkFits'
    BY <1>1, <1>2, <2>1, <2>2, TalkStays DEF GoalsHeld
  <2> QED
    BY <1>4, <2>3 DEF GoalsHeld
<1> QED
  BY <1>5, <1>6 DEF GraceExpired

LEMMA InterruptDoneRest ==
  ASSUME WorkInv, GoalsHeld, UNCHANGED <<prep, rec, tx>>, NEW t, NEW r, "canceled" \in DOMAIN r, "paused" \in DOMAIN r,
         r.paused = req.paused, InterruptDone(t, r)
  PROVE  req'.paused = req.paused /\ (UNCHANGED <<pending, recQ>> \/ recQ' = Append(recQ, "defer"))
BY DEF InterruptDone, Defer

LEMMA InterruptTimerGoals ==
  ASSUME WorkInv, GoalShapes, GoalsHeld, NEW t \in Threads, InterruptTimer(t)
  PROVE  GoalsHeld'
<1>1. PICK r : r = [req EXCEPT !.interrupted = [@ EXCEPT ![t] = 0], !.intFailed = TRUE]
  OBVIOUS
<1>2. r.paused = req.paused /\ {"canceled", "paused"} \subseteq DOMAIN r
  BY <1>1 DEF GoalShapes
<1>3. UNCHANGED <<goal, prep, rec, tx>> /\ InterruptDone(t, r) /\ Abandon({t}, {"int", "again"})
  BY <1>1 DEF InterruptTimer
<1>4. req'.paused = req.paused /\ (UNCHANGED <<pending, recQ>> \/ recQ' = Append(recQ, "defer"))
  BY <1>2, <1>3, InterruptDoneRest
<1>5. PrepApart' /\ RecoveryFits' /\ PausedIsResumed'
  BY <1>3, <1>4, RestDeferred
<1>6. \A u \in Threads : CallsStay(u) /\ LinesStay(u) /\ GoalStays(u)
  BY <1>3, AbandonStays DEF GoalsHeld, GoalStays
<1>7. TalkFits'
  BY <1>3, <1>4, <1>6, TalkStays DEF GoalsHeld
<1> QED
  BY <1>5, <1>7 DEF GoalsHeld

(* prepareGoalsForSwitch and recoverPausedGoals: the next thread.           *)
LEMMA PrepareNextGoals ==
  ASSUME WorkInv, GoalShapes, GoalsHeld, PrepareNext
  PROVE  GoalsHeld'
<1>1. UNCHANGED <<pipe, goal, rec, recQ, tx, pending>> /\ prep.at = "next"
  BY DEF PrepareNext
<1>2. req'.paused = req.paused
  BY DEF PrepareNext, EndPrepare, GoalShapes
<1>3. RecoveryFits' /\ PausedIsResumed'
  BY <1>1, <1>2 DEF GoalsHeld, RecoveryFits, PausedIsResumed, Resumable, RecoveryComes, ResumeComes
<1>4. CASE toChild' = toChild /\ prep' = [prep EXCEPT !.at = "off", !.todo = {}]
  <2>1. prep'.at = "off"
    BY <1>4 DEF GoalShapes
  <2>2. PrepApart'
    BY <2>1 DEF PrepApart
  <2>3. TalkFits'
    BY <1>1, <1>2, <1>4, SilentGoals
  <2> QED
    BY <1>3, <2>2, <2>3 DEF GoalsHeld
<1>5. CASE \E t \in prep.todo : /\ prep' = [at |-> "goalGet", t |-> t, todo |-> prep.todo \ {t}]
                                /\ toChild' = Put(toChild, t, Call("goalGet", "prep", 0))
  <2>1. PICK t \in prep.todo : /\ prep' = [at |-> "goalGet", t |-> t, todo |-> prep.todo \ {t}]
                               /\ toChild' = Put(toChild, t, Call("goalGet", "prep", 0))
    BY <1>5
  <2>2. PICK c : c = Call("goalGet", "prep", 0)
    OBVIOUS
  <2>3. c \in CallType /\ c.kind = "goalGet"
    <3>1. "prep" \in Waiters
      BY DEF Waiters
    <3> QED
      BY <2>2, <3>1, GoalCallFields
  <2>4. TalkFits'
    BY <1>1, <1>2, <2>1, <2>2, <2>3, AskGoals
  <2>5. PrepApart'
    BY <1>1, <1>2, <2>1 DEF PrepApart, GoalsHeld
  <2> QED
    BY <1>3, <2>4, <2>5 DEF GoalsHeld
<1> QED
  BY <1>4, <1>5 DEF PrepareNext, EndPrepare

LEMMA RecoverNextGoals ==
  ASSUME WorkInv, ControlInv, GoalShapes, GoalsHeld, RecoverNext
  PROVE  GoalsHeld'
<1>1. UNCHANGED <<pipe, goal, tx, pending, req>> /\ recQ # <<>> /\ rec.at \in {"off", "next"}
  BY DEF RecoverNext, GoalsHeld, RecoveryFits
<1>2. /\ tx.step = "off" /\ ~pending
      /\ \A u \in req.paused : RecoveryComes(u)
  BY <1>1 DEF ControlInv, RecoveringPhase, GoalsHeld, PausedIsResumed, Resumable, ResumeComes, AccountSteps
<1>3. PICK todo : todo = IF rec.at = "off" THEN req.paused ELSE rec.todo
  OBVIOUS
<1>4. todo \subseteq req.paused /\ (\A u \in req.paused : u \in todo \/ Len(recQ) > 1)
  BY <1>1, <1>2, <1>3 DEF RecoveryComes, GoalsHeld, RecoveryFits
<1>5. CASE \E t \in todo : /\ rec' = [at |-> "await", t |-> t, todo |-> todo \ {t}]
                           /\ toChild' = Put(toChild, t, Call("resume", "rec", 0))
                           /\ UNCHANGED <<recQ, prep>>
  <2>1. PICK t \in todo : /\ rec' = [at |-> "await", t |-> t, todo |-> todo \ {t}]
                          /\ toChild' = Put(toChild, t, Call("resume", "rec", 0))
                          /\ UNCHANGED <<recQ, prep>>
    BY <1>5
  <2>2. PICK c : c = Call("resume", "rec", 0)
    OBVIOUS
  <2>3. c \in CallType /\ c.kind = "resume"
    <3>1. "rec" \in Waiters
      BY DEF Waiters
    <3> QED
      BY <2>2, <3>1, GoalCallFields
  <2>4. TalkFits'
    BY <1>1, <2>1, <2>2, <2>3, AskGoals
  <2>5. PrepApart'
    BY <1>1, <2>1 DEF PrepApart, GoalsHeld
  <2>6. rec'.at = "await" /\ rec'.t = t /\ rec'.todo = todo \ {t}
    BY <2>1
  <2>7. RecoveryFits'
    BY <1>1, <1>4, <2>1, <2>6 DEF RecoveryFits
  <2>8. \A u \in req.paused : RecoveryComes(u)'
    BY <1>1, <1>4, <2>1, <2>6 DEF RecoveryComes
  <2>9. PausedIsResumed'
    BY <1>1, <2>8 DEF PausedIsResumed, Resumable
  <2> QED
    BY <2>4, <2>5, <2>7, <2>9 DEF GoalsHeld
<1>6. CASE /\ todo = {} /\ rec' = [rec EXCEPT !.at = "off", !.todo = {}] /\ recQ' = Tail(recQ) /\ toChild' = toChild
           /\ prep' = IF Head(recQ) = "prep" THEN [prep EXCEPT !.at = "off", !.todo = {}] ELSE prep
  <2>1. PICK s \in Seq({"prep", "cancel", "defer"}) : s = recQ
    BY DEF WorkInv, WorkTyped
  <2>2. PICK h : h = Head(s)
    OBVIOUS
  <2>3. Len(s) > 1 => Tail(s) # <<>>
    <3>1. s # <<>>
      BY <1>1, <2>1
    <3>2. PICK n \in Nat : Len(s) = n /\ Len(Tail(s)) = n - 1
      BY <3>1
    <3>3. Len(s) > 1 => Len(Tail(s)) # 0
      <4>1. n > 1 => n - 1 # 0
        OBVIOUS
      <4> QED
        BY <3>2, <4>1, Zenon
    <3>4. Len(<<>>) = 0
      OBVIOUS
    <3> QED
      BY <3>3, <3>4, Zenon
  <2>4. h = "prep" => prep.at \in {"late", "recover"}
    <3>1. h = s[1] /\ 1 \in DOMAIN s
      BY <1>1, <2>1, <2>2, TailTakes
    <3> QED
      BY <2>1, <3>1 DEF WorkInv, PrepOnce, AtRecovery
  <2>5. prep' = prep \/ (prep'.at = "off" /\ prep.at \in {"late", "recover"})
    BY <1>6, <2>1, <2>2, <2>4 DEF GoalShapes
  <2>6. PrepApart'
    BY <1>1, <2>5 DEF PrepApart, GoalsHeld
  <2>7. TalkFits'
    BY <1>1, <1>6, <2>5, SilentGoals
  <2>8. rec'.at = "off"
    BY <1>6 DEF GoalShapes
  <2>9. RecoveryFits'
    BY <2>8 DEF RecoveryFits
  <2>10. \A u \in req.paused : RecoveryComes(u)'
    BY <1>4, <1>6, <2>1, <2>3, <2>8 DEF RecoveryComes
  <2>11. PausedIsResumed'
    BY <1>1, <2>10 DEF PausedIsResumed, Resumable
  <2> QED
    BY <2>6, <2>7, <2>9, <2>11 DEF GoalsHeld
<1> QED
  BY <1>1, <1>3, <1>5, <1>6 DEF RecoverNext, Again

(* A line is read.                                                          *)
LEMMA LineRead ==
  ASSUME WorkInv, NEW t \in Threads, NEW m, m = Head(pipe[t]), pipe[t] # <<>>, pipe' = [pipe EXCEPT ![t] = Tail(@)]
  PROVE  /\ Elems(pipe'[t]) \subseteq Elems(pipe[t]) /\ Elems(pipe[t]) \subseteq Elems(pipe'[t]) \cup {m}
         /\ m \in Elems(pipe[t]) /\ \A u \in Threads : u # t => pipe'[u] = pipe[u]
<1>1. pipe \in [Threads -> Seq(LineType)]
  BY DEF WorkInv, WorkTyped
<1>2. PICK p \in Seq(LineType) : p = pipe[t]
  BY <1>1
<1>3. PICK q : q = Tail(p)
  OBVIOUS
<1>4. pipe'[t] = q /\ \A u \in Threads : u # t => pipe'[u] = pipe[u]
  BY <1>1, <1>2, <1>3
<1>5. p # <<>> /\ m = Head(p)
  BY <1>2
<1>6. /\ m \in Elems(p) /\ Elems(q) \subseteq Elems(p) /\ m = p[1] /\ \A j \in DOMAIN p : j # 1 => 1 < j
      /\ \A j \in DOMAIN p : 1 < j => j - 1 \in DOMAIN q /\ q[j - 1] = p[j]
  BY <1>3, <1>5, TailTakes
<1>7. Elems(p) \subseteq Elems(q) \cup {m}
  <2> SUFFICES ASSUME NEW j \in DOMAIN p, p[j] # m PROVE p[j] \in Elems(q)
    BY DEF Elems
  <2>1. j - 1 \in DOMAIN q /\ q[j - 1] = p[j]
    BY <1>6
  <2> QED
    BY <2>1 DEF Elems
<1> QED
  BY <1>2, <1>4, <1>6, <1>7

LEMMA ReadStays ==
  ASSUME WorkInv, NEW t \in Threads, NEW m, m = Head(pipe[t]), pipe[t] # <<>>, pipe' = [pipe EXCEPT ![t] = Tail(@)],
         prep.at = "pause" => ~SaysPaused(m)
  PROVE  \A u \in Threads : LinesStay(u)
<1>1. /\ Elems(pipe'[t]) \subseteq Elems(pipe[t]) /\ Elems(pipe[t]) \subseteq Elems(pipe'[t]) \cup {m}
      /\ \A u \in Threads : u # t => pipe'[u] = pipe[u]
  BY LineRead
<1>2. LinesStay(t)
  BY <1>1 DEF LinesStay
<1> QED
  BY <1>1, <1>2, SameLines

(* A line is read that no Goal depends on.                                  *)
LEMMA ReadTurnGoals ==
  ASSUME WorkInv, GoalsHeld, NEW t \in Threads, NEW m, m = Head(pipe[t]), pipe[t] # <<>>,
         pipe' = [pipe EXCEPT ![t] = Tail(@)], ~SaysPaused(m),
         UNCHANGED <<toChild, goal, prep, rec, recQ, tx, pending>>, req'.paused = req.paused
  PROVE  GoalsHeld'
<1>1. \A u \in Threads : CallsStay(u) /\ LinesStay(u) /\ GoalStays(u)
  BY ReadStays, SameTalk DEF GoalStays
<1>2. TalkFits'
  BY <1>1, TalkStays DEF GoalsHeld
<1>3. PrepApart' /\ RecoveryFits' /\ PausedIsResumed'
  BY RestStays DEF GoalsHeld
<1> QED
  BY <1>2, <1>3 DEF GoalsHeld

LEMMA ReadLineGoals ==
  ASSUME WorkInv, GoalShapes, GoalsHeld, NEW t \in Threads, ReadStarted(t) \/ ReadEnded(t) \/ ReadStartAnswer(t)
  PROVE  GoalsHeld'
<1>1. PICK m : m = Head(pipe[t])
  OBVIOUS
<1>2. pipe[t] # <<>> /\ pipe' = [pipe EXCEPT ![t] = Tail(@)] /\ (m.type \in {"started", "ended"} \/ m.by = "client")
  BY <1>1 DEF ReadStarted, ReadEnded, ReadStartAnswer, Reads
<1>3. ~SaysPaused(m)
  BY <1>2 DEF SaysPaused
<1>4. UNCHANGED <<toChild, goal, prep, rec, recQ, tx, pending>>
  BY DEF ReadStarted, ReadEnded, ReadStartAnswer, switchVars
<1>5. req'.paused = req.paused
  BY DEF ReadStarted, ReadEnded, ReadStartAnswer, switchVars, GoalShapes
<1> QED
  BY <1>1, <1>2, <1>3, <1>4, <1>5, ReadTurnGoals

(* The answer about the Goal of prep.t is read: nothing else is said of a   *)
(* Goal being paused, and no call to pause one is on its way.               *)
LEMMA PrepAnswered ==
  ASSUME WorkInv, ControlInv, GoalsHeld, NEW t \in Threads, NEW m, AnswerRead(t, m), m.by = "prep"
  PROVE  /\ prep.at \in {"goalGet", "pause"} /\ prep.t = t
         /\ \A u \in Threads : \A c \in Elems(toChild[u]) : c.kind # "pause"
         /\ \A u \in Threads : goal[u] = "paused" =>
              u \in req.paused \/ (u = t /\ prep.at = "pause" /\ m.val = "paused")
<1>1. m = Head(pipe[t]) /\ pipe[t] # <<>> /\ m.by \in Awaited
  BY DEF AnswerRead, Awaited
<1>2. Waits(t, m.by)
  BY <1>1, HeadLine
<1>3. prep.at \in {"goalGet", "pause"} /\ prep.t = t
  BY <1>2 DEF Waits
<1>4. m \in Elems(pipe[t])
  BY <1>1, LineRead DEF AnswerRead
<1>5. PICK j \in DOMAIN pipe[t] : m = pipe[t][j]
  BY <1>4 DEF Elems
<1>6. OneOf(toChild[t], owed[t], pipe[t], "prep")
  BY DEF WorkInv, ThreadFits, OneOut, Awaited
<1>7. ASSUME NEW u \in Threads, NEW c \in Elems(toChild[u]), c.kind = "pause" PROVE FALSE
  <2>1. c.by = "prep" /\ prep.t = u
    BY <1>7, WhoPauses DEF GoalsHeld
  <2>2. PICK i \in DOMAIN toChild[t] : toChild[t][i].by = "prep"
    BY <1>3, <2>1 DEF Elems
  <2> QED
    BY <1>5, <1>6, <2>2 DEF OneOf
<1>8. ASSUME NEW u \in Threads, goal[u] = "paused", u \notin req.paused
      PROVE  u = t /\ prep.at = "pause" /\ m.val = "paused"
  <2>1. PauseIsKnown(u)
    BY DEF GoalsHeld, TalkFits
  <2>2. prep.at = "pause" /\ prep.t = u
    BY <1>8, <2>1 DEF PauseIsKnown
  <2>3. PICK l \in Elems(pipe[t]) : SaysPaused(l)
    BY <1>3, <1>8, <2>1, <2>2 DEF PauseIsKnown
  <2>4. PICK i \in DOMAIN pipe[t] : l = pipe[t][i]
    BY <2>3 DEF Elems
  <2>5. i = j
    BY <1>5, <1>6, <2>3, <2>4 DEF OneOf, SaysPaused
  <2> QED
    BY <1>3, <1>5, <2>2, <2>3, <2>4, <2>5 DEF SaysPaused
<1> QED
  BY <1>3, <1>7, <1>8

(* What is then said of the Goals.                                          *)
LEMMA PrepAnsweredTalk ==
  ASSUME WorkInv, ControlInv, GoalsHeld, NEW t \in Threads, NEW m, AnswerRead(t, m), m.by = "prep",
         \/ toChild' = toChild
         \/ toChild' = Put(toChild, t, Call("pause", "prep", 0)) /\ prep'.at = "pause",
         \A u \in req.paused : u \in req'.paused, prep.at = "pause" /\ m.val = "paused" => t \in req'.paused
  PROVE  TalkFits'
<1>1. /\ \A u \in Threads : \A c \in Elems(toChild[u]) : c.kind # "pause"
      /\ \A u \in Threads : goal[u] = "paused" =>
              u \in req.paused \/ (u = t /\ prep.at = "pause" /\ m.val = "paused")
  BY PrepAnswered
<1>2. goal' = goal
  BY DEF AnswerRead
<1>3. \A u \in Threads : Elems(pipe'[u]) \subseteq Elems(pipe[u])
  <2>1. Elems(pipe'[t]) \subseteq Elems(pipe[t]) /\ \A u \in Threads : u # t => pipe'[u] = pipe[u]
    BY LineRead DEF AnswerRead
  <2> QED
    BY <2>1
<1>4. ASSUME NEW u \in Threads PROVE PauseIsKnown(u)' /\ ResumedIsTrue(u)'
  <2>1. PauseIsKnown(u)'
    BY <1>1, <1>2 DEF PauseIsKnown
  <2>2. ResumedIsTrue(u)'
    BY <1>2, <1>3 DEF ResumedIsTrue, GoalsHeld, TalkFits
  <2> QED
    BY <2>1, <2>2
<1>5. ASSUME NEW u \in Threads PROVE PausesFit(u)'
  <2>1. CASE toChild' = toChild
    BY <1>1, <2>1 DEF PausesFit
  <2>2. CASE toChild' = Put(toChild, t, Call("pause", "prep", 0)) /\ prep'.at = "pause"
    <3>1. PICK c : c = Call("pause", "prep", 0)
      OBVIOUS
    <3>2. c \in CallType /\ c.by = "prep"
      <4>1. "prep" \in Waiters
        BY DEF Waiters
      <4> QED
        BY <3>1, <4>1, GoalCallFields
    <3>3. toChild \in [Threads -> Seq(CallType)]
      BY DEF WorkInv, WorkTyped
    <3>4. PICK cs \in Seq(CallType) : cs = toChild[u]
      BY <3>3
    <3>5. toChild'[u] = cs \/ toChild'[u] = Append(cs, c)
      BY <2>2, <3>1, <3>3, <3>4 DEF Put
    <3>6. Elems(Append(cs, c)) = Elems(cs) \cup {c}
      BY <3>2, AppendElems
    <3>7. Elems(toChild'[u]) \subseteq Elems(toChild[u]) \cup {c}
      BY <3>4, <3>5, <3>6
    <3> QED
      BY <1>1, <2>2, <3>2, <3>7 DEF PausesFit
  <2> QED
    BY <2>1, <2>2
<1> QED
  BY <1>4, <1>5 DEF TalkFits

LEMMA PrepareReplyGoals ==
  ASSUME WorkInv, ControlInv, GoalShapes, GoalsHeld, NEW t \in Threads, NEW m, AnswerRead(t, m), m.by = "prep",
         PrepareReply(m.val), UNCHANGED <<rec, tx>>
  PROVE  GoalsHeld'
<1>1. prep.at \in {"goalGet", "pause"} /\ prep.t = t /\ t \notin req.paused \cup prep.todo
  BY PrepAnswered DEF GoalsHeld, PrepApart
<1>2. /\ \A x : /\ [prep EXCEPT !.at = x].at = x /\ [prep EXCEPT !.at = x].t = prep.t
                /\ [prep EXCEPT !.at = x].todo = prep.todo
      /\ [req EXCEPT !.canceled = TRUE].paused = req.paused
      /\ ThreadGone(req, t).paused = req.paused \ {t}
      /\ GoalPaused(req, t).paused = req.paused \cup {t}
      /\ NoActiveGoal(req, t, m.val).paused = req.paused
  BY DEF GoalShapes, ThreadGone, GoalPaused, NoActiveGoal
<1>3. CASE PrepareFails /\ toChild' = toChild /\ m.val = "error"
  <2>1. /\ req'.paused = req.paused /\ prep'.at = "recover" /\ prep'.todo = prep.todo
        /\ recQ' = Append(recQ, "prep")
    BY <1>2, <1>3 DEF PrepareFails
  <2>2. PrepApart' /\ RecoveryFits' /\ PausedIsResumed'
    BY <1>1, <2>1, RestQueued
  <2>3. TalkFits'
    BY <1>3, <2>1, PrepAnsweredTalk
  <2> QED
    BY <2>2, <2>3 DEF GoalsHeld
<1>4. ASSUME req'.paused = req.paused, prep'.at \in {"next", "pause"}, prep'.t = t, prep'.todo = prep.todo,
             UNCHANGED <<pending, recQ>>, ~(prep.at = "pause" /\ m.val = "paused"),
             \/ toChild' = toChild
             \/ toChild' = Put(toChild, t, Call("pause", "prep", 0)) /\ prep'.at = "pause"
      PROVE  GoalsHeld'
  <2>1. PrepApart'
    BY <1>1, <1>4 DEF PrepApart, GoalsHeld
  <2>2. RecoveryFits' /\ PausedIsResumed'
    BY <1>4 DEF GoalsHeld, RecoveryFits, PausedIsResumed, Resumable, RecoveryComes, ResumeComes
  <2>3. TalkFits'
    BY <1>4, PrepAnsweredTalk
  <2> QED
    BY <2>1, <2>2, <2>3 DEF GoalsHeld
<1>5. CASE PrepareMissing(t) /\ toChild' = toChild /\ m.val = "missing"
  <2>1. req'.paused = req.paused
    <3>1. \A T : t \notin T => T \ {t} = T
      OBVIOUS
    <3>2. req' = ThreadGone(req, t) /\ t \notin req.paused
      BY <1>1, <1>5 DEF PrepareMissing
    <3> QED
      BY <1>2, <3>1, <3>2, Zenon
  <2>2. prep'.at = "next" /\ prep'.t = t /\ prep'.todo = prep.todo /\ UNCHANGED <<pending, recQ>>
    BY <1>1, <1>2, <1>5 DEF PrepareMissing
  <2> QED
    BY <1>4, <1>5, <2>1, <2>2
<1>6. CASE PrepareAsksPause(t) /\ prep.at = "goalGet"
  <2>1. req'.paused = req.paused /\ prep'.at = "pause" /\ prep'.t = t /\ prep'.todo = prep.todo /\ UNCHANGED <<pending, recQ>>
    BY <1>1, <1>2, <1>6 DEF PrepareAsksPause
  <2>2. toChild' = Put(toChild, t, Call("pause", "prep", 0))
    BY <1>6 DEF PrepareAsksPause
  <2> QED
    BY <1>4, <1>6, <2>1, <2>2
<1>7. CASE PrepareContinues(IF req.canceled THEN req ELSE NoActiveGoal(req, t, m.val)) /\ toChild' = toChild /\ prep.at = "goalGet"
  <2>1. req'.paused = req.paused
    BY <1>2, <1>7 DEF PrepareContinues
  <2>2. prep'.at = "next" /\ prep'.t = t /\ prep'.todo = prep.todo /\ UNCHANGED <<pending, recQ>>
    BY <1>1, <1>2, <1>7 DEF PrepareContinues
  <2> QED
    BY <1>4, <1>7, <2>1, <2>2
<1>8. CASE PreparePaused(t) /\ toChild' = toChild
  <2>1. req'.paused = req.paused \cup {t}
    BY <1>2, <1>8 DEF PreparePaused
  <2>2. prep'.at \in {"late", "next"} /\ prep'.todo = prep.todo /\ pending' = pending
    BY <1>2, <1>8 DEF PreparePaused
  <2>3. PrepApart'
    BY <1>1, <2>1, <2>2 DEF PrepApart, GoalsHeld
  <2>4. TalkFits'
    BY <1>8, <2>1, PrepAnsweredTalk
  <2>5. CASE req.canceled
    <3>1. recQ' = Append(recQ, "prep")
      BY <1>8, <2>5 DEF PreparePaused
    <3>2. recQ' # <<>> /\ \A u : RecoveryComes(u)'
      BY <3>1, QueuedRecovery DEF GoalsHeld
    <3>3. PausedIsResumed'
      BY <3>2 DEF PausedIsResumed, Resumable
    <3>4. RecoveryFits'
      BY <2>1, <3>2 DEF RecoveryFits, GoalsHeld
    <3> QED
      BY <2>3, <2>4, <3>3, <3>4 DEF GoalsHeld
  <2>6. CASE ~req.canceled
    <3>1. pending' /\ recQ' = recQ
      BY <1>1, <1>8, <2>2, <2>6 DEF PreparePaused, ControlInv, PreparingPhase
    <3>2. PausedIsResumed'
      BY <3>1 DEF PausedIsResumed, Resumable
    <3>3. RecoveryFits'
      BY <2>1, <3>1 DEF RecoveryFits, GoalsHeld
    <3> QED
      BY <2>3, <2>4, <3>2, <3>3 DEF GoalsHeld
  <2> QED
    BY <2>5, <2>6
<1> QED
  BY <1>1, <1>3, <1>5, <1>6, <1>7, <1>8 DEF PrepareReply

LEMMA RecoverReplyGoals ==
  ASSUME WorkInv, GoalShapes, GoalsHeld, NEW t \in Threads, NEW m, AnswerRead(t, m), m.by = "rec",
         RecoverReply(m.val), UNCHANGED <<toChild, pending, prep, recQ, tx>>, ~unresumed'
  PROVE  GoalsHeld'
<1>1. m = Head(pipe[t]) /\ pipe[t] # <<>> /\ pipe' = [pipe EXCEPT ![t] = Tail(@)] /\ m.by \in Awaited /\ goal' = goal
  BY DEF AnswerRead, Awaited
<1>2. rec.at = "await" /\ rec.t = t
  <2>1. Waits(t, m.by)
    BY <1>1, HeadLine
  <2> QED
    BY <2>1 DEF Waits
<1>3. m.val = "active" /\ req' = [req EXCEPT !.paused = @ \ {t}] /\ rec' = [rec EXCEPT !.at = "next"]
  BY <1>2 DEF RecoverReply
<1>4. req'.paused = req.paused \ {t} /\ rec'.at = "next" /\ rec'.todo = rec.todo
  BY <1>3 DEF GoalShapes
<1>5. goal[t] # "paused"
  <2>1. m \in Elems(pipe[t])
    BY <1>1, LineRead
  <2> QED
    BY <1>3, <2>1 DEF GoalsHeld, TalkFits, ResumedIsTrue, SaysResumed
<1>6. \A u \in Threads : CallsStay(u) /\ LinesStay(u) /\ GoalStays(u)
  <2>1. ~SaysPaused(m)
    BY DEF SaysPaused
  <2> QED
    BY <1>1, <2>1, ReadStays, SameTalk DEF GoalStays
<1>7. TalkFits'
  BY <1>1, <1>4, <1>5, <1>6, TalkStays DEF GoalsHeld
<1>8. PrepApart'
  BY <1>4 DEF PrepApart, GoalsHeld
<1>9. RecoveryFits'
  BY <1>2, <1>4 DEF RecoveryFits, GoalsHeld
<1>10. PausedIsResumed'
  BY <1>2, <1>4 DEF PausedIsResumed, Resumable, RecoveryComes, ResumeComes, GoalsHeld
<1> QED
  BY <1>7, <1>8, <1>9, <1>10 DEF GoalsHeld

LEMMA InterruptReplyGoals ==
  ASSUME WorkInv, GoalShapes, GoalsHeld, NEW t \in Threads, NEW m, AnswerRead(t, m),
         m.by \in {"int", "again", "oldInt", "oldAgain"}, InterruptReply(t, m.by, m.val, m.n),
         UNCHANGED <<prep, rec, tx>>
  PROVE  GoalsHeld'
<1>1. m = Head(pipe[t]) /\ pipe[t] # <<>> /\ pipe' = [pipe EXCEPT ![t] = Tail(@)] /\ goal' = goal
  BY DEF AnswerRead
<1>2. \A u \in Threads : LinesStay(u) /\ GoalStays(u)
  <2>1. ~SaysPaused(m)
    BY DEF SaysPaused
  <2> QED
    BY <1>1, <2>1, ReadStays DEF GoalStays
<1>3. \A u \in Threads : CallsStay(u)
  <2>1. CASE toChild' = toChild
    BY <2>1, SameTalk
  <2>2. CASE \E b \in {"again", "oldAgain"} : toChild' = Put(toChild, t, Call("interrupt", b, m.n))
    <3>1. PICK b \in {"again", "oldAgain"} : toChild' = Put(toChild, t, Call("interrupt", b, m.n))
      BY <2>2
    <3>2. PICK c : c = Call("interrupt", b, m.n)
      OBVIOUS
    <3>3. c.kind = "interrupt" /\ c \in CallType
      <4>1. m.n \in 0..MaxTurns
        BY <1>1, HeadLine
      <4>2. b \in Waiters
        BY DEF Waiters
      <4> QED
        BY <3>2, <4>1, <4>2 DEF Call, CallType
    <3> QED
      BY <3>1, <3>2, <3>3, CallPutStays
  <2> QED
    BY <2>1, <2>2 DEF InterruptReply
<1>4. req'.paused = req.paused /\ (UNCHANGED <<pending, recQ>> \/ recQ' = Append(recQ, "defer"))
  <2>1. PICK a : a = [req EXCEPT !.interrupted = [@ EXCEPT ![t] = 0]]
    OBVIOUS
  <2>2. PICK b : b = [a EXCEPT !.intFailed = TRUE]
    OBVIOUS
  <2>3. PICK c : c = [req EXCEPT !.intFailed = TRUE]
    OBVIOUS
  <2>4. PICK d : d = [req EXCEPT !.interrupted = [@ EXCEPT ![t] = m.n]]
    OBVIOUS
  <2>5. \A r \in {req, a, b, c, d} : {"canceled", "paused"} \subseteq DOMAIN r /\ r.paused = req.paused
    BY <2>1, <2>2, <2>3, <2>4 DEF GoalShapes
  <2>6. \/ InterruptDone(t, req) \/ InterruptDone(t, a) \/ InterruptDone(t, b) \/ InterruptDone(t, c)
        \/ req' \in {req, d} /\ UNCHANGED <<pending, recQ>>
    BY <2>1, <2>2, <2>3, <2>4, Zenon DEF InterruptReply, OlderSettled
  <2> QED
    BY <2>5, <2>6, InterruptDoneRest
<1>5. PrepApart' /\ RecoveryFits' /\ PausedIsResumed'
  BY <1>4, RestDeferred
<1>6. TalkFits'
  BY <1>2, <1>3, <1>4, TalkStays DEF GoalsHeld
<1> QED
  BY <1>5, <1>6 DEF GoalsHeld

(* The transaction.                                                         *)
LEMMA UndoResumes ==
  ASSUME NEW x, {"step", "at", "t", "todo"} \subseteq DOMAIN x
  PROVE  /\ UndoAfterLogin(x).step \in AccountSteps
            \/ (UndoAfterLogin(x).step = "undoResume" /\ UndoAfterLogin(x).todo = req.paused)
         /\ UndoFrom(x).step \in AccountSteps
            \/ (UndoFrom(x).step = "undoResume" /\ UndoFrom(x).todo = req.paused)
<1>1. \A step, todo : Enter(x, step, todo).step = step /\ Enter(x, step, todo).todo = todo
  BY DEF Enter
<1>2. UndoAfterLogin(x).step \in AccountSteps
            \/ (UndoAfterLogin(x).step = "undoResume" /\ UndoAfterLogin(x).todo = req.paused)
  BY <1>1 DEF UndoAfterLogin, AccountSteps
<1> QED
  BY <1>1, <1>2 DEF UndoFrom, AccountSteps

(* Nobody recovers or pauses Goals while a transaction runs.                *)
LEMMA NobodyRecovers ==
  ASSUME ControlInv, GoalsHeld, tx.step # "off"
  PROVE  prep.at = "off" /\ recQ = <<>> /\ rec.at = "off" /\ ~pending
BY DEF ControlInv, SwitchingPhase, GoalsHeld, RecoveryFits

LEMMA ThreadStepRest ==
  ASSUME WorkInv, ControlInv, GoalShapes, GoalsHeld, NEW val, NEW n, ThreadStepSettles(val, n),
         ~unresumed', tx.at = "await", UNCHANGED <<pending, prep, rec, recQ>>
  PROVE  /\ PrepApart' /\ RecoveryFits' /\ PausedIsResumed'
         /\ \A u \in req.paused : u \in req'.paused \/ (val = "active" /\ u = tx.t)
<1>1. tx.step # "off"
  BY DEF ThreadStepSettles
<1>2. prep.at = "off" /\ recQ = <<>> /\ rec.at = "off" /\ ~pending
  BY <1>1, NobodyRecovers
<1>3. PrepApart' /\ RecoveryFits'
  BY <1>2 DEF PrepApart, RecoveryFits
<1>4. \A u \in req.paused : ResumeComes(u)
  BY <1>2 DEF GoalsHeld, PausedIsResumed, Resumable, RecoveryComes
<1>5. \A x : [tx EXCEPT !.at = x].at = x /\ [tx EXCEPT !.at = x].step = tx.step /\ [tx EXCEPT !.at = x].todo = tx.todo
  BY DEF GoalShapes
<1>6. CASE /\ tx.step \in {"resume", "undoResume"} /\ val = "active" /\ tx' = [tx EXCEPT !.at = "next"]
           /\ req' = [req EXCEPT !.paused = @ \ {tx.t}]
  <2>1. req'.paused = req.paused \ {tx.t}
    BY <1>6 DEF GoalShapes
  <2>2. \A u \in req'.paused : ResumeComes(u)'
    BY <1>4, <1>5, <1>6, <2>1 DEF ResumeComes, AccountSteps
  <2>3. PausedIsResumed'
    BY <2>2 DEF PausedIsResumed, Resumable
  <2> QED
    BY <1>3, <1>6, <2>1, <2>3
<1>7. CASE tx' = UndoFrom(tx) /\ req' = req
  <2>1. \A u \in req.paused : ResumeComes(u)'
    BY <1>7, UndoResumes DEF GoalShapes, ResumeComes
  <2>2. PausedIsResumed'
    BY <1>7, <2>1 DEF PausedIsResumed, Resumable
  <2> QED
    BY <1>3, <1>7, <2>2
<1>8. CASE tx.step = "continue" /\ req' = req
  <2>1. req.paused = {}
    BY <1>4, <1>8 DEF ResumeComes, AccountSteps
  <2>2. PausedIsResumed'
    BY <1>8, <2>1 DEF PausedIsResumed
  <2> QED
    BY <1>3, <1>8, <2>2
<1> QED
  BY <1>6, <1>7, <1>8 DEF ThreadStepSettles

LEMMA ThreadStepGoals ==
  ASSUME WorkInv, ControlInv, GoalShapes, GoalsHeld, NEW t \in Threads, NEW m, AnswerRead(t, m), m.by = "main",
         ThreadStepSettles(m.val, m.n), UNCHANGED <<toChild, pending, prep, rec, recQ>>, ~unresumed'
  PROVE  GoalsHeld'
<1>1. m = Head(pipe[t]) /\ pipe[t] # <<>> /\ pipe' = [pipe EXCEPT ![t] = Tail(@)] /\ m.by \in Awaited /\ goal' = goal
  BY DEF AnswerRead, Awaited
<1>2. tx.at = "await" /\ tx.t = t
  <2>1. Waits(t, m.by)
    BY <1>1, HeadLine
  <2> QED
    BY <2>1 DEF Waits
<1>3. m.val = "active" => goal[t] # "paused"
  <2>1. m \in Elems(pipe[t])
    BY <1>1, LineRead
  <2> QED
    BY <2>1 DEF GoalsHeld, TalkFits, ResumedIsTrue, SaysResumed
<1>4. /\ PrepApart' /\ RecoveryFits' /\ PausedIsResumed'
      /\ \A u \in req.paused : u \in req'.paused \/ (m.val = "active" /\ u = t)
  BY <1>2, ThreadStepRest
<1>5. \A u \in Threads : CallsStay(u) /\ LinesStay(u) /\ GoalStays(u)
  <2>1. ~SaysPaused(m)
    BY DEF SaysPaused
  <2> QED
    BY <1>1, <2>1, ReadStays, SameTalk DEF GoalStays
<1>6. TalkFits'
  BY <1>1, <1>3, <1>4, <1>5, TalkStays DEF GoalsHeld
<1> QED
  BY <1>4, <1>6 DEF GoalsHeld

LEMMA ReadInternalAnswerGoals ==
  ASSUME WorkInv, ControlInv, GoalShapes, GoalsHeld, NEW t \in Threads, ReadInternalAnswer(t), ~unresumed'
  PROVE  GoalsHeld'
<1>1. PICK m : m = Head(pipe[t])
  OBVIOUS
<1>2. AnswerRead(t, m)
  BY <1>1 DEF ReadInternalAnswer, Reads, AnswerRead
<1>3. CASE m.by = "prep" /\ PrepareReply(m.val) /\ UNCHANGED <<rec, tx>>
  BY <1>2, <1>3, PrepareReplyGoals
<1>4. CASE m.by = "rec" /\ RecoverReply(m.val) /\ UNCHANGED <<toChild, pending, prep, recQ, tx>>
  BY <1>2, <1>4, RecoverReplyGoals
<1>5. CASE /\ m.by \in {"int", "again", "oldInt", "oldAgain"} /\ InterruptReply(t, m.by, m.val, m.n)
           /\ UNCHANGED <<prep, rec, tx>>
  BY <1>2, <1>5, InterruptReplyGoals
<1>6. CASE m.by = "main" /\ ThreadStepSettles(m.val, m.n) /\ UNCHANGED <<toChild, pending, prep, rec, recQ>>
  BY <1>2, <1>6, ThreadStepGoals
<1>7. CASE m.by = "stale" /\ UNCHANGED <<toChild, pending, req, prep, rec, recQ, tx>>
  <2>1. ~SaysPaused(m)
    BY <1>7 DEF SaysPaused
  <2> QED
    BY <1>2, <1>7, <2>1, ReadTurnGoals DEF AnswerRead
<1> QED
  BY <1>1, <1>3, <1>4, <1>5, <1>6, <1>7 DEF ReadInternalAnswer

LEMMA TransactionGoals ==
  ASSUME GoalsHeld, UNCHANGED <<prep, rec, recQ, req>>, TalkFits', \A u \in req.paused : ResumeComes(u)'
  PROVE  GoalsHeld'
<1>1. PrepApart' /\ RecoveryFits'
  BY DEF GoalsHeld, PrepApart, RecoveryFits
<1>2. PausedIsResumed'
  BY DEF PausedIsResumed, Resumable
<1> QED
  BY <1>1, <1>2 DEF GoalsHeld

LEMMA DrainPendingGoals ==
  ASSUME GoalShapes, GoalsHeld, DrainPending
  PROVE  GoalsHeld'
<1>1. UNCHANGED <<toChild, pipe, goal, prep, rec, recQ, req>>
  BY DEF DrainPending, childVars
<1>2. CASE UNCHANGED <<pending, tx>>
  BY <1>1, <1>2, QuietGoals
<1>3. CASE tx' = Enter(NoTx, "login", {})
  <2>1. tx'.step = "login"
    BY <1>3 DEF Enter, NoTx
  <2>2. \A u \in req.paused : ResumeComes(u)'
    BY <2>1 DEF ResumeComes, AccountSteps
  <2>3. TalkFits'
    BY <1>1, SilentGoals
  <2> QED
    BY <1>1, <2>2, <2>3, TransactionGoals
<1> QED
  BY <1>2, <1>3 DEF DrainPending

LEMMA TxCallGoals ==
  ASSUME GoalShapes, GoalsHeld, TxCall \/ TxNoCredentials
  PROVE  GoalsHeld'
<1>1. UNCHANGED <<toChild, pipe, goal, prep, rec, recQ, req>> /\ tx.step \in AccountSteps
  BY DEF TxCall, TxNoCredentials, ChildStep, ManagerStep, AccountSteps, childVars
<1>2. tx'.step = tx.step
  BY DEF TxCall, TxNoCredentials, GoalShapes
<1>3. \A u \in req.paused : ResumeComes(u)'
  BY <1>1, <1>2 DEF ResumeComes
<1>4. TalkFits'
  BY <1>1, SilentGoals
<1> QED
  BY <1>1, <1>3, <1>4, TransactionGoals

LEMMA AccountStepGoals ==
  ASSUME GoalShapes, GoalsHeld, UNCHANGED <<toChild, pipe, goal, prep, rec, recQ, pending, req>>,
         \/ \E ok \in BOOLEAN : AccountStepSettles(ok)
         \/ tx.step \in {"identity", "undoIdentity"} /\ tx' = [tx EXCEPT !.at = "next"]
  PROVE  GoalsHeld'
<1>1. \A step, todo : Enter(tx, step, todo).step = step /\ Enter(tx, step, todo).todo = todo
  BY DEF Enter
<1>2. \A u \in req.paused : ResumeComes(u)'
  <2>1. CASE tx' = UndoFrom(tx) \/ tx' = UndoAfterLogin(tx)
    BY <2>1, UndoResumes DEF GoalShapes, ResumeComes
  <2>2. CASE tx.step \in {"identity", "undoIdentity"} /\ tx' = [tx EXCEPT !.at = "next"]
    BY <2>2 DEF GoalShapes, ResumeComes, AccountSteps
  <2>3. CASE tx' = Enter(tx, "resume", req.paused \cup req.limited) \/ tx' = Enter(tx, "undoResume", req.paused)
    BY <1>1, <2>3 DEF ResumeComes
  <2>4. CASE tx' = Enter(tx, "activate", {}) \/ tx' = Enter(tx, "undoIdentity", {})
    BY <1>1, <2>4 DEF ResumeComes, AccountSteps
  <2>5. CASE tx' = Enter([tx EXCEPT !.applied = TRUE], "identity", {})
    <3>1. \A x : Enter(x, "identity", {}).step = "identity" \/ "step" \notin DOMAIN x
      BY DEF Enter
    <3>2. "step" \in DOMAIN [tx EXCEPT !.applied = TRUE]
      BY DEF GoalShapes
    <3> QED
      BY <2>5, <3>1, <3>2 DEF ResumeComes, AccountSteps
  <2> QED
    BY <2>1, <2>2, <2>3, <2>4, <2>5 DEF AccountStepSettles
<1>3. TalkFits'
  BY SilentGoals
<1> QED
  BY <1>2, <1>3, TransactionGoals

LEMMA ReadAccountAnswerGoals ==
  ASSUME GoalShapes, GoalsHeld, ReadAccountAnswer \/ AccountStepTimer
  PROVE  GoalsHeld'
<1>1. UNCHANGED <<toChild, pipe, goal, prep, rec, recQ, pending, req>>
  BY DEF ReadAccountAnswer, AccountStepTimer, childVars
<1>2. \/ \E ok \in BOOLEAN : AccountStepSettles(ok)
      \/ tx.step \in {"identity", "undoIdentity"} /\ tx' = [tx EXCEPT !.at = "next"]
  BY DEF ReadAccountAnswer, AccountStepTimer
<1> QED
  BY <1>1, <1>2, AccountStepGoals

LEMMA TxNextThreadGoals ==
  ASSUME WorkInv, ControlInv, GoalShapes, GoalsHeld, TxNextThread
  PROVE  GoalsHeld'
<1>1. /\ UNCHANGED <<pipe, goal, prep, rec, recQ, pending, req>> /\ tx.at = "next"
      /\ tx.step \in {"resume", "undoResume", "continue"}
  BY ThreadSteps DEF TxNextThread
<1>2. prep.at = "off" /\ recQ = <<>> /\ rec.at = "off" /\ ~pending
  BY <1>1, NobodyRecovers
<1>3. \A u \in req.paused : tx.step \in {"resume", "undoResume"} /\ u \in tx.todo
  BY <1>1, <1>2 DEF GoalsHeld, PausedIsResumed, Resumable, RecoveryComes, ResumeComes, AccountSteps
<1>4. CASE \E t \in tx.todo : /\ tx' = [tx EXCEPT !.at = "await", !.t = t, !.todo = @ \ {t}]
                              /\ toChild' = Put(toChild, t, Call(ThreadStepKind[tx.step], "main", 0))
  <2>1. PICK t \in tx.todo : /\ tx' = [tx EXCEPT !.at = "await", !.t = t, !.todo = @ \ {t}]
                             /\ toChild' = Put(toChild, t, Call(ThreadStepKind[tx.step], "main", 0))
    BY <1>4
  <2>2. PICK kind \in {"resume", "continue"} : kind = ThreadStepKind[tx.step]
    BY <1>1 DEF ThreadStepKind
  <2>3. PICK c : c = Call(kind, "main", 0)
    OBVIOUS
  <2>4. c \in CallType /\ c.kind # "pause"
    <3>1. 0 \in 0..MaxTurns /\ "main" \in Waiters
      BY SwitchBarrierAssumption DEF Waiters
    <3> QED
      BY <2>2, <2>3, <3>1 DEF Call, CallType
  <2>5. toChild' = Put(toChild, t, c)
    BY <2>1, <2>2, <2>3
  <2>6. TalkFits'
    BY <1>1, <2>4, <2>5, AskGoals
  <2>7. tx'.step = tx.step /\ tx'.at = "await" /\ tx'.t = t /\ tx'.todo = tx.todo \ {t}
    BY <2>1 DEF GoalShapes
  <2>8. \A u \in req.paused : ResumeComes(u)'
    BY <1>3, <2>7 DEF ResumeComes
  <2> QED
    BY <1>1, <2>6, <2>8, TransactionGoals
<1>5. CASE tx.todo = {} /\ toChild' = toChild
  <2>1. TalkFits'
    BY <1>1, <1>5, SilentGoals
  <2>2. req.paused = {}
    BY <1>3, <1>5
  <2> QED
    BY <1>1, <2>1, <2>2, TransactionGoals
<1> QED
  BY <1>4, <1>5 DEF TxNextThread

(* Timers.                                                                  *)
LEMMA ThreadStepTimerGoals ==
  ASSUME WorkInv, ControlInv, GoalShapes, GoalsHeld, ThreadStepTimer, ~unresumed'
  PROVE  GoalsHeld'
<1>1. /\ UNCHANGED <<goal, prep, rec, recQ, pending>> /\ Abandon({tx.t}, {"main"})
      /\ ThreadStepSettles("error", 0) /\ tx.step # "off"
  BY ThreadSteps DEF ThreadStepTimer
<1>2. tx.at = "await"
  BY <1>1 DEF ThreadStepTimer, EventLoopFree
<1>3. PrepApart' /\ RecoveryFits' /\ PausedIsResumed' /\ \A u \in req.paused : u \in req'.paused
  BY <1>1, <1>2, ThreadStepRest
<1>4. \A u \in Threads : CallsStay(u) /\ LinesStay(u) /\ GoalStays(u)
  BY <1>1, AbandonStays DEF GoalsHeld, GoalStays
<1>5. TalkFits'
  BY <1>1, <1>3, <1>4, TalkStays DEF GoalsHeld
<1> QED
  BY <1>3, <1>5 DEF GoalsHeld

LEMMA PrepareTimerGoals ==
  ASSUME WorkInv, GoalShapes, GoalsHeld, PrepareTimer, "pause" \notin Timeouts
  PROVE  GoalsHeld'
<1>1. /\ UNCHANGED <<goal, rec, tx>> /\ Abandon({prep.t}, {"prep"}) /\ prep.at = "goalGet"
      /\ recQ' = Append(recQ, "prep") /\ req' = [req EXCEPT !.canceled = TRUE]
      /\ prep' = [prep EXCEPT !.at = "recover"]
  BY DEF PrepareTimer, PrepareFails
<1>2. req'.paused = req.paused /\ prep'.at = "recover" /\ prep'.todo = prep.todo
  BY <1>1 DEF GoalShapes
<1>3. PrepApart' /\ RecoveryFits' /\ PausedIsResumed'
  BY <1>1, <1>2, RestQueued
<1>4. \A u \in Threads : CallsStay(u) /\ LinesStay(u) /\ GoalStays(u)
  BY <1>1, AbandonStays DEF GoalsHeld, GoalStays
<1>5. TalkFits'
  BY <1>1, <1>2, <1>4, TalkStays DEF GoalsHeld
<1> QED
  BY <1>3, <1>5 DEF GoalsHeld

LEMMA RecoverTimerGivesUp ==
  ASSUME RecoverTimer
  PROVE  unresumed'
BY DEF RecoverTimer, RecoverReply

-----------------------------------------------------------------------------
(* The records keep their fields.                                           *)
LEMMA ShapesStay ==
  ASSUME GoalShapes, \/ prep' = prep \/ DOMAIN prep' = DOMAIN prep \/ {"at", "t", "todo"} \subseteq DOMAIN prep',
         \/ rec' = rec \/ DOMAIN rec' = DOMAIN rec \/ {"at", "t", "todo"} \subseteq DOMAIN rec',
         \/ tx' = tx \/ DOMAIN tx' = DOMAIN tx \/ {"step", "at", "t", "todo"} \subseteq DOMAIN tx',
         \/ req' = req \/ DOMAIN req' = DOMAIN req \/ {"canceled", "paused"} \subseteq DOMAIN req'
  PROVE  GoalShapes'
BY DEF GoalShapes

LEMMA TxShapes ==
  ASSUME GoalShapes
  PROVE  /\ DOMAIN UndoFrom(tx) = DOMAIN tx /\ DOMAIN UndoAfterLogin(tx) = DOMAIN tx
         /\ {"step", "at", "t", "todo"} \subseteq DOMAIN NoTx
         /\ \A step, todo : /\ DOMAIN Enter(tx, step, todo) = DOMAIN tx
                            /\ {"step", "at", "t", "todo"} \subseteq DOMAIN Enter(NoTx, step, todo)
<1>1. {"step", "at", "t"} \subseteq DOMAIN tx
  BY DEF GoalShapes
<1>2. DOMAIN UndoFrom(tx) = DOMAIN tx /\ DOMAIN UndoAfterLogin(tx) = DOMAIN tx
  BY <1>1, UndoFields
<1>3. \A step, todo : DOMAIN Enter(tx, step, todo) = DOMAIN tx
  BY <1>1, EnterKeepsFields
<1>4. {"step", "at", "t", "todo"} \subseteq DOMAIN NoTx
  BY DEF NoTx
<1>5. \A step, todo : DOMAIN Enter(NoTx, step, todo) = DOMAIN NoTx
  BY <1>4, EnterKeepsFields
<1> QED
  BY <1>2, <1>3, <1>4, <1>5

LEMMA ThreadStepShapes ==
  ASSUME GoalShapes, NEW val, NEW n, ThreadStepSettles(val, n), UNCHANGED <<prep, rec>>
  PROVE  GoalShapes'
<1>1. DOMAIN req' = DOMAIN req
  BY DEF ThreadStepSettles
<1>2. DOMAIN tx' = DOMAIN tx \/ {"step", "at", "t", "todo"} \subseteq DOMAIN tx'
  <2>1. CASE tx' = [tx EXCEPT !.at = "next"]
    BY <2>1
  <2>2. CASE tx' = UndoFrom(tx) \/ tx' = NoTx
    BY <2>2, TxShapes
  <2> QED
    BY <2>1, <2>2 DEF ThreadStepSettles
<1> QED
  BY <1>1, <1>2, ShapesStay

LEMMA AccountStepShapes ==
  ASSUME GoalShapes, NEW ok, AccountStepSettles(ok), UNCHANGED <<prep, rec, req>>
  PROVE  GoalShapes'
<1>1. DOMAIN tx' = DOMAIN tx
  <2>1. CASE tx' = UndoFrom(tx) \/ tx' = UndoAfterLogin(tx) \/ \E step, todo : tx' = Enter(tx, step, todo)
    BY <2>1, TxShapes
  <2>2. CASE tx' = Enter([tx EXCEPT !.applied = TRUE], "identity", {})
    BY <2>2 DEF Enter
  <2> QED
    BY <2>1, <2>2 DEF AccountStepSettles
<1> QED
  BY <1>1, ShapesStay

LEMMA InterruptShapes ==
  ASSUME GoalShapes, NEW t, NEW r, DOMAIN r = DOMAIN req, InterruptDone(t, r)
  PROVE  DOMAIN req' = DOMAIN req
BY DEF InterruptDone

LEMMA PrepareReplyShapes ==
  ASSUME GoalShapes, NEW val, PrepareReply(val), UNCHANGED <<rec, tx>>
  PROVE  GoalShapes'
<1>1. DOMAIN prep' = DOMAIN prep
  BY DEF PrepareReply, PrepareFails, PrepareMissing, PrepareAsksPause, PrepareContinues, PreparePaused
<1>2. DOMAIN req' = DOMAIN req
  <2>1. \A t : /\ DOMAIN GoalPaused(req, t) = DOMAIN req /\ DOMAIN ThreadGone(req, t) = DOMAIN req
               /\ DOMAIN NoActiveGoal(req, t, val) = DOMAIN req
    BY DEF GoalPaused, ThreadGone, NoActiveGoal
  <2>2. DOMAIN [req EXCEPT !.canceled = TRUE] = DOMAIN req
    OBVIOUS
  <2>3. \/ req' = req \/ req' = [req EXCEPT !.canceled = TRUE]
        \/ \E t : req' = GoalPaused(req, t) \/ req' = ThreadGone(req, t) \/ req' = NoActiveGoal(req, t, val)
    BY Zenon DEF PrepareReply, PrepareFails, PrepareMissing, PrepareAsksPause, PrepareContinues, PreparePaused
  <2> QED
    BY <2>1, <2>2, <2>3
<1> QED
  BY <1>1, <1>2, ShapesStay

LEMMA ReadInternalAnswerShapes ==
  ASSUME GoalShapes, NEW t \in Threads, ReadInternalAnswer(t)
  PROVE  GoalShapes'
<1>1. PICK m : m = Head(pipe[t])
  OBVIOUS
<1>2. CASE PrepareReply(m.val) /\ UNCHANGED <<rec, tx>>
  BY <1>2, PrepareReplyShapes
<1>3. CASE RecoverReply(m.val) /\ UNCHANGED <<prep, tx>>
  <2>1. DOMAIN req' = DOMAIN req /\ DOMAIN rec' = DOMAIN rec
    BY <1>3 DEF RecoverReply
  <2> QED
    BY <1>3, <2>1, ShapesStay
<1>4. CASE InterruptReply(t, m.by, m.val, m.n) /\ UNCHANGED <<prep, rec, tx>>
  <2>1. PICK a : a = [req EXCEPT !.interrupted = [@ EXCEPT ![t] = 0]]
    OBVIOUS
  <2>2. PICK b : b = [a EXCEPT !.intFailed = TRUE]
    OBVIOUS
  <2>3. PICK c : c = [req EXCEPT !.intFailed = TRUE]
    OBVIOUS
  <2>4. PICK d : d = [req EXCEPT !.interrupted = [@ EXCEPT ![t] = m.n]]
    OBVIOUS
  <2>5. \A r \in {req, a, b, c, d} : DOMAIN r = DOMAIN req
    BY <2>1, <2>2, <2>3, <2>4
  <2>6. \/ InterruptDone(t, req) \/ InterruptDone(t, a) \/ InterruptDone(t, b) \/ InterruptDone(t, c)
        \/ req' \in {req, d}
    BY <1>4, <2>1, <2>2, <2>3, <2>4, Zenon DEF InterruptReply, OlderSettled
  <2>7. DOMAIN req' = DOMAIN req
    BY <2>5, <2>6, InterruptShapes
  <2> QED
    BY <1>4, <2>7, ShapesStay
<1>5. CASE ThreadStepSettles(m.val, m.n) /\ UNCHANGED <<prep, rec>>
  BY <1>5, ThreadStepShapes
<1>6. CASE UNCHANGED <<prep, rec, req, tx>>
  BY <1>6, ShapesStay
<1> QED
  BY <1>1, <1>2, <1>3, <1>4, <1>5, <1>6 DEF ReadInternalAnswer

LEMMA ShimShapes ==
  ASSUME GoalShapes, ShimStep
  PROVE  GoalShapes'
<1>1. CASE PrepareNext
  <2>1. DOMAIN req' = DOMAIN req /\ UNCHANGED <<rec, tx>>
    BY <1>1 DEF PrepareNext, EndPrepare
  <2>2. DOMAIN prep' = DOMAIN prep \/ {"at", "t", "todo"} \subseteq DOMAIN prep'
    BY <1>1 DEF PrepareNext, EndPrepare
  <2> QED
    BY <2>1, <2>2, ShapesStay
<1>2. CASE RecoverNext
  <2>1. UNCHANGED <<req, tx>> /\ DOMAIN prep' = DOMAIN prep
    BY <1>2 DEF RecoverNext
  <2>2. DOMAIN rec' = DOMAIN rec \/ {"at", "t", "todo"} \subseteq DOMAIN rec'
    BY <1>2 DEF RecoverNext
  <2> QED
    BY <2>1, <2>2, ShapesStay
<1>3. CASE DrainPending
  <2>1. UNCHANGED <<prep, rec, req>> /\ (tx' = tx \/ tx' = Enter(NoTx, "login", {}))
    BY <1>3 DEF DrainPending
  <2> QED
    BY <2>1, TxShapes, ShapesStay
<1>4. CASE TxCall \/ TxNoCredentials
  <2>1. UNCHANGED <<prep, rec, req>> /\ DOMAIN tx' = DOMAIN tx
    BY <1>4 DEF TxCall, TxNoCredentials
  <2> QED
    BY <2>1, ShapesStay
<1>5. CASE TxNextThread
  <2>1. UNCHANGED <<prep, rec, req>>
    BY <1>5 DEF TxNextThread
  <2>2. CASE \E t : tx' = [tx EXCEPT !.at = "await", !.t = t, !.todo = @ \ {t}]
    <3>1. DOMAIN tx' = DOMAIN tx
      BY <2>2
    <3> QED
      BY <2>1, <3>1, ShapesStay
  <2>3. CASE tx' = Enter(tx, "continue", req.recovery) \/ tx' = NoTx
    BY <2>1, <2>3, TxShapes, ShapesStay
  <2> QED
    BY <1>5, <2>2, <2>3 DEF TxNextThread
<1>6. ASSUME NEW t \in Threads, FlushHeld(t) PROVE GoalShapes'
  BY <1>6, ShapesStay DEF FlushHeld, switchVars
<1> QED
  BY <1>1, <1>2, <1>3, <1>4, <1>5, <1>6 DEF ShimStep

LEMMA TimerShapes ==
  ASSUME GoalShapes, TimerStep
  PROVE  GoalShapes'
<1>1. CASE PrepareTimer
  <2>1. UNCHANGED <<rec, tx>> /\ DOMAIN req' = DOMAIN req /\ DOMAIN prep' = DOMAIN prep
    BY <1>1 DEF PrepareTimer, PrepareFails
  <2> QED
    BY <2>1, ShapesStay
<1>2. CASE RecoverTimer
  <2>1. UNCHANGED <<prep, tx>> /\ DOMAIN req' = DOMAIN req /\ DOMAIN rec' = DOMAIN rec
    BY <1>2 DEF RecoverTimer, RecoverReply
  <2> QED
    BY <2>1, ShapesStay
<1>3. CASE ThreadStepTimer
  BY <1>3, ThreadStepShapes DEF ThreadStepTimer
<1>4. CASE AccountStepTimer
  BY <1>4, AccountStepShapes DEF AccountStepTimer
<1>5. CASE GraceExpired
  <2>1. UNCHANGED <<prep, rec, tx>> /\ DOMAIN req' = DOMAIN req
    BY <1>5 DEF GraceExpired
  <2> QED
    BY <2>1, ShapesStay
<1>6. ASSUME NEW t \in Threads, InterruptTimer(t) PROVE GoalShapes'
  <2>1. PICK r : r = [req EXCEPT !.interrupted = [@ EXCEPT ![t] = 0], !.intFailed = TRUE]
    OBVIOUS
  <2>2. UNCHANGED <<prep, rec, tx>> /\ InterruptDone(t, r) /\ DOMAIN r = DOMAIN req
    BY <1>6, <2>1 DEF InterruptTimer
  <2> QED
    BY <2>2, InterruptShapes, ShapesStay
<1> QED
  BY <1>1, <1>2, <1>3, <1>4, <1>5, <1>6 DEF TimerStep

LEMMA ShapesStep ==
  ASSUME GoalShapes, [Next]_vars
  PROVE  GoalShapes'
<1>1. CASE UNCHANGED <<prep, rec, tx, req>>
  BY <1>1, ShapesStay
<1>2. CASE UNCHANGED vars
  BY <1>1, <1>2 DEF vars, switchVars
<1>3. ASSUME NEW t \in Threads, WorkStart(t) PROVE GoalShapes'
  BY <1>1, <1>3 DEF WorkStart, switchVars
<1>4. ASSUME NEW policy, NEW target, NEW recent, SwitchRequest(policy, target, recent) PROVE GoalShapes'
  <2>1. UNCHANGED <<rec, tx>> /\ DOMAIN prep' = DOMAIN prep /\ {"canceled", "paused"} \subseteq DOMAIN req'
    BY <1>4 DEF SwitchRequest, NoRequest
  <2> QED
    BY <2>1, ShapesStay
<1>5. CASE Cancel
  <2>1. UNCHANGED <<prep, rec, tx>> /\ DOMAIN req' = DOMAIN req
    BY <1>5 DEF Cancel
  <2> QED
    BY <2>1, ShapesStay
<1>6. CASE ShimStep \/ TimerStep
  BY <1>6, ShimShapes, TimerShapes
<1>7. CASE ReadAccountAnswer
  <2>1. UNCHANGED <<prep, rec, req>>
    BY <1>7 DEF ReadAccountAnswer
  <2>2. CASE tx' = [tx EXCEPT !.at = "next"]
    <3>1. DOMAIN tx' = DOMAIN tx
      BY <2>2
    <3> QED
      BY <2>1, <3>1, ShapesStay
  <2> QED
    BY <1>7, <2>1, <2>2, AccountStepShapes DEF ReadAccountAnswer
<1>8. ASSUME NEW t \in Threads, ReadStarted(t) \/ ReadEnded(t) \/ ReadStartAnswer(t) PROVE GoalShapes'
  <2>1. UNCHANGED <<prep, rec, tx>> /\ DOMAIN req' = DOMAIN req
    BY <1>8 DEF ReadStarted, ReadEnded, ReadStartAnswer, switchVars
  <2> QED
    BY <2>1, ShapesStay
<1>9. CASE ReadStep
  BY <1>7, <1>8, <1>9, ReadInternalAnswerShapes DEF ReadStep
<1>10. CASE ChildAccountCall \/ ManagerActivate
  BY <1>1, <1>10 DEF ChildAccountCall, ManagerActivate, switchVars
<1>11. ASSUME NEW t \in Threads,
              ChildAnswer(t) \/ ChildFinish(t) \/ ChildGoalTurn(t) \/ ChildStart(t) \/ ChildGoalCall(t) \/ ChildInterrupt(t)
       PROVE  GoalShapes'
  BY <1>1, <1>11 DEF ChildAnswer, ChildFinish, ChildGoalTurn, ChildStart, ChildGoalCall, ChildInterrupt, switchVars
<1> QED
  BY <1>2, <1>3, <1>4, <1>5, <1>6, <1>9, <1>10, <1>11 DEF Next

(* Nothing takes it back that the shim has given up on a Goal.              *)
LEMMA UnresumedStays ==
  ASSUME [Next]_vars, unresumed
  PROVE  unresumed'
<1>1. CASE UNCHANGED unresumed
  BY <1>1
<1>2. ASSUME NEW val, RecoverReply(val) PROVE unresumed'
  BY <1>2 DEF RecoverReply
<1>3. ASSUME NEW val, NEW n, ThreadStepSettles(val, n) PROVE unresumed'
  BY <1>3 DEF ThreadStepSettles
<1>4. CASE UNCHANGED vars
  BY <1>1, <1>4 DEF vars
<1>5. ASSUME NEW t \in Threads, WorkStart(t) PROVE unresumed'
  BY <1>1, <1>5 DEF WorkStart, observed, givenUp
<1>6. ASSUME NEW policy, NEW target, NEW recent, SwitchRequest(policy, target, recent) PROVE unresumed'
  BY <1>1, <1>6 DEF SwitchRequest, observed, givenUp
<1>7. CASE Cancel
  BY <1>1, <1>7 DEF Cancel, observed, givenUp
<1>8. CASE ShimStep
  BY <1>1, <1>8 DEF ShimStep, PrepareNext, RecoverNext, DrainPending, TxCall, TxNextThread, TxNoCredentials,
     FlushHeld, observed, givenUp
<1>9. CASE TimerStep
  BY <1>1, <1>2, <1>3, <1>9 DEF TimerStep, PrepareTimer, RecoverTimer, ThreadStepTimer, AccountStepTimer, GraceExpired,
     InterruptTimer, observed, givenUp
<1>10. ASSUME NEW t \in Threads, ReadInternalAnswer(t) PROVE unresumed'
  BY <1>1, <1>2, <1>3, <1>10 DEF ReadInternalAnswer
<1>11. ASSUME NEW t \in Threads, ReadStarted(t) \/ ReadEnded(t) \/ ReadStartAnswer(t) PROVE unresumed'
  BY <1>1, <1>11 DEF ReadStarted, ReadEnded, ReadStartAnswer, observed, givenUp
<1>12. CASE ReadStep
  BY <1>1, <1>10, <1>11, <1>12 DEF ReadStep, ReadAccountAnswer
<1>13. CASE ChildAccountCall \/ ManagerActivate
  BY <1>1, <1>13 DEF ChildAccountCall, ManagerActivate, observed, givenUp
<1>14. ASSUME NEW t \in Threads,
              ChildAnswer(t) \/ ChildFinish(t) \/ ChildGoalTurn(t) \/ ChildStart(t) \/ ChildGoalCall(t) \/ ChildInterrupt(t)
       PROVE  unresumed'
  BY <1>1, <1>14 DEF ChildAnswer, ChildFinish, ChildGoalTurn, ChildStart, ChildGoalCall, ChildInterrupt, observed, givenUp
<1> QED
  BY <1>4, <1>5, <1>6, <1>7, <1>8, <1>9, <1>12, <1>13, <1>14 DEF Next

LEMMA InitGoalInv ==
  ASSUME Init
  PROVE  GoalInv
<1>1. /\ toChild = [t \in Threads |-> <<>>] /\ pipe = [t \in Threads |-> <<>>] /\ goal \in InitGoals
      /\ req = NoRequest /\ prep = Idle /\ recQ = <<>> /\ rec = Idle /\ tx = NoTx
  BY DEF Init
<1>2. prep.at = "off" /\ rec.at = "off" /\ req.paused = {}
  BY <1>1 DEF Idle, NoRequest
<1>3. GoalShapes
  BY <1>1 DEF GoalShapes, Idle, NoTx, NoRequest
<1>4. ASSUME NEW t \in Threads PROVE PausesFit(t) /\ PauseIsKnown(t) /\ ResumedIsTrue(t)
  <2>1. Elems(toChild[t]) = {} /\ Elems(pipe[t]) = {}
    <3>1. toChild[t] = <<>> /\ pipe[t] = <<>> /\ DOMAIN <<>> = {}
      BY <1>1
    <3> QED
      BY <3>1 DEF Elems
  <2>2. goal[t] # "paused"
    BY <1>1, SwitchBarrierAssumption
  <2> QED
    BY <2>1, <2>2 DEF PausesFit, PauseIsKnown, ResumedIsTrue
<1>5. TalkFits
  BY <1>4 DEF TalkFits
<1>6. PrepApart /\ RecoveryFits /\ PausedIsResumed
  BY <1>1, <1>2 DEF PrepApart, RecoveryFits, PausedIsResumed
<1> QED
  BY <1>3, <1>5, <1>6 DEF GoalInv, GoalsHeld

LEMMA GoalStep ==
  ASSUME "pause" \notin Timeouts, ControlInv, WorkInv, GoalInv, [Next]_vars
  PROVE  GoalInv'
<1>1. GoalShapes /\ GoalShapes'
  BY ShapesStep DEF GoalInv
<1> SUFFICES ASSUME ~unresumed' PROVE GoalsHeld'
  BY <1>1 DEF GoalInv
<1>2. GoalsHeld
  BY UnresumedStays DEF GoalInv
<1>3. CASE UNCHANGED vars
  BY <1>2, <1>3, QuietGoals DEF vars, childVars, switchVars
<1>4. ASSUME NEW t \in Threads, WorkStart(t) PROVE GoalsHeld'
  BY <1>2, <1>4, WorkStartGoals
<1>5. ASSUME NEW policy, NEW target, NEW recent, SwitchRequest(policy, target, recent) PROVE GoalsHeld'
  BY <1>1, <1>2, <1>5, SwitchRequestGoals
<1>6. CASE Cancel
  BY <1>1, <1>2, <1>6, CancelGoals
<1>7. CASE ShimStep
  <2>1. ASSUME NEW t \in Threads, FlushHeld(t) PROVE GoalsHeld'
    BY <1>2, <2>1, WorkStartGoals
  <2>2. CASE PrepareNext \/ RecoverNext
    BY <1>1, <1>2, <2>2, PrepareNextGoals, RecoverNextGoals
  <2>3. CASE DrainPending \/ TxCall \/ TxNextThread \/ TxNoCredentials
    BY <1>1, <1>2, <2>3, DrainPendingGoals, TxCallGoals, TxNextThreadGoals
  <2> QED
    BY <1>7, <2>1, <2>2, <2>3 DEF ShimStep
<1>8. CASE TimerStep
  <2>1. ASSUME NEW t \in Threads, InterruptTimer(t) PROVE GoalsHeld'
    BY <1>1, <1>2, <2>1, InterruptTimerGoals
  <2>2. CASE PrepareTimer \/ RecoverTimer
    BY <1>1, <1>2, <2>2, PrepareTimerGoals, RecoverTimerGivesUp
  <2>3. CASE ThreadStepTimer \/ AccountStepTimer
    BY <1>1, <1>2, <2>3, ThreadStepTimerGoals, ReadAccountAnswerGoals
  <2>4. CASE GraceExpired
    BY <1>1, <1>2, <2>4, GraceExpiredGoals
  <2> QED
    BY <1>8, <2>1, <2>2, <2>3, <2>4 DEF TimerStep
<1>9. CASE ReadStep
  <2>1. CASE ReadAccountAnswer
    BY <1>1, <1>2, <2>1, ReadAccountAnswerGoals
  <2>2. ASSUME NEW t \in Threads, ReadStarted(t) \/ ReadEnded(t) \/ ReadStartAnswer(t) PROVE GoalsHeld'
    BY <1>1, <1>2, <2>2, ReadLineGoals
  <2>3. ASSUME NEW t \in Threads, ReadInternalAnswer(t) PROVE GoalsHeld'
    BY <1>1, <1>2, <2>3, ReadInternalAnswerGoals
  <2> QED
    BY <1>9, <2>1, <2>2, <2>3 DEF ReadStep
<1>10. CASE ChildAccountCall
  BY <1>2, <1>10, QuietGoals DEF ChildAccountCall, switchVars
<1>11. CASE ManagerActivate
  BY <1>2, <1>11, QuietGoals DEF ManagerActivate, childVars, switchVars
<1>12. ASSUME NEW t \in Threads,
              ChildAnswer(t) \/ ChildFinish(t) \/ ChildGoalTurn(t) \/ ChildStart(t) \/ ChildGoalCall(t) \/ ChildInterrupt(t)
       PROVE  GoalsHeld'
  BY <1>2, <1>12, AnswerGoals, FinishGoals, GoalTurnGoals, StartGoals, GoalCallGoals, InterruptGoals
<1> QED
  BY <1>3, <1>4, <1>5, <1>6, <1>7, <1>8, <1>9, <1>10, <1>11, <1>12 DEF Next

(* Once a switch and what follows it are over, and the shim has not said    *)
(* that it gave up on a Goal, no Goal is left paused, as long as the call   *)
(* that pauses a Goal and the start of a Continue turn are answered: the    *)
(* child may carry out a pause after its timer has fired, and then the shim *)
(* knows of no Goal to resume.                                              *)
THEOREM NoGoalStaysPaused ==
  ASSUME Timeouts \cap {"pause", "continue"} = {}
  PROVE  Spec => []NoGoalLeftPaused
<1>1. Init => WorkInv /\ HeldApart /\ GoalInv
  BY InitWork, InitGoalInv
<1>2. ControlInv /\ WorkInv /\ HeldApart /\ GoalInv /\ [Next]_vars => WorkInv' /\ HeldApart' /\ GoalInv'
  <2>1. "pause" \notin Timeouts /\ "continue" \notin Timeouts
    OBVIOUS
  <2> QED
    BY <2>1, WorkStep, HeldApartStep, GoalStep
<1>3. GoalInv => NoGoalLeftPaused
  <2> SUFFICES ASSUME GoalInv, Settled, ~unresumed, NEW t \in Threads, goal[t] = "paused" PROVE FALSE
    BY DEF NoGoalLeftPaused
  <2>1. prep.at = "off" /\ recQ = <<>> /\ tx.step = "off" /\ ~pending
    BY DEF Settled, Barrier
  <2>2. ~Resumable(t)
    BY <2>1 DEF Resumable, RecoveryComes, ResumeComes, AccountSteps
  <2>3. t \notin req.paused
    BY <2>2 DEF GoalInv, GoalsHeld, PausedIsResumed
  <2> QED
    BY <2>1, <2>3 DEF GoalInv, GoalsHeld, TalkFits, PauseIsKnown
<1> QED
  BY <1>1, <1>2, <1>3, ControlIsInvariant, PTL DEF Spec
=============================================================================
