------------------------ MODULE SessionQueue_proofs ------------------------
(* Theorems about SessionQueue, for any number of threads, requests, child  *)
(* turns and any queue limits.                                              *)
EXTENDS SessionQueue, FiniteSetTheorems, TLAPS

(* What the sequence operators of the handlers return.                      *)
LEMMA HeadTailType ==
  ASSUME NEW S, NEW s \in Seq(S), s # <<>>
  PROVE  Head(s) \in S /\ Tail(s) \in Seq(S)
OBVIOUS

LEMMA AppendType ==
  ASSUME NEW S, NEW s \in Seq(S), NEW e \in S
  PROVE  Append(s, e) \in Seq(S)
OBVIOUS

(* The drain of a thread's queue keeps the types of all it writes.          *)
LEMMA DrainType ==
  ASSUME TypeOK, NEW t \in Threads,
         NEW sub \in SUBSET Request, NEW act, NEW pend \in SUBSET Request,
         Drain(t, sub, act, pend)
  PROVE  /\ activeTurnId' \in [Threads -> Turns \cup {0}]
         /\ queue' \in [Threads -> Seq(Request)]
         /\ deferred' \in Seq(Request)
         /\ busy' \in [Threads -> BOOLEAN]
         /\ pendingStart' \in [Threads -> Ids \cup {0}]
         /\ pending' \in SUBSET Request
         /\ submitted' \in SUBSET Request
         /\ toChild' \in Seq(Request)
<1>1. activeTurnId' \in [Threads -> Turns \cup {0}]
  BY DEF Drain, TypeOK
<1>2. CASE DrainNone(t, sub, pend)
  BY <1>1, <1>2 DEF DrainNone, TypeOK
<1>3. CASE queue[t] # <<>>
  <2>1. Head(queue[t]) \in Request /\ Tail(queue[t]) \in Seq(Request)
    BY <1>3, HeadTailType DEF TypeOK
  <2>2. Head(queue[t]).id \in Ids
    BY <2>1 DEF Request
  <2>3. CASE DrainToDeferred(t, sub, pend)
    BY <1>1, <2>1, <2>3, AppendType DEF DrainToDeferred, TypeOK
  <2>4. CASE DrainToQueue(t, sub, act, pend)
    <3>1. Append(Tail(queue[t]), Head(queue[t])) \in Seq(Request)
      BY <2>1, AppendType
    <3>2. QED BY <1>1, <3>1, <2>4 DEF DrainToQueue, TypeOK
  <2>5. CASE DrainToChild(t, sub, act, pend)
    <3>1. Append(toChild, Head(queue[t])) \in Seq(Request)
      BY <2>1, AppendType DEF TypeOK
    <3>2. QED BY <1>1, <2>1, <2>2, <3>1, <2>5 DEF DrainToChild, TypeOK
  <2>6. QED BY <1>3, <2>3, <2>4, <2>5 DEF Drain, DrainNone
<1>4. QED BY <1>2, <1>3 DEF Drain, DrainToDeferred, DrainToQueue, DrainToChild

(* A line that the barrier lets through keeps the types of all it writes.   *)
LEMMA AdmitType ==
  ASSUME TypeOK, NEW r \in Request, Admit(r)
  PROVE  /\ queue' \in [Threads -> Seq(Request)]
         /\ busy' \in [Threads -> BOOLEAN]
         /\ activeTurnId' \in [Threads -> Turns \cup {0}]
         /\ pendingStart' \in [Threads -> Ids \cup {0}]
         /\ pending' \subseteq Request
         /\ fallbacks' \subseteq Request
         /\ submitted' \subseteq Request
         /\ activeTurns' \in [Threads -> Turns \cup {0}]
         /\ terminal' \subseteq Turns
         /\ toChild' \in Seq(Request)
         /\ answers' \in [Ids -> Nat]
<1> r.thread \in Threads /\ r.id \in Ids
  BY DEF Request
<1>1. Append(toChild, r) \in Seq(Request)
  BY AppendType DEF TypeOK
<1>2. Append(queue[r.thread], r) \in Seq(Request)
  BY AppendType DEF TypeOK
<1>3. CASE Enqueue(r)
  BY <1>2, <1>3 DEF Enqueue, Admit, TypeOK
<1>4. CASE RejectFull(r)
  BY <1>4 DEF RejectFull, Admit, TypeOK
<1>5. CASE ForwardStart(r)
  BY <1>1, <1>5 DEF ForwardStart, Admit, TypeOK
<1>6. CASE ForwardOther(r)
  BY <1>1, <1>6 DEF ForwardOther, Admit, TypeOK
<1>7. QED BY <1>3, <1>4, <1>5, <1>6 DEF Admit

(* The answer of a start keeps the types of the coordinator's tables.       *)
LEMMA SettleType ==
  ASSUME TypeOK, NEW r \in Request, NEW ok \in BOOLEAN, NEW pend \in SUBSET Request,
         SettleStart(r, ok, pend)
  PROVE  /\ activeTurnId' \in [Threads -> Turns \cup {0}]
         /\ queue' \in [Threads -> Seq(Request)]
         /\ deferred' \in Seq(Request)
         /\ busy' \in [Threads -> BOOLEAN]
         /\ pendingStart' \in [Threads -> Ids \cup {0}]
         /\ pending' \in SUBSET Request
         /\ submitted' \in SUBSET Request
         /\ toChild' \in Seq(Request)
<1>1. r.thread \in Threads /\ r.id \in Ids /\ r.id \in Turns
  BY SessionQueueAssumption DEF Request, Ids, Turns
<1>2. SubmittedAfter(r) \in SUBSET Request
  BY DEF SubmittedAfter, TypeOK
<1>3. CASE StillLive(r, ok)
  BY <1>1, <1>2, <1>3 DEF SettleStart, TypeOK
<1>4. CASE Drain(r.thread, SubmittedAfter(r), ActiveAfter(r, ok), pend)
  BY <1>1, <1>2, <1>4, DrainType
<1>5. QED BY <1>3, <1>4 DEF SettleStart

(* Reading an answer keeps every type.                                      *)
LEMMA ReadResponseType ==
  ASSUME TypeOK, NEW t \in Threads, ReadResponse(t)
  PROVE  TypeOK'
<1> DEFINE m == Head(fromChild[t])
           r == m.req
           ok == m.result = "ok"
<1>1. m \in Response \cup Notification /\ Tail(fromChild[t]) \in Seq(Response \cup Notification)
  BY HeadTailType DEF ReadResponse, TypeOK
<1>2. m.type = "response"
  BY DEF ReadResponse
<1>3. r \in Request
  BY <1>1, <1>2 DEF Response, Notification
<1>4. r.thread \in Threads /\ r.id \in Ids /\ r.id \in Turns
  BY <1>3, SessionQueueAssumption DEF Request, Ids, Turns
<1>5. fromChild' \in [Threads -> Seq(Response \cup Notification)]
  BY <1>1 DEF ReadResponse, TypeOK
<1>6. activeTurns' \in [Threads -> Turns \cup {0}]
  BY <1>4 DEF ReadResponse, ActiveAfter, TypeOK
<1>7. UNCHANGED <<nextId, terminal, barrier, owed, childTurn, goalTurns>>
  BY DEF ReadResponse, childVars
<1>8. CASE SteerToStart(r)
  <2>1. FallbackOf(r) \in Request
    BY <1>3 DEF FallbackOf, Request
  <2>2. /\ Append(deferred, FallbackOf(r)) \in Seq(Request)
        /\ Append(toChild, FallbackOf(r)) \in Seq(Request)
    BY <2>1, AppendType DEF TypeOK
  <2>3. QED BY <1>3, <1>4, <1>5, <1>6, <1>7, <1>8, <2>1, <2>2 DEF SteerToStart, TypeOK
<1> HIDE DEF m, r, ok
<1>9. ASSUME ReadFallbackAnswer(r, ok) \/ ReadStartAnswer(r, ok)
      PROVE  TypeOK'
  <2>1. ok \in BOOLEAN /\ pending \in SUBSET Request /\ pending \ {r} \in SUBSET Request
    BY DEF ok, TypeOK
  <2>2. PICK pend \in SUBSET Request : SettleStart(r, ok, pend)
    BY <1>9, <2>1 DEF ReadFallbackAnswer, ReadStartAnswer
  <2>3. /\ activeTurnId' \in [Threads -> Turns \cup {0}]
        /\ queue' \in [Threads -> Seq(Request)]
        /\ deferred' \in Seq(Request)
        /\ busy' \in [Threads -> BOOLEAN]
        /\ pendingStart' \in [Threads -> Ids \cup {0}]
        /\ pending' \in SUBSET Request
        /\ submitted' \in SUBSET Request
        /\ toChild' \in Seq(Request)
    BY <1>3, <2>1, <2>2, SettleType
  <2>4. fallbacks' \subseteq Request /\ answers' \in [Ids -> Nat]
    <3>1. answers' = [answers EXCEPT ![r.id] = @ + 1]
      BY <1>9 DEF ReadFallbackAnswer, ReadStartAnswer
    <3>2. fallbacks' \subseteq fallbacks
      BY <1>9 DEF ReadFallbackAnswer, ReadStartAnswer
    <3>3. QED BY <1>4, <3>1, <3>2 DEF TypeOK
  <2>5. QED BY <1>5, <1>6, <1>7, <2>3, <2>4 DEF TypeOK
<1>10. CASE ReadOtherAnswer(r)
  <2>1. answers' = [answers EXCEPT ![r.id] = @ + 1]
    BY <1>10 DEF ReadOtherAnswer
  <2>2. answers' \in [Ids -> Nat]
    BY <1>4, <2>1 DEF TypeOK
  <2>3. QED BY <1>5, <1>6, <1>7, <1>10, <2>2 DEF ReadOtherAnswer, SubmittedAfter, TypeOK
<1>11. QED BY <1>8, <1>9, <1>10 DEF ReadResponse, m, r, ok

(* Reading a notification keeps every type.                                 *)
LEMMA ReadNotificationType ==
  ASSUME TypeOK, NEW t \in Threads, ReadStarted(t) \/ ReadCompleted(t)
  PROVE  TypeOK'
<1> DEFINE m == Head(fromChild[t])
<1>1. m \in Response \cup Notification /\ Tail(fromChild[t]) \in Seq(Response \cup Notification)
  BY HeadTailType DEF ReadStarted, ReadCompleted, TypeOK
<1>2. m.turn \in Turns
  BY <1>1 DEF ReadStarted, ReadCompleted, Response, Notification
<1>3. CASE ReadStarted(t)
  BY <1>1, <1>2, <1>3 DEF ReadStarted, childVars, TypeOK
<1>4. CASE ReadCompleted(t)
  <2>1. ActiveAfterEnd(t, m.turn) \in [Threads -> Turns \cup {0}]
    BY DEF ActiveAfterEnd, TypeOK
  <2>2. CASE activeTurnId[t] \notin {0, m.turn}
    BY <1>1, <1>2, <1>4, <2>1, <2>2 DEF ReadCompleted, childVars, TypeOK
  <2>3. CASE activeTurnId[t] \in {0, m.turn}
    <3>1. Drain(t, submitted, ActiveAfterEnd(t, m.turn), pending)
      BY <1>4, <2>3 DEF ReadCompleted
    <3>2. pending \in SUBSET Request /\ submitted \in SUBSET Request
      BY DEF TypeOK
    <3> HIDE DEF m
    <3>3. QED BY <1>1, <1>2, <1>4, <2>1, <3>1, <3>2, DrainType
                DEF ReadCompleted, childVars, TypeOK, m
  <2>4. QED BY <2>2, <2>3
<1>5. QED BY <1>3, <1>4

(* A step of the child keeps every type.                                    *)
LEMMA ChildType ==
  ASSUME TypeOK,
         \/ ChildTake
         \/ \E a \in owed : ChildAnswer(a)
         \/ \E t \in Threads : ChildFinish(t) \/ ChildGoalTurn(t)
  PROVE  TypeOK'
<1> USE DEF queueVars, tableVars
<1>1. CASE ChildTake
  <2> DEFINE r == Head(toChild)
  <2>1. r \in Request /\ Tail(toChild) \in Seq(Request)
    BY <1>1, HeadTailType DEF ChildTake, ChildAccept, ChildRefuse, ChildSteer, TypeOK
  <2>2. r.thread \in Threads /\ r.id \in Turns
    BY <2>1, SessionQueueAssumption DEF Request, Ids, Turns
  <2>3. \A result \in {"ok", "error", "noActiveTurn"} : Answer(r, result) \in Response
    BY <2>1 DEF Answer, Response
  <2>4. [type |-> "started", turn |-> r.id] \in Response \cup Notification
    BY <2>2 DEF Notification
  <2>5. Append(fromChild[r.thread], [type |-> "started", turn |-> r.id])
          \in Seq(Response \cup Notification)
    BY <2>2, <2>4, AppendType DEF TypeOK
  <2>6. CASE ChildAccept
    BY <2>1, <2>2, <2>3, <2>5, <2>6 DEF ChildAccept, TypeOK
  <2>7. CASE ChildRefuse
    BY <2>1, <2>3, <2>7 DEF ChildRefuse, TypeOK
  <2>8. CASE ChildSteer
    BY <2>1, <2>3, <2>8 DEF ChildSteer, TypeOK
  <2>9. QED BY <1>1, <2>6, <2>7, <2>8 DEF ChildTake
<1>2. ASSUME NEW a \in owed, ChildAnswer(a)
      PROVE  TypeOK'
  <2>1. a \in Response /\ a.req.thread \in Threads
    BY DEF TypeOK, Response, Request
  <2>2. Append(fromChild[a.req.thread], a) \in Seq(Response \cup Notification)
    BY <2>1, AppendType DEF TypeOK
  <2>3. QED BY <1>2, <2>1, <2>2 DEF ChildAnswer, TypeOK
<1>3. ASSUME NEW t \in Threads, ChildFinish(t)
      PROVE  TypeOK'
  <2>1. [type |-> "completed", turn |-> childTurn[t]] \in Response \cup Notification
    BY <1>3 DEF ChildFinish, Notification, TypeOK
  <2>2. Append(fromChild[t], [type |-> "completed", turn |-> childTurn[t]])
          \in Seq(Response \cup Notification)
    BY <2>1, AppendType DEF TypeOK
  <2>3. QED BY <1>3, <2>2 DEF ChildFinish, TypeOK
<1>4. ASSUME NEW t \in Threads, ChildGoalTurn(t)
      PROVE  TypeOK'
  <2> DEFINE turn == MaxReq + goalTurns + 1
  <2>1. turn \in Turns /\ goalTurns + 1 \in 0..MaxGoalTurns
    BY <1>4, SessionQueueAssumption DEF ChildGoalTurn, Turns, TypeOK
  <2>2. [type |-> "started", turn |-> turn] \in Response \cup Notification
    BY <2>1 DEF Notification
  <2>3. Append(fromChild[t], [type |-> "started", turn |-> turn])
          \in Seq(Response \cup Notification)
    BY <2>2, AppendType DEF TypeOK
  <2>4. QED BY <1>4, <2>1, <2>3 DEF ChildGoalTurn, TypeOK
<1>5. QED BY <1>1, <1>2, <1>3, <1>4

(* No step takes a variable out of its type.                                *)
LEMMA TypeCorrectStep ==
  ASSUME TypeOK, [Next]_vars
  PROVE  TypeOK'
<1>1. ASSUME NEW t \in Threads, NEW k \in Kinds, ClientRequest(t, k)
      PROVE  TypeOK'
  <2> DEFINE r == [id |-> nextId, thread |-> t, kind |-> k]
  <2>1. r \in Request /\ nextId + 1 \in 1..(MaxReq + 1)
    BY <1>1, SessionQueueAssumption DEF ClientRequest, Request, Ids, TypeOK
  <2>2. CASE Blocked(r)
    <3>1. Append(deferred, r) \in Seq(Request)
      BY <2>1, AppendType DEF TypeOK
    <3>2. QED BY <1>1, <2>1, <2>2, <3>1
                DEF ClientRequest, queueVars, childVars, TypeOK
  <2>3. CASE ~Blocked(r)
    <3>1. Admit(r)
      BY <1>1, <2>3 DEF ClientRequest
    <3> HIDE DEF r
    <3>2. QED BY <1>1, <2>1, <2>3, <3>1, AdmitType
                DEF ClientRequest, childVars, TypeOK, r
  <2>4. QED BY <2>2, <2>3
<1>2. CASE FlushDeferred
  <2>1. Head(deferred) \in Request /\ Tail(deferred) \in Seq(Request)
    BY <1>2, HeadTailType DEF FlushDeferred, TypeOK
  <2>2. QED BY <1>2, <2>1, AdmitType DEF FlushDeferred, childVars, TypeOK
<1>3. CASE RaiseBarrier \/ LowerBarrier
  BY <1>3 DEF RaiseBarrier, LowerBarrier, queueVars, childVars, TypeOK
<1>4. CASE \E t \in Threads : Read(t)
  BY <1>4, ReadResponseType, ReadNotificationType DEF Read
<1>5. CASE UNCHANGED vars
  BY <1>5 DEF vars, queueVars, tableVars, childVars, TypeOK
<1>6. QED BY <1>1, <1>2, <1>3, <1>4, <1>5, ChildType DEF Next

(* Type correctness: whatever the interleaving of client, shim and child,   *)
(* every table of the queue keeps its type.                                 *)
THEOREM TypeCorrect == Spec => []TypeOK
<1>1. Init => TypeOK
  <2> SUFFICES ASSUME Init
               PROVE  TypeOK
    OBVIOUS
  <2>1. nextId \in 1..(MaxReq + 1) /\ goalTurns \in 0..MaxGoalTurns
    BY SessionQueueAssumption DEF Init
  <2>2. /\ queue \in [Threads -> Seq(Request)]
        /\ fromChild \in [Threads -> Seq(Response \cup Notification)]
        /\ deferred \in Seq(Request) /\ toChild \in Seq(Request)
    BY DEF Init
  <2>3. answers \in [Ids -> Nat]
    BY DEF Init
  <2>4. QED BY <2>1, <2>2, <2>3 DEF Init, TypeOK
<1>2. TypeOK /\ [Next]_vars => TypeOK'
  BY TypeCorrectStep
<1>3. QED BY <1>1, <1>2, PTL DEF Spec

-----------------------------------------------------------------------------
(* A line that is no work start adds no work to the child's stdin, and      *)
(* neither does taking a line out of it.                                    *)
LEMMA NoWorkAppended ==
  ASSUME TypeOK, NEW r \in Request, ~WorkStart(r), toChild' = Append(toChild, r)
  PROVE  WorkOnTheWay' \subseteq WorkOnTheWay
<1>1. toChild \in Seq(Request)
  BY DEF TypeOK
<1>2. \A n \in DOMAIN toChild' : toChild'[n] = r \/ \E k \in DOMAIN toChild : toChild'[n] = toChild[k]
  BY <1>1
<1> QED
  BY <1>2 DEF WorkOnTheWay, Range

LEMMA NoWorkTaken ==
  ASSUME TypeOK, toChild # <<>>, toChild' = Tail(toChild)
  PROVE  WorkOnTheWay' \subseteq WorkOnTheWay
<1>1. toChild \in Seq(Request)
  BY DEF TypeOK
<1>2. \A n \in DOMAIN toChild' : \E k \in DOMAIN toChild : toChild'[n] = toChild[k]
  <2> SUFFICES ASSUME NEW n \in DOMAIN toChild'
               PROVE  \E k \in DOMAIN toChild : toChild'[n] = toChild[k]
    OBVIOUS
  <2>1. n + 1 \in DOMAIN toChild /\ toChild'[n] = toChild[n + 1]
    BY <1>1
  <2> QED
    BY <2>1
<1> QED
  BY <1>2 DEF WorkOnTheWay, Range

(* A drain under the barrier leaves the child's stdin alone.                *)
LEMMA DrainHoldsWork ==
  ASSUME NEW t, NEW sub, NEW act, NEW pend, Drain(t, sub, act, pend), barrier
  PROVE  toChild' = toChild
BY DEF Drain, DrainNone, DrainToDeferred, DrainToQueue, DrainToChild

(* The barrier holds all work: from its rise to its fall no turn/start,     *)
(* review or fallback of a steer is written to the child, whether the       *)
(* client sends it, a deferred line or a queued start is due, or a steer    *)
(* fails.                                                                   *)
THEOREM BarrierHolds == Spec => BarrierHoldsWork
<1>1. TypeOK /\ [Next]_vars => [barrier => WorkOnTheWay' \subseteq WorkOnTheWay]_vars
  <2> SUFFICES ASSUME TypeOK, Next, barrier
               PROVE  WorkOnTheWay' \subseteq WorkOnTheWay
    OBVIOUS
  <2>1. ASSUME toChild' = toChild
        PROVE  WorkOnTheWay' \subseteq WorkOnTheWay
    BY <2>1 DEF WorkOnTheWay
  <2>2. ASSUME NEW t \in Threads, NEW k \in Kinds, ClientRequest(t, k)
        PROVE  WorkOnTheWay' \subseteq WorkOnTheWay
    <3> DEFINE r == [id |-> nextId, thread |-> t, kind |-> k]
    <3>1. CASE Blocked(r)
      BY <2>1, <2>2, <3>1 DEF ClientRequest
    <3>2. CASE ~Blocked(r)
      <4>1. r \in Request /\ ~WorkStart(r) /\ r.kind # "start"
        BY <2>2, <3>2, SessionQueueAssumption
        DEF ClientRequest, Blocked, WorkStart, Request, Ids, TypeOK
      <4>2. toChild' = Append(toChild, r)
        BY <2>2, <3>2, <4>1
        DEF ClientRequest, Admit, Enqueue, RejectFull, ForwardStart, ForwardOther
      <4> QED
        BY <4>1, <4>2, NoWorkAppended
    <3> QED
      BY <3>1, <3>2
  <2>3. ASSUME NEW t \in Threads, ReadResponse(t)
        PROVE  toChild' = toChild
    <3> DEFINE m == Head(fromChild[t])
               r == m.req
               ok == m.result = "ok"
    <3>1. CASE SteerToStart(r)
      BY <3>1 DEF SteerToStart
    <3>2. CASE ReadFallbackAnswer(r, ok) \/ ReadStartAnswer(r, ok)
      BY <3>2, DrainHoldsWork DEF ReadFallbackAnswer, ReadStartAnswer, SettleStart
    <3>3. CASE ReadOtherAnswer(r)
      BY <3>3 DEF ReadOtherAnswer
    <3> QED
      BY <2>3, <3>1, <3>2, <3>3 DEF ReadResponse
  <2>4. ASSUME NEW t \in Threads, ReadStarted(t) \/ ReadCompleted(t)
        PROVE  toChild' = toChild
    BY <2>4, DrainHoldsWork DEF ReadStarted, ReadCompleted
  <2>5. ASSUME ChildTake
        PROVE  WorkOnTheWay' \subseteq WorkOnTheWay
    BY <2>5, NoWorkTaken DEF ChildTake, ChildAccept, ChildRefuse, ChildSteer
  <2>6. ASSUME NEW a \in owed, ChildAnswer(a)
        PROVE  toChild' = toChild
    BY <2>6 DEF ChildAnswer
  <2>7. ASSUME NEW t \in Threads, ChildFinish(t) \/ ChildGoalTurn(t)
        PROVE  toChild' = toChild
    BY <2>7 DEF ChildFinish, ChildGoalTurn
  <2>8. ASSUME FlushDeferred \/ RaiseBarrier
        PROVE  FALSE
    BY <2>8 DEF FlushDeferred, RaiseBarrier
  <2>9. ASSUME LowerBarrier
        PROVE  toChild' = toChild
    BY <2>9 DEF LowerBarrier
  <2> QED
    BY <2>1, <2>2, <2>3, <2>4, <2>5, <2>6, <2>7, <2>8, <2>9 DEF Next, Read
<1> QED
  BY <1>1, TypeCorrect, PTL DEF Spec, BarrierHoldsWork

-----------------------------------------------------------------------------
(* Where each request is.                                                   *)

Held(s, i) == \E n \in 1..Len(s) : s[n].id = i
Once(s) == \A m, n \in 1..Len(s) : s[m].id = s[n].id => m = n
Told(s, i) == \E n \in 1..Len(s) : s[n].type = "response" /\ s[n].req.id = i
ToldOnce(s) ==
  \A m, n \in 1..Len(s) :
    s[m].type = "response" /\ s[n].type = "response" /\ s[m].req.id = s[n].req.id => m = n

InQueue(i) == \E t \in Threads : Held(queue[t], i)
InDeferred(i) == Held(deferred, i)
InStdin(i) == Held(toChild, i)
InOwed(i) == \E a \in owed : a.req.id = i
InPipe(i) == \E t \in Threads : Told(fromChild[t], i)

QueueOnce ==
  /\ \A t \in Threads : Once(queue[t])
  /\ \A t, u \in Threads, i \in Ids : Held(queue[t], i) /\ Held(queue[u], i) => t = u
DeferredOnce == Once(deferred)
StdinOnce == Once(toChild)
OwedOnce == \A a, b \in owed : a.req.id = b.req.id => a = b
PipeOnce ==
  /\ \A t \in Threads : ToldOnce(fromChild[t])
  /\ \A t, u \in Threads, i \in Ids : Told(fromChild[t], i) /\ Told(fromChild[u], i) => t = u
EachOnce == QueueOnce /\ DeferredOnce /\ StdinOnce /\ OwedOnce /\ PipeOnce

Nowhere(i) == ~InQueue(i) /\ ~InDeferred(i) /\ ~InStdin(i) /\ ~InOwed(i) /\ ~InPipe(i)
OnePlace(i) ==
  \/ answers[i] = 0 /\ InQueue(i) /\ ~InDeferred(i) /\ ~InStdin(i) /\ ~InOwed(i) /\ ~InPipe(i)
  \/ answers[i] = 0 /\ ~InQueue(i) /\ InDeferred(i) /\ ~InStdin(i) /\ ~InOwed(i) /\ ~InPipe(i)
  \/ answers[i] = 0 /\ ~InQueue(i) /\ ~InDeferred(i) /\ InStdin(i) /\ ~InOwed(i) /\ ~InPipe(i)
  \/ answers[i] = 0 /\ ~InQueue(i) /\ ~InDeferred(i) /\ ~InStdin(i) /\ InOwed(i) /\ ~InPipe(i)
  \/ answers[i] = 0 /\ ~InQueue(i) /\ ~InDeferred(i) /\ ~InStdin(i) /\ ~InOwed(i) /\ InPipe(i)
  \/ answers[i] = 1 /\ Nowhere(i)

PlacesInv ==
  /\ EachOnce
  /\ \A i \in Ids : IF i < nextId THEN OnePlace(i) ELSE Nowhere(i) /\ answers[i] = 0

(* A line put at the end of a queue, and one taken from its front.          *)
LEMMA HeldAppend ==
  ASSUME NEW s \in Seq(Request), NEW x \in Request
  PROVE  /\ \A i : Held(Append(s, x), i) <=> Held(s, i) \/ i = x.id
         /\ Once(s) /\ ~Held(s, x.id) => Once(Append(s, x))
<1>1. /\ Len(Append(s, x)) = Len(s) + 1 /\ Append(s, x)[Len(s) + 1] = x /\ Len(s) \in Nat
      /\ \A n \in 1..Len(s) : Append(s, x)[n] = s[n] /\ n \in 1..Len(s) + 1
      /\ \A n \in 1..Len(s) + 1 : n \in 1..Len(s) \/ n = Len(s) + 1
      /\ Len(s) + 1 \in 1..Len(s) + 1
  OBVIOUS
<1>2. \A i : Held(Append(s, x), i) <=> Held(s, i) \/ i = x.id
  BY <1>1 DEF Held
<1>3. ASSUME Once(s), ~Held(s, x.id)
      PROVE  Once(Append(s, x))
  BY <1>1, <1>3 DEF Once, Held
<1>4. QED
  BY <1>2, <1>3

LEMMA HeldTail ==
  ASSUME NEW s \in Seq(Request), s # <<>>, Once(s)
  PROVE  /\ Head(s) \in Request /\ Tail(s) \in Seq(Request)
         /\ Held(s, Head(s).id) /\ Once(Tail(s))
         /\ \A i : Held(Tail(s), i) <=> Held(s, i) /\ i # Head(s).id
<1>1. /\ Head(s) = s[1] /\ Head(s) \in Request /\ Tail(s) \in Seq(Request) /\ Len(s) \in Nat
      /\ 1 \in 1..Len(s) /\ Len(Tail(s)) = Len(s) - 1
      /\ \A n \in 1..Len(s) - 1 : Tail(s)[n] = s[n + 1] /\ n + 1 \in 1..Len(s) /\ n + 1 # 1
      /\ \A n \in 1..Len(s) : n = 1 \/ (n - 1 \in 1..Len(s) - 1 /\ Tail(s)[n - 1] = s[n])
  OBVIOUS
<1>2. Held(s, Head(s).id)
  BY <1>1 DEF Held
<1>3. Once(Tail(s))
  <2> SUFFICES ASSUME NEW m \in 1..Len(s) - 1, NEW n \in 1..Len(s) - 1, Tail(s)[m].id = Tail(s)[n].id
               PROVE  m = n
    BY <1>1 DEF Once
  <2>1. s[m + 1].id = s[n + 1].id /\ m + 1 \in 1..Len(s) /\ n + 1 \in 1..Len(s)
    BY <1>1
  <2>2. m + 1 = n + 1
    BY <2>1 DEF Once
  <2>3. QED
    BY <2>2
<1>4. ASSUME NEW i, Held(Tail(s), i)
      PROVE  Held(s, i) /\ i # Head(s).id
  <2>1. PICK n \in 1..Len(s) - 1 : Tail(s)[n].id = i
    BY <1>1, <1>4 DEF Held
  <2>2. s[n + 1].id = i /\ n + 1 \in 1..Len(s) /\ n + 1 # 1
    BY <1>1, <2>1
  <2>3. s[1].id # i
    BY <1>1, <2>2 DEF Once
  <2>4. QED
    BY <1>1, <2>2, <2>3 DEF Held
<1>5. ASSUME NEW i, Held(s, i), i # Head(s).id
      PROVE  Held(Tail(s), i)
  <2>1. PICK n \in 1..Len(s) : s[n].id = i
    BY <1>5 DEF Held
  <2>2. n - 1 \in 1..Len(s) - 1 /\ Tail(s)[n - 1].id = i
    BY <1>1, <1>5, <2>1
  <2>3. QED
    BY <1>1, <2>2 DEF Held
<1>6. QED
  BY <1>1, <1>2, <1>3, <1>4, <1>5

Messages == Response \cup Notification

LEMMA ToldAppend ==
  ASSUME NEW s \in Seq(Messages), NEW x \in Messages
  PROVE  /\ \A i : Told(Append(s, x), i) <=>
                     Told(s, i) \/ (x.type = "response" /\ i = x.req.id)
         /\ ToldOnce(s) /\ (x.type = "response" => ~Told(s, x.req.id)) => ToldOnce(Append(s, x))
<1>1. /\ Len(Append(s, x)) = Len(s) + 1 /\ Append(s, x)[Len(s) + 1] = x /\ Len(s) \in Nat
      /\ \A n \in 1..Len(s) : Append(s, x)[n] = s[n] /\ n \in 1..Len(s) + 1
      /\ \A n \in 1..Len(s) + 1 : n \in 1..Len(s) \/ n = Len(s) + 1
      /\ Len(s) + 1 \in 1..Len(s) + 1
  OBVIOUS
<1>2. \A i : Told(Append(s, x), i) <=> Told(s, i) \/ (x.type = "response" /\ i = x.req.id)
  BY <1>1 DEF Told
<1>3. ASSUME ToldOnce(s), x.type = "response" => ~Told(s, x.req.id)
      PROVE  ToldOnce(Append(s, x))
  BY <1>1, <1>3 DEF ToldOnce, Told
<1>4. QED
  BY <1>2, <1>3

LEMMA ToldTail ==
  ASSUME NEW s \in Seq(Messages), s # <<>>, ToldOnce(s)
  PROVE  /\ Head(s) \in Messages /\ Tail(s) \in Seq(Messages) /\ ToldOnce(Tail(s))
         /\ Head(s).type = "response" => Told(s, Head(s).req.id)
         /\ \A i : Told(Tail(s), i) <=>
                     Told(s, i) /\ ~(Head(s).type = "response" /\ i = Head(s).req.id)
<1>1. /\ Head(s) = s[1] /\ Head(s) \in Messages /\ Tail(s) \in Seq(Messages) /\ Len(s) \in Nat
      /\ 1 \in 1..Len(s) /\ Len(Tail(s)) = Len(s) - 1
      /\ \A n \in 1..Len(s) - 1 : Tail(s)[n] = s[n + 1] /\ n + 1 \in 1..Len(s) /\ n + 1 # 1
      /\ \A n \in 1..Len(s) : n = 1 \/ (n - 1 \in 1..Len(s) - 1 /\ Tail(s)[n - 1] = s[n])
  OBVIOUS
<1>2. Head(s).type = "response" => Told(s, Head(s).req.id)
  BY <1>1 DEF Told
<1>3. ToldOnce(Tail(s))
  <2> SUFFICES ASSUME NEW m \in 1..Len(s) - 1, NEW n \in 1..Len(s) - 1,
                      Tail(s)[m].type = "response", Tail(s)[n].type = "response",
                      Tail(s)[m].req.id = Tail(s)[n].req.id
               PROVE  m = n
    BY <1>1 DEF ToldOnce
  <2>1. /\ s[m + 1].type = "response" /\ s[n + 1].type = "response"
        /\ s[m + 1].req.id = s[n + 1].req.id /\ m + 1 \in 1..Len(s) /\ n + 1 \in 1..Len(s)
    BY <1>1
  <2>2. m + 1 = n + 1
    BY <2>1 DEF ToldOnce
  <2>3. QED
    BY <2>2
<1>4. ASSUME NEW i, Told(Tail(s), i)
      PROVE  Told(s, i) /\ ~(Head(s).type = "response" /\ i = Head(s).req.id)
  <2>1. PICK n \in 1..Len(s) - 1 : Tail(s)[n].type = "response" /\ Tail(s)[n].req.id = i
    BY <1>1, <1>4 DEF Told
  <2>2. s[n + 1].type = "response" /\ s[n + 1].req.id = i /\ n + 1 \in 1..Len(s) /\ n + 1 # 1
    BY <1>1, <2>1
  <2>3. ~(s[1].type = "response" /\ s[1].req.id = i)
    BY <1>1, <2>2 DEF ToldOnce
  <2>4. QED
    BY <1>1, <2>2, <2>3 DEF Told
<1>5. ASSUME NEW i, Told(s, i), ~(Head(s).type = "response" /\ i = Head(s).req.id)
      PROVE  Told(Tail(s), i)
  <2>1. PICK n \in 1..Len(s) : s[n].type = "response" /\ s[n].req.id = i
    BY <1>5 DEF Told
  <2>2. /\ n - 1 \in 1..Len(s) - 1
        /\ Tail(s)[n - 1].type = "response" /\ Tail(s)[n - 1].req.id = i
    BY <1>1, <1>5, <2>1
  <2>3. QED
    BY <1>1, <2>2 DEF Told
<1>6. QED
  BY <1>1, <1>2, <1>3, <1>4, <1>5

(* One table changes.                                                       *)
LEMMA QueueGains ==
  ASSUME TypeOK, QueueOnce, NEW t \in Threads, NEW r \in Request, ~InQueue(r.id),
         queue' = [queue EXCEPT ![t] = Append(queue[t], r)]
  PROVE  QueueOnce' /\ \A i \in Ids : InQueue(i)' <=> InQueue(i) \/ i = r.id
<1>1. \A u \in Threads : queue[u] \in Seq(Request)
  BY DEF TypeOK
<1>2. \A u \in Threads : queue'[u] = IF u = t THEN Append(queue[t], r) ELSE queue[u]
  BY DEF TypeOK
<1>3. ~Held(queue[t], r.id) /\ \A u \in Threads : ~Held(queue[u], r.id)
  BY DEF InQueue
<1>4. Once(queue'[t]) /\ \A i : Held(queue'[t], i) <=> Held(queue[t], i) \/ i = r.id
  BY <1>1, <1>2, <1>3, HeldAppend DEF QueueOnce
<1>5. QueueOnce'
  BY <1>2, <1>3, <1>4 DEF QueueOnce
<1>6. \A i \in Ids : InQueue(i)' <=> InQueue(i) \/ i = r.id
  BY <1>2, <1>4 DEF InQueue
<1>7. QED
  BY <1>5, <1>6

LEMMA QueueLoses ==
  ASSUME TypeOK, QueueOnce, NEW t \in Threads, queue[t] # <<>>,
         queue' = [queue EXCEPT ![t] = Tail(queue[t])]
  PROVE  /\ Head(queue[t]) \in Request /\ InQueue(Head(queue[t]).id) /\ QueueOnce'
         /\ \A i \in Ids : InQueue(i)' <=> InQueue(i) /\ i # Head(queue[t]).id
<1> DEFINE r == Head(queue[t])
<1>1. queue[t] \in Seq(Request) /\ Once(queue[t])
  BY DEF TypeOK, QueueOnce
<1>2. \A u \in Threads : queue'[u] = IF u = t THEN Tail(queue[t]) ELSE queue[u]
  BY DEF TypeOK
<1>3. /\ r \in Request /\ Held(queue[t], r.id) /\ Once(queue'[t])
      /\ \A i : Held(queue'[t], i) <=> Held(queue[t], i) /\ i # r.id
  BY <1>1, <1>2, HeldTail
<1>4. r.id \in Ids
  BY <1>3 DEF Request
<1>5. QueueOnce'
  BY <1>2, <1>3 DEF QueueOnce
<1>6. \A u \in Threads : u # t => ~Held(queue[u], r.id)
  BY <1>3, <1>4 DEF QueueOnce
<1>7. \A i \in Ids : InQueue(i)' <=> InQueue(i) /\ i # r.id
  BY <1>2, <1>3, <1>6 DEF InQueue
<1>8. QED
  BY <1>3, <1>5, <1>7 DEF InQueue

LEMMA QueueTurns ==
  ASSUME TypeOK, QueueOnce, NEW t \in Threads, queue[t] # <<>>,
         queue' = [queue EXCEPT ![t] = Append(Tail(queue[t]), Head(queue[t]))]
  PROVE  QueueOnce' /\ \A i \in Ids : InQueue(i)' <=> InQueue(i)
<1> DEFINE r == Head(queue[t])
           s == Tail(queue[t])
<1>1. queue[t] \in Seq(Request) /\ Once(queue[t])
  BY DEF TypeOK, QueueOnce
<1>2. \A u \in Threads : queue'[u] = IF u = t THEN Append(s, r) ELSE queue[u]
  BY DEF TypeOK
<1>3. /\ r \in Request /\ s \in Seq(Request) /\ Held(queue[t], r.id) /\ Once(s)
      /\ \A i : Held(s, i) <=> Held(queue[t], i) /\ i # r.id
  BY <1>1, HeldTail
<1> HIDE DEF r, s
<1>4. Once(queue'[t]) /\ \A i : Held(queue'[t], i) <=> Held(queue[t], i)
  BY <1>2, <1>3, HeldAppend
<1>5. QueueOnce' /\ \A i \in Ids : InQueue(i)' <=> InQueue(i)
  BY <1>2, <1>4 DEF QueueOnce, InQueue
<1>6. QED
  BY <1>5

LEMMA PipeGains ==
  ASSUME TypeOK, PipeOnce, NEW t \in Threads, NEW x \in Messages,
         x.type = "response" => ~InPipe(x.req.id),
         fromChild' = [fromChild EXCEPT ![t] = Append(fromChild[t], x)]
  PROVE  /\ PipeOnce'
         /\ \A i \in Ids : InPipe(i)' <=> InPipe(i) \/ (x.type = "response" /\ i = x.req.id)
<1>1. \A u \in Threads : fromChild[u] \in Seq(Messages)
  BY DEF TypeOK, Messages
<1>2. \A u \in Threads : fromChild'[u] = IF u = t THEN Append(fromChild[t], x) ELSE fromChild[u]
  BY DEF TypeOK
<1>3. x.type = "response" => \A u \in Threads : ~Told(fromChild[u], x.req.id)
  BY DEF InPipe
<1>4. /\ ToldOnce(fromChild'[t])
      /\ \A i : Told(fromChild'[t], i) <=>
                  Told(fromChild[t], i) \/ (x.type = "response" /\ i = x.req.id)
  BY <1>1, <1>2, <1>3, ToldAppend DEF PipeOnce
<1>5. PipeOnce'
  BY <1>2, <1>3, <1>4 DEF PipeOnce
<1>6. \A i \in Ids : InPipe(i)' <=> InPipe(i) \/ (x.type = "response" /\ i = x.req.id)
  BY <1>2, <1>4 DEF InPipe
<1>7. QED
  BY <1>5, <1>6

LEMMA PipeLoses ==
  ASSUME TypeOK, PipeOnce, NEW t \in Threads, fromChild[t] # <<>>,
         fromChild' = [fromChild EXCEPT ![t] = Tail(fromChild[t])]
  PROVE  /\ Head(fromChild[t]) \in Messages /\ PipeOnce'
         /\ Head(fromChild[t]).type = "response" => InPipe(Head(fromChild[t]).req.id)
         /\ \A i \in Ids : InPipe(i)' <=>
              InPipe(i) /\ ~(Head(fromChild[t]).type = "response" /\ i = Head(fromChild[t]).req.id)
<1> DEFINE m == Head(fromChild[t])
<1>1. fromChild[t] \in Seq(Messages) /\ ToldOnce(fromChild[t])
  BY DEF TypeOK, Messages, PipeOnce
<1>2. \A u \in Threads : fromChild'[u] = IF u = t THEN Tail(fromChild[t]) ELSE fromChild[u]
  BY DEF TypeOK
<1>3. /\ m \in Messages /\ ToldOnce(fromChild'[t])
      /\ m.type = "response" => Told(fromChild[t], m.req.id)
      /\ \A i : Told(fromChild'[t], i) <=>
                  Told(fromChild[t], i) /\ ~(m.type = "response" /\ i = m.req.id)
  BY <1>1, <1>2, ToldTail
<1>4. m.type = "response" => m.req.id \in Ids
  BY <1>3 DEF Messages, Response, Notification, Request
<1>5. PipeOnce'
  BY <1>2, <1>3 DEF PipeOnce
<1>6. m.type = "response" => \A u \in Threads : u # t => ~Told(fromChild[u], m.req.id)
  BY <1>3, <1>4 DEF PipeOnce
<1>7. \A i \in Ids : InPipe(i)' <=> InPipe(i) /\ ~(m.type = "response" /\ i = m.req.id)
  BY <1>2, <1>3, <1>6 DEF InPipe
<1>8. QED
  BY <1>3, <1>5, <1>7 DEF InPipe

LEMMA DeferredGains ==
  ASSUME TypeOK, DeferredOnce, NEW r \in Request, ~InDeferred(r.id), deferred' = Append(deferred, r)
  PROVE  DeferredOnce' /\ \A i \in Ids : InDeferred(i)' <=> InDeferred(i) \/ i = r.id
BY HeldAppend DEF TypeOK, DeferredOnce, InDeferred

LEMMA StdinGains ==
  ASSUME TypeOK, StdinOnce, NEW r \in Request, ~InStdin(r.id), toChild' = Append(toChild, r)
  PROVE  StdinOnce' /\ \A i \in Ids : InStdin(i)' <=> InStdin(i) \/ i = r.id
BY HeldAppend DEF TypeOK, StdinOnce, InStdin

LEMMA DeferredLoses ==
  ASSUME TypeOK, DeferredOnce, deferred # <<>>, deferred' = Tail(deferred)
  PROVE  /\ Head(deferred) \in Request /\ InDeferred(Head(deferred).id) /\ DeferredOnce'
         /\ \A i \in Ids : InDeferred(i)' <=> InDeferred(i) /\ i # Head(deferred).id
BY HeldTail DEF TypeOK, DeferredOnce, InDeferred

LEMMA StdinLoses ==
  ASSUME TypeOK, StdinOnce, toChild # <<>>, toChild' = Tail(toChild)
  PROVE  /\ Head(toChild) \in Request /\ InStdin(Head(toChild).id) /\ StdinOnce'
         /\ \A i \in Ids : InStdin(i)' <=> InStdin(i) /\ i # Head(toChild).id
BY HeldTail DEF TypeOK, StdinOnce, InStdin

LEMMA OwedGains ==
  ASSUME OwedOnce, NEW a, ~InOwed(a.req.id), owed' = owed \cup {a}
  PROVE  OwedOnce' /\ \A i \in Ids : InOwed(i)' <=> InOwed(i) \/ i = a.req.id
BY DEF OwedOnce, InOwed

LEMMA OwedLoses ==
  ASSUME OwedOnce, NEW a \in owed, owed' = owed \ {a}
  PROVE  /\ OwedOnce' /\ InOwed(a.req.id)
         /\ \A i \in Ids : InOwed(i)' <=> InOwed(i) /\ i # a.req.id
BY DEF OwedOnce, InOwed

(* A step that touches neither a table nor a pipe leaves it as it was.      *)
LEMMA PlacesKept ==
  /\ UNCHANGED queue /\ QueueOnce => QueueOnce' /\ \A i \in Ids : InQueue(i)' <=> InQueue(i)
  /\ UNCHANGED deferred /\ DeferredOnce =>
       DeferredOnce' /\ \A i \in Ids : InDeferred(i)' <=> InDeferred(i)
  /\ UNCHANGED toChild /\ StdinOnce => StdinOnce' /\ \A i \in Ids : InStdin(i)' <=> InStdin(i)
  /\ UNCHANGED owed /\ OwedOnce => OwedOnce' /\ \A i \in Ids : InOwed(i)' <=> InOwed(i)
  /\ UNCHANGED fromChild /\ PipeOnce => PipeOnce' /\ \A i \in Ids : InPipe(i)' <=> InPipe(i)
<1>1. UNCHANGED queue /\ QueueOnce => QueueOnce' /\ \A i \in Ids : InQueue(i)' <=> InQueue(i)
  BY DEF QueueOnce, InQueue
<1>2. UNCHANGED deferred /\ DeferredOnce =>
        DeferredOnce' /\ \A i \in Ids : InDeferred(i)' <=> InDeferred(i)
  BY DEF DeferredOnce, InDeferred
<1>3. UNCHANGED toChild /\ StdinOnce => StdinOnce' /\ \A i \in Ids : InStdin(i)' <=> InStdin(i)
  BY DEF StdinOnce, InStdin
<1>4. UNCHANGED owed /\ OwedOnce => OwedOnce' /\ \A i \in Ids : InOwed(i)' <=> InOwed(i)
  BY DEF OwedOnce, InOwed
<1>5. UNCHANGED fromChild /\ PipeOnce => PipeOnce' /\ \A i \in Ids : InPipe(i)' <=> InPipe(i)
  BY DEF PipeOnce, InPipe
<1>6. QED
  BY <1>1, <1>2, <1>3, <1>4, <1>5

(* A line that the barrier lets through is queued, refused, or written to   *)
(* the child, and no other request moves.                                   *)
LEMMA AdmitMoves ==
  ASSUME TypeOK, QueueOnce, StdinOnce, NEW r \in Request, Admit(r),
         ~InQueue(r.id), ~InStdin(r.id), answers[r.id] = 0
  PROVE  /\ QueueOnce' /\ StdinOnce'
         /\ \A i \in Ids : i # r.id =>
              (InQueue(i)' <=> InQueue(i)) /\ (InStdin(i)' <=> InStdin(i)) /\ answers'[i] = answers[i]
         /\ \A i \in Ids : i = r.id =>
              \/ InQueue(i)' /\ ~InStdin(i)' /\ answers'[i] = 0
              \/ ~InQueue(i)' /\ InStdin(i)' /\ answers'[i] = 0
              \/ ~InQueue(i)' /\ ~InStdin(i)' /\ answers'[i] = 1
<1>1. r.thread \in Threads /\ r.id \in Ids
  BY DEF Request
<1>2. CASE Enqueue(r)
  <2>1. QueueOnce' /\ \A i \in Ids : InQueue(i)' <=> InQueue(i) \/ i = r.id
    BY <1>1, <1>2, QueueGains DEF Enqueue
  <2>2. StdinOnce' /\ (\A i \in Ids : InStdin(i)' <=> InStdin(i)) /\ answers' = answers
    BY <1>2, PlacesKept DEF Enqueue
  <2>3. QED
    BY <2>1, <2>2
<1>3. CASE RejectFull(r)
  <2>1. /\ QueueOnce' /\ (\A i \in Ids : InQueue(i)' <=> InQueue(i))
        /\ StdinOnce' /\ (\A i \in Ids : InStdin(i)' <=> InStdin(i))
    BY <1>3, PlacesKept DEF RejectFull
  <2>2. \A i \in Ids : answers'[i] = IF i = r.id THEN 1 ELSE answers[i]
    BY <1>1, <1>3 DEF RejectFull, TypeOK
  <2>3. QED
    BY <2>1, <2>2
<1>4. CASE ForwardStart(r) \/ ForwardOther(r)
  <2>1. StdinOnce' /\ \A i \in Ids : InStdin(i)' <=> InStdin(i) \/ i = r.id
    BY <1>4, StdinGains DEF ForwardStart, ForwardOther
  <2>2. QueueOnce' /\ (\A i \in Ids : InQueue(i)' <=> InQueue(i)) /\ answers' = answers
    BY <1>4, PlacesKept DEF ForwardStart, ForwardOther
  <2>3. QED
    BY <2>1, <2>2
<1>5. QED
  BY <1>2, <1>3, <1>4 DEF Admit

(* A drain moves at most the oldest start of its thread, to the barrier's   *)
(* lines or to the child.                                                   *)
LEMMA DrainMoves ==
  ASSUME TypeOK, QueueOnce, DeferredOnce, StdinOnce,
         NEW t \in Threads, NEW sub, NEW act, NEW pend, Drain(t, sub, act, pend),
         \A i \in Ids : InQueue(i) => ~InDeferred(i) /\ ~InStdin(i)
  PROVE  /\ QueueOnce' /\ DeferredOnce' /\ StdinOnce'
         /\ \A i \in Ids :
              \/ /\ InQueue(i)' <=> InQueue(i)
                 /\ InDeferred(i)' <=> InDeferred(i)
                 /\ InStdin(i)' <=> InStdin(i)
              \/ /\ InQueue(i) /\ ~InQueue(i)'
                 /\ (InDeferred(i)' /\ ~InStdin(i)') \/ (~InDeferred(i)' /\ InStdin(i)')
<1>1. CASE DrainNone(t, sub, pend)
  BY <1>1, PlacesKept DEF DrainNone
<1>2. CASE DrainToDeferred(t, sub, pend)
  <2>1. PICK r : r = Head(queue[t])
    OBVIOUS
  <2>2. /\ r \in Request /\ InQueue(r.id) /\ QueueOnce'
        /\ \A i \in Ids : InQueue(i)' <=> InQueue(i) /\ i # r.id
    BY <1>2, <2>1, QueueLoses DEF DrainToDeferred
  <2>3. r.id \in Ids /\ ~InDeferred(r.id) /\ ~InStdin(r.id)
    BY <2>2 DEF Request
  <2>4. DeferredOnce' /\ \A i \in Ids : InDeferred(i)' <=> InDeferred(i) \/ i = r.id
    BY <1>2, <2>1, <2>2, <2>3, DeferredGains DEF DrainToDeferred
  <2>5. StdinOnce' /\ \A i \in Ids : InStdin(i)' <=> InStdin(i)
    BY <1>2, PlacesKept DEF DrainToDeferred
  <2>6. QED
    BY <2>2, <2>3, <2>4, <2>5
<1>3. CASE DrainToQueue(t, sub, act, pend)
  <2>1. QueueOnce' /\ \A i \in Ids : InQueue(i)' <=> InQueue(i)
    BY <1>3, QueueTurns DEF DrainToQueue
  <2>2. QED
    BY <1>3, <2>1, PlacesKept DEF DrainToQueue
<1>4. CASE DrainToChild(t, sub, act, pend)
  <2>1. PICK r : r = Head(queue[t])
    OBVIOUS
  <2>2. /\ r \in Request /\ InQueue(r.id) /\ QueueOnce'
        /\ \A i \in Ids : InQueue(i)' <=> InQueue(i) /\ i # r.id
    BY <1>4, <2>1, QueueLoses DEF DrainToChild
  <2>3. r.id \in Ids /\ ~InDeferred(r.id) /\ ~InStdin(r.id)
    BY <2>2 DEF Request
  <2>4. StdinOnce' /\ \A i \in Ids : InStdin(i)' <=> InStdin(i) \/ i = r.id
    BY <1>4, <2>1, <2>2, <2>3, StdinGains DEF DrainToChild
  <2>5. DeferredOnce' /\ \A i \in Ids : InDeferred(i)' <=> InDeferred(i)
    BY <1>4, PlacesKept DEF DrainToChild
  <2>6. QED
    BY <2>2, <2>3, <2>4, <2>5
<1>5. QED
  BY <1>1, <1>2, <1>3, <1>4 DEF Drain

(* What a drain or an unchanged queue says of a request in one place.       *)
Shifted ==
  /\ QueueOnce' /\ DeferredOnce' /\ StdinOnce'
  /\ \A i \in Ids :
       \/ /\ InQueue(i)' <=> InQueue(i)
          /\ InDeferred(i)' <=> InDeferred(i)
          /\ InStdin(i)' <=> InStdin(i)
       \/ /\ InQueue(i) /\ ~InQueue(i)'
          /\ (InDeferred(i)' /\ ~InStdin(i)') \/ (~InDeferred(i)' /\ InStdin(i)')

LEMMA OnePlaceApart ==
  ASSUME PlacesInv
  PROVE  \A i \in Ids : /\ InQueue(i) => ~InDeferred(i) /\ ~InStdin(i)
                        /\ InPipe(i) => /\ i < nextId /\ answers[i] = 0 /\ ~InQueue(i)
                                        /\ ~InDeferred(i) /\ ~InStdin(i) /\ ~InOwed(i)
BY DEF PlacesInv, OnePlace, Nowhere

LEMMA KeptShifts ==
  ASSUME PlacesInv, UNCHANGED <<queue, deferred, toChild>>
  PROVE  Shifted
BY PlacesKept DEF PlacesInv, EachOnce, Shifted

LEMMA DrainShifts ==
  ASSUME TypeOK, PlacesInv, NEW t \in Threads, NEW sub, NEW act, NEW pend,
         Drain(t, sub, act, pend)
  PROVE  Shifted
BY DrainMoves, OnePlaceApart DEF PlacesInv, EachOnce, Shifted

(* A step that shifts a start and changes nothing else of the journey.      *)
LEMMA ShiftKeepsPlaces ==
  ASSUME TypeOK, PlacesInv, Shifted, UNCHANGED <<nextId, owed, answers>>, PipeOnce',
         \A i \in Ids : InPipe(i)' <=> InPipe(i)
  PROVE  PlacesInv'
<1>1. OwedOnce' /\ \A i \in Ids : InOwed(i)' <=> InOwed(i)
  BY PlacesKept DEF PlacesInv, EachOnce
<1>2. EachOnce'
  BY <1>1 DEF Shifted, EachOnce
<1>3. ASSUME NEW i \in Ids
      PROVE  (IF i < nextId THEN OnePlace(i) ELSE Nowhere(i) /\ answers[i] = 0)'
  <2>1. IF i < nextId THEN OnePlace(i) ELSE Nowhere(i) /\ answers[i] = 0
    BY DEF PlacesInv
  <2>2. \/ /\ InQueue(i)' <=> InQueue(i)
           /\ InDeferred(i)' <=> InDeferred(i)
           /\ InStdin(i)' <=> InStdin(i)
        \/ /\ InQueue(i) /\ ~InQueue(i)'
           /\ (InDeferred(i)' /\ ~InStdin(i)') \/ (~InDeferred(i)' /\ InStdin(i)')
    BY DEF Shifted
  <2>3. (InPipe(i)' <=> InPipe(i)) /\ (InOwed(i)' <=> InOwed(i)) /\ answers'[i] = answers[i]
    BY <1>1
  <2>4. QED
    BY <2>1, <2>2, <2>3 DEF OnePlace, Nowhere
<1>4. QED
  BY <1>2, <1>3 DEF PlacesInv

(* A notification carries no answer.                                        *)
LEMMA NotificationPlaces ==
  ASSUME TypeOK, PlacesInv, NEW t \in Threads, ReadStarted(t) \/ ReadCompleted(t)
  PROVE  PlacesInv'
<1>1. PipeOnce' /\ \A i \in Ids : InPipe(i)' <=> InPipe(i)
  <2>1. PICK m : m = Head(fromChild[t])
    OBVIOUS
  <2>2. m.type # "response"
    BY <2>1 DEF ReadStarted, ReadCompleted
  <2>3. QED
    BY <2>1, <2>2, PipeLoses DEF PlacesInv, EachOnce, ReadStarted, ReadCompleted
<1>2. Shifted /\ UNCHANGED <<nextId, owed, answers>>
  <2>1. CASE ReadStarted(t)
    BY <2>1, KeptShifts DEF ReadStarted, childVars
  <2>2. CASE ReadCompleted(t)
    BY <2>2, KeptShifts, DrainShifts DEF ReadCompleted, childVars
  <2>3. QED
    BY <2>1, <2>2
<1>3. QED
  BY <1>1, <1>2, ShiftKeepsPlaces

(* An answer that is read is the only one of its request: it is passed on,  *)
(* or its steer goes to the child once more as a start.                     *)
LEMMA ResponsePlaces ==
  ASSUME TypeOK, PlacesInv, NEW t \in Threads, ReadResponse(t)
  PROVE  PlacesInv'
<1>1. PICK m : m = Head(fromChild[t])
  OBVIOUS
<1>2. /\ m \in Messages /\ PipeOnce' /\ m.type = "response" /\ InPipe(m.req.id)
      /\ \A i \in Ids : InPipe(i)' <=> InPipe(i) /\ i # m.req.id
  BY <1>1, PipeLoses DEF PlacesInv, EachOnce, ReadResponse
<1>3. PICK r \in Request : r = m.req
  BY <1>2 DEF Messages, Response, Notification
<1>4. r.id \in Ids
  BY DEF Request
<1>5. /\ r.id < nextId /\ answers[r.id] = 0 /\ ~InQueue(r.id)
      /\ ~InDeferred(r.id) /\ ~InStdin(r.id) /\ ~InOwed(r.id)
  BY <1>2, <1>3, <1>4, OnePlaceApart
<1>6. UNCHANGED <<nextId, owed>>
  BY DEF ReadResponse, childVars
<1>7. OwedOnce' /\ \A i \in Ids : InOwed(i)' <=> InOwed(i)
  BY <1>6, PlacesKept DEF PlacesInv, EachOnce
<1>8. CASE SteerToStart(r)
  <2>1. PICK fb \in Request : fb = FallbackOf(r)
    BY DEF FallbackOf, Request
  <2>2. fb.id = r.id
    BY <2>1 DEF FallbackOf, Request
  <2>3. QueueOnce' /\ \A i \in Ids : InQueue(i)' <=> InQueue(i)
    BY <1>8, PlacesKept DEF PlacesInv, EachOnce, SteerToStart
  <2>4. answers' = answers
    BY <1>8 DEF SteerToStart
  <2>5. CASE deferred' = Append(deferred, fb) /\ toChild' = toChild
    <3>1. DeferredOnce' /\ \A i \in Ids : InDeferred(i)' <=> InDeferred(i) \/ i = r.id
      BY <1>5, <2>2, <2>5, DeferredGains DEF PlacesInv, EachOnce
    <3>2. StdinOnce' /\ \A i \in Ids : InStdin(i)' <=> InStdin(i)
      BY <2>5, PlacesKept DEF PlacesInv, EachOnce
    <3>3. EachOnce'
      BY <1>2, <1>7, <2>3, <3>1, <3>2 DEF EachOnce
    <3>4. QED
      BY <1>2, <1>3, <1>5, <1>6, <1>7, <2>3, <2>4, <3>1, <3>2, <3>3
         DEF PlacesInv, OnePlace, Nowhere
  <2>6. CASE toChild' = Append(toChild, fb) /\ deferred' = deferred
    <3>1. StdinOnce' /\ \A i \in Ids : InStdin(i)' <=> InStdin(i) \/ i = r.id
      BY <1>5, <2>2, <2>6, StdinGains DEF PlacesInv, EachOnce
    <3>2. DeferredOnce' /\ \A i \in Ids : InDeferred(i)' <=> InDeferred(i)
      BY <2>6, PlacesKept DEF PlacesInv, EachOnce
    <3>3. EachOnce'
      BY <1>2, <1>7, <2>3, <3>1, <3>2 DEF EachOnce
    <3>4. QED
      BY <1>2, <1>3, <1>5, <1>6, <1>7, <2>3, <2>4, <3>1, <3>2, <3>3
         DEF PlacesInv, OnePlace, Nowhere
  <2>7. QED
    BY <1>8, <2>1, <2>5, <2>6 DEF SteerToStart
<1>9. ASSUME NEW ok, ReadFallbackAnswer(r, ok) \/ ReadStartAnswer(r, ok) \/ ReadOtherAnswer(r)
      PROVE  PlacesInv'
  <2>1. \A i \in Ids : answers'[i] = IF i = r.id THEN 1 ELSE answers[i]
    BY <1>4, <1>5, <1>9 DEF ReadFallbackAnswer, ReadStartAnswer, ReadOtherAnswer, TypeOK
  <2>2. Shifted
    <3>1. r.thread \in Threads
      BY DEF Request
    <3>2. CASE ReadOtherAnswer(r)
      BY <3>2, KeptShifts DEF ReadOtherAnswer
    <3>3. CASE ReadFallbackAnswer(r, ok) \/ ReadStartAnswer(r, ok)
      BY <3>1, <3>3, KeptShifts, DrainShifts DEF ReadFallbackAnswer, ReadStartAnswer, SettleStart
    <3>4. QED
      BY <1>9, <3>2, <3>3
  <2>3. EachOnce'
    BY <1>2, <1>7, <2>2 DEF EachOnce, Shifted
  <2>4. ASSUME NEW i \in Ids
        PROVE  (IF i < nextId THEN OnePlace(i) ELSE Nowhere(i) /\ answers[i] = 0)'
    <3>1. IF i < nextId THEN OnePlace(i) ELSE Nowhere(i) /\ answers[i] = 0
      BY DEF PlacesInv
    <3>2. \/ /\ InQueue(i)' <=> InQueue(i)
             /\ InDeferred(i)' <=> InDeferred(i)
             /\ InStdin(i)' <=> InStdin(i)
          \/ /\ InQueue(i) /\ ~InQueue(i)'
             /\ (InDeferred(i)' /\ ~InStdin(i)') \/ (~InDeferred(i)' /\ InStdin(i)')
      BY <2>2 DEF Shifted
    <3>3. /\ InOwed(i)' <=> InOwed(i)
          /\ InPipe(i)' <=> InPipe(i) /\ i # r.id
          /\ answers'[i] = IF i = r.id THEN 1 ELSE answers[i]
          /\ nextId' = nextId
      BY <1>2, <1>3, <1>6, <1>7, <2>1
    <3>4. CASE i = r.id
      BY <1>5, <1>6, <3>2, <3>3, <3>4 DEF OnePlace, Nowhere
    <3>5. CASE i # r.id
      BY <3>1, <3>2, <3>3, <3>5 DEF OnePlace, Nowhere
    <3>6. QED
      BY <3>4, <3>5
  <2>5. QED
    BY <2>3, <2>4 DEF PlacesInv
<1>10. QED
  BY <1>1, <1>3, <1>8, <1>9 DEF ReadResponse

(* The client's next request, which was nowhere, gets one place.            *)
LEMMA RequestPlaces ==
  ASSUME TypeOK, PlacesInv, NEW t \in Threads, NEW k \in Kinds, ClientRequest(t, k)
  PROVE  PlacesInv'
<1>1. PICK r : r = [id |-> nextId, thread |-> t, kind |-> k]
  OBVIOUS
<1>2. r \in Request /\ r.id = nextId /\ r.id \in Ids
  BY <1>1, SessionQueueAssumption DEF ClientRequest, Request, Ids, TypeOK
<1>3. Nowhere(r.id) /\ answers[r.id] = 0
  BY <1>2 DEF PlacesInv, Ids
<1>4. /\ OwedOnce' /\ \A i \in Ids : InOwed(i)' <=> InOwed(i)
      /\ PipeOnce' /\ \A i \in Ids : InPipe(i)' <=> InPipe(i)
  BY PlacesKept DEF PlacesInv, EachOnce, ClientRequest, childVars
<1>5. nextId' = r.id + 1 /\ \A i \in Ids : i < nextId' <=> i < nextId \/ i = r.id
  BY <1>2 DEF ClientRequest, Ids
<1>6. CASE Blocked(r)
  <2>1. deferred' = Append(deferred, r) /\ UNCHANGED <<queue, toChild, answers>>
    BY <1>1, <1>6 DEF ClientRequest, queueVars
  <2>2. DeferredOnce' /\ \A i \in Ids : InDeferred(i)' <=> InDeferred(i) \/ i = r.id
    BY <1>2, <1>3, <2>1, DeferredGains DEF PlacesInv, EachOnce, Nowhere
  <2>3. /\ QueueOnce' /\ \A i \in Ids : InQueue(i)' <=> InQueue(i)
        /\ StdinOnce' /\ \A i \in Ids : InStdin(i)' <=> InStdin(i)
    BY <2>1, PlacesKept DEF PlacesInv, EachOnce
  <2>4. EachOnce'
    BY <1>4, <2>2, <2>3 DEF EachOnce
  <2>5. QED
    BY <1>2, <1>3, <1>4, <1>5, <2>1, <2>2, <2>3, <2>4 DEF PlacesInv, OnePlace, Nowhere
<1>7. CASE ~Blocked(r)
  <2>1. Admit(r) /\ UNCHANGED deferred
    BY <1>1, <1>7 DEF ClientRequest
  <2>2. /\ QueueOnce' /\ StdinOnce'
        /\ \A i \in Ids : i # r.id =>
             (InQueue(i)' <=> InQueue(i)) /\ (InStdin(i)' <=> InStdin(i)) /\ answers'[i] = answers[i]
        /\ \A i \in Ids : i = r.id =>
             \/ InQueue(i)' /\ ~InStdin(i)' /\ answers'[i] = 0
             \/ ~InQueue(i)' /\ InStdin(i)' /\ answers'[i] = 0
             \/ ~InQueue(i)' /\ ~InStdin(i)' /\ answers'[i] = 1
    BY <1>2, <1>3, <2>1, AdmitMoves DEF PlacesInv, EachOnce, Nowhere
  <2>3. DeferredOnce' /\ \A i \in Ids : InDeferred(i)' <=> InDeferred(i)
    BY <2>1, PlacesKept DEF PlacesInv, EachOnce
  <2>4. EachOnce'
    BY <1>4, <2>2, <2>3 DEF EachOnce
  <2>5. ASSUME NEW i \in Ids
        PROVE  (IF i < nextId THEN OnePlace(i) ELSE Nowhere(i) /\ answers[i] = 0)'
    <3>1. CASE i = r.id
      BY <1>3, <1>4, <1>5, <2>2, <2>3, <3>1 DEF OnePlace, Nowhere
    <3>2. CASE i # r.id
      BY <1>4, <1>5, <2>2, <2>3, <3>2 DEF PlacesInv, OnePlace, Nowhere
    <3>3. QED
      BY <3>1, <3>2
  <2>6. QED
    BY <2>4, <2>5 DEF PlacesInv
<1>8. QED
  BY <1>6, <1>7

(* A deferred line leaves the barrier's lines for one other place.          *)
LEMMA FlushPlaces ==
  ASSUME TypeOK, PlacesInv, FlushDeferred
  PROVE  PlacesInv'
<1>1. PICK r : r = Head(deferred)
  OBVIOUS
<1>2. /\ r \in Request /\ InDeferred(r.id) /\ DeferredOnce'
      /\ \A i \in Ids : InDeferred(i)' <=> InDeferred(i) /\ i # r.id
  BY <1>1, DeferredLoses DEF PlacesInv, EachOnce, FlushDeferred
<1>3. r.id \in Ids
  BY <1>2 DEF Request
<1>4. /\ r.id < nextId /\ answers[r.id] = 0
      /\ ~InQueue(r.id) /\ ~InStdin(r.id) /\ ~InOwed(r.id) /\ ~InPipe(r.id)
  BY <1>2, <1>3 DEF PlacesInv, OnePlace, Nowhere
<1>5. /\ OwedOnce' /\ \A i \in Ids : InOwed(i)' <=> InOwed(i)
      /\ PipeOnce' /\ \A i \in Ids : InPipe(i)' <=> InPipe(i)
      /\ nextId' = nextId
  BY PlacesKept DEF PlacesInv, EachOnce, FlushDeferred, childVars
<1>6. /\ QueueOnce' /\ StdinOnce'
      /\ \A i \in Ids : i # r.id =>
           (InQueue(i)' <=> InQueue(i)) /\ (InStdin(i)' <=> InStdin(i)) /\ answers'[i] = answers[i]
      /\ \A i \in Ids : i = r.id =>
           \/ InQueue(i)' /\ ~InStdin(i)' /\ answers'[i] = 0
           \/ ~InQueue(i)' /\ InStdin(i)' /\ answers'[i] = 0
           \/ ~InQueue(i)' /\ ~InStdin(i)' /\ answers'[i] = 1
  BY <1>1, <1>2, <1>4, AdmitMoves DEF PlacesInv, EachOnce, FlushDeferred
<1>7. EachOnce'
  BY <1>2, <1>5, <1>6 DEF EachOnce
<1>8. ASSUME NEW i \in Ids
      PROVE  (IF i < nextId THEN OnePlace(i) ELSE Nowhere(i) /\ answers[i] = 0)'
  <2>1. CASE i = r.id
    BY <1>2, <1>4, <1>5, <1>6, <2>1 DEF OnePlace, Nowhere
  <2>2. CASE i # r.id
    BY <1>2, <1>5, <1>6, <2>2 DEF PlacesInv, OnePlace, Nowhere
  <2>3. QED
    BY <2>1, <2>2
<1>9. QED
  BY <1>7, <1>8 DEF PlacesInv

(* The child takes a request from its stdin and then owes its answer.       *)
LEMMA ChildTakePlaces ==
  ASSUME TypeOK, PlacesInv, ChildTake
  PROVE  PlacesInv'
<1>1. PICK r : r = Head(toChild)
  OBVIOUS
<1>2. toChild # <<>> /\ toChild' = Tail(toChild)
  BY DEF ChildTake, ChildAccept, ChildRefuse, ChildSteer
<1>3. /\ r \in Request /\ InStdin(r.id) /\ StdinOnce'
      /\ \A i \in Ids : InStdin(i)' <=> InStdin(i) /\ i # r.id
  BY <1>1, <1>2, StdinLoses DEF PlacesInv, EachOnce
<1>4. r.id \in Ids /\ r.thread \in Threads
  BY <1>3 DEF Request
<1>5. /\ r.id < nextId /\ answers[r.id] = 0
      /\ ~InQueue(r.id) /\ ~InDeferred(r.id) /\ ~InOwed(r.id) /\ ~InPipe(r.id)
  BY <1>3, <1>4 DEF PlacesInv, OnePlace, Nowhere
<1>6. PICK result : owed' = owed \cup {Answer(r, result)}
  BY <1>1 DEF ChildTake, ChildAccept, ChildRefuse, ChildSteer
<1>7. OwedOnce' /\ \A i \in Ids : InOwed(i)' <=> InOwed(i) \/ i = r.id
  <2>1. PICK a : a = Answer(r, result)
    OBVIOUS
  <2>2. a.req.id = r.id
    BY <2>1 DEF Answer
  <2>3. QED
    BY <1>5, <1>6, <2>1, <2>2, OwedGains DEF PlacesInv, EachOnce
<1>8. PipeOnce' /\ \A i \in Ids : InPipe(i)' <=> InPipe(i)
  <2>1. CASE ChildAccept
    <3>1. PICK x : x = [type |-> "started", turn |-> r.id]
      OBVIOUS
    <3>2. x \in Messages /\ x.type # "response"
      BY <1>4, <3>1, SessionQueueAssumption DEF Messages, Notification, Turns, Ids
    <3>3. QED
      BY <1>1, <1>4, <2>1, <3>1, <3>2, PipeGains DEF PlacesInv, EachOnce, ChildAccept
  <2>2. CASE ChildRefuse \/ ChildSteer
    BY <2>2, PlacesKept DEF PlacesInv, EachOnce, ChildRefuse, ChildSteer
  <2>3. QED
    BY <2>1, <2>2 DEF ChildTake
<1>9. UNCHANGED <<queue, deferred, answers, nextId>>
  BY DEF ChildTake, ChildAccept, ChildRefuse, ChildSteer, queueVars, tableVars
<1>10. /\ QueueOnce' /\ \A i \in Ids : InQueue(i)' <=> InQueue(i)
       /\ DeferredOnce' /\ \A i \in Ids : InDeferred(i)' <=> InDeferred(i)
  BY <1>9, PlacesKept DEF PlacesInv, EachOnce
<1>11. EachOnce'
  BY <1>3, <1>7, <1>8, <1>10 DEF EachOnce
<1>12. ASSUME NEW i \in Ids
       PROVE  (IF i < nextId THEN OnePlace(i) ELSE Nowhere(i) /\ answers[i] = 0)'
  <2>1. CASE i = r.id
    BY <1>3, <1>5, <1>7, <1>8, <1>9, <1>10, <2>1 DEF OnePlace, Nowhere
  <2>2. CASE i # r.id
    BY <1>3, <1>7, <1>8, <1>9, <1>10, <2>2 DEF PlacesInv, OnePlace, Nowhere
  <2>3. QED
    BY <2>1, <2>2
<1>13. QED
  BY <1>11, <1>12 DEF PlacesInv

(* The child writes an answer it owes.                                      *)
LEMMA ChildAnswerPlaces ==
  ASSUME TypeOK, PlacesInv, NEW a \in owed, ChildAnswer(a)
  PROVE  PlacesInv'
<1>1. /\ a \in Messages /\ a.type = "response" /\ a.req.id \in Ids /\ a.req.thread \in Threads
  BY DEF TypeOK, Messages, Response, Request
<1>2. /\ OwedOnce' /\ InOwed(a.req.id) /\ \A i \in Ids : InOwed(i)' <=> InOwed(i) /\ i # a.req.id
  BY OwedLoses DEF PlacesInv, EachOnce, ChildAnswer
<1>3. /\ a.req.id < nextId /\ answers[a.req.id] = 0 /\ ~InQueue(a.req.id)
      /\ ~InDeferred(a.req.id) /\ ~InStdin(a.req.id) /\ ~InPipe(a.req.id)
  BY <1>1, <1>2 DEF PlacesInv, OnePlace, Nowhere
<1>4. PipeOnce' /\ \A i \in Ids : InPipe(i)' <=> InPipe(i) \/ i = a.req.id
  BY <1>1, <1>3, PipeGains DEF PlacesInv, EachOnce, ChildAnswer
<1>5. UNCHANGED <<queue, deferred, toChild, answers, nextId>>
  BY DEF ChildAnswer, queueVars, tableVars
<1>6. /\ QueueOnce' /\ \A i \in Ids : InQueue(i)' <=> InQueue(i)
      /\ DeferredOnce' /\ \A i \in Ids : InDeferred(i)' <=> InDeferred(i)
      /\ StdinOnce' /\ \A i \in Ids : InStdin(i)' <=> InStdin(i)
  BY <1>5, PlacesKept DEF PlacesInv, EachOnce
<1>7. EachOnce'
  BY <1>2, <1>4, <1>6 DEF EachOnce
<1>8. ASSUME NEW i \in Ids
      PROVE  (IF i < nextId THEN OnePlace(i) ELSE Nowhere(i) /\ answers[i] = 0)'
  <2>1. CASE i = a.req.id
    BY <1>2, <1>3, <1>4, <1>5, <1>6, <2>1 DEF OnePlace, Nowhere
  <2>2. CASE i # a.req.id
    BY <1>2, <1>4, <1>5, <1>6, <2>2 DEF PlacesInv, OnePlace, Nowhere
  <2>3. QED
    BY <2>1, <2>2
<1>9. QED
  BY <1>7, <1>8 DEF PlacesInv

(* The turns of the child move no request, and neither does the barrier.    *)
LEMMA OtherPlaces ==
  ASSUME TypeOK, PlacesInv,
         \/ \E t \in Threads : ChildFinish(t) \/ ChildGoalTurn(t)
         \/ RaiseBarrier \/ LowerBarrier \/ UNCHANGED vars
  PROVE  PlacesInv'
<1>1. UNCHANGED <<queue, deferred, toChild, nextId, owed, answers>>
  BY DEF ChildFinish, ChildGoalTurn, RaiseBarrier, LowerBarrier, queueVars, tableVars, childVars, vars
<1>2. PipeOnce' /\ \A i \in Ids : InPipe(i)' <=> InPipe(i)
  <2>1. ASSUME NEW t \in Threads, ChildFinish(t) \/ ChildGoalTurn(t)
        PROVE  PipeOnce' /\ \A i \in Ids : InPipe(i)' <=> InPipe(i)
    <3>1. PICK x \in Notification : fromChild' = [fromChild EXCEPT ![t] = Append(fromChild[t], x)]
      <4>1. CASE ChildFinish(t)
        <5>1. [type |-> "completed", turn |-> childTurn[t]] \in Notification
          BY <4>1 DEF ChildFinish, Notification, TypeOK
        <5>2. QED
          BY <4>1, <5>1 DEF ChildFinish
      <4>2. CASE ChildGoalTurn(t)
        <5>1. [type |-> "started", turn |-> MaxReq + goalTurns + 1] \in Notification
          BY <4>2, SessionQueueAssumption DEF ChildGoalTurn, Notification, Turns, TypeOK
        <5>2. QED
          BY <4>2, <5>1 DEF ChildGoalTurn
      <4>3. QED
        BY <2>1, <4>1, <4>2
    <3>2. x \in Messages /\ x.type # "response"
      BY DEF Messages, Notification
    <3>3. QED
      BY <3>1, <3>2, PipeGains DEF PlacesInv, EachOnce
  <2>2. CASE RaiseBarrier \/ LowerBarrier \/ UNCHANGED vars
    BY <2>2, PlacesKept DEF PlacesInv, EachOnce, RaiseBarrier, LowerBarrier, vars
  <2>3. QED
    BY <2>1, <2>2
<1>3. QED
  BY <1>1, <1>2, KeptShifts, ShiftKeepsPlaces

(* The places of Places, one table at a time.                               *)
QueueAt(i) ==
  UNION {{<<"queue", t, n>> : n \in {m \in DOMAIN queue[t] : queue[t][m].id = i}} : t \in Threads}
DeferredAt(i) == {<<"deferred", n>> : n \in {m \in DOMAIN deferred : deferred[m].id = i}}
StdinAt(i) == {<<"toChild", n>> : n \in {m \in DOMAIN toChild : toChild[m].id = i}}
OwedAt(i) == {<<"owed", a>> : a \in {b \in owed : b.req.id = i}}
PipeAt(i) ==
  UNION {{<<"fromChild", t, n>> : n \in
    {m \in DOMAIN fromChild[t] : fromChild[t][m].type = "response"
                                 /\ fromChild[t][m].req.id = i}} : t \in Threads}

LEMMA PlacesAreThese ==
  ASSUME NEW i
  PROVE  Places(i) = QueueAt(i) \cup DeferredAt(i) \cup StdinAt(i) \cup OwedAt(i) \cup PipeAt(i)
<1>1. Places(i) = UNION {QueueAt(i), DeferredAt(i), StdinAt(i), OwedAt(i), PipeAt(i)}
  BY DEF Places, QueueAt, DeferredAt, StdinAt, OwedAt, PipeAt
<1> QED
  BY <1>1

(* A table that holds a request at all holds it at one place.               *)
LEMMA AtOnePlace ==
  ASSUME TypeOK, EachOnce, NEW i \in Ids
  PROVE  /\ IF InQueue(i) THEN \E p : QueueAt(i) = {p} ELSE QueueAt(i) = {}
         /\ IF InDeferred(i) THEN \E p : DeferredAt(i) = {p} ELSE DeferredAt(i) = {}
         /\ IF InStdin(i) THEN \E p : StdinAt(i) = {p} ELSE StdinAt(i) = {}
         /\ IF InOwed(i) THEN \E p : OwedAt(i) = {p} ELSE OwedAt(i) = {}
         /\ IF InPipe(i) THEN \E p : PipeAt(i) = {p} ELSE PipeAt(i) = {}
<1>1. /\ \A t \in Threads : DOMAIN queue[t] = 1..Len(queue[t])
      /\ DOMAIN deferred = 1..Len(deferred) /\ DOMAIN toChild = 1..Len(toChild)
      /\ \A t \in Threads : DOMAIN fromChild[t] = 1..Len(fromChild[t])
  BY DEF TypeOK
<1>2. IF InQueue(i) THEN \E p : QueueAt(i) = {p} ELSE QueueAt(i) = {}
  <2>1. CASE InQueue(i)
    <3>1. PICK t \in Threads : Held(queue[t], i)
      BY <2>1 DEF InQueue
    <3>2. PICK n \in 1..Len(queue[t]) : queue[t][n].id = i
      BY <3>1 DEF Held
    <3>3. \A u \in Threads : \A m \in DOMAIN queue[u] : queue[u][m].id = i <=> u = t /\ m = n
      <4> SUFFICES ASSUME NEW u \in Threads, NEW m \in DOMAIN queue[u], queue[u][m].id = i
                   PROVE  u = t /\ m = n
        BY <3>2
      <4>1. u = t
        BY <1>1, <3>1 DEF EachOnce, QueueOnce, Held
      <4>2. QED
        BY <1>1, <3>2, <4>1 DEF EachOnce, QueueOnce, Once
    <3>4. QueueAt(i) = {<<"queue", t, n>>}
      BY <1>1, <3>2, <3>3 DEF QueueAt
    <3>5. QED
      BY <2>1, <3>4
  <2>2. CASE ~InQueue(i)
    BY <1>1, <2>2 DEF QueueAt, InQueue, Held
  <2>3. QED
    BY <2>1, <2>2
<1>3. IF InDeferred(i) THEN \E p : DeferredAt(i) = {p} ELSE DeferredAt(i) = {}
  <2>1. CASE InDeferred(i)
    <3>1. PICK n \in 1..Len(deferred) : deferred[n].id = i
      BY <2>1 DEF InDeferred, Held
    <3>2. \A m \in DOMAIN deferred : deferred[m].id = i <=> m = n
      BY <1>1, <3>1 DEF EachOnce, DeferredOnce, Once
    <3>3. DeferredAt(i) = {<<"deferred", n>>}
      BY <1>1, <3>1, <3>2 DEF DeferredAt
    <3>4. QED
      BY <2>1, <3>3
  <2>2. CASE ~InDeferred(i)
    BY <1>1, <2>2 DEF DeferredAt, InDeferred, Held
  <2>3. QED
    BY <2>1, <2>2
<1>4. IF InStdin(i) THEN \E p : StdinAt(i) = {p} ELSE StdinAt(i) = {}
  <2>1. CASE InStdin(i)
    <3>1. PICK n \in 1..Len(toChild) : toChild[n].id = i
      BY <2>1 DEF InStdin, Held
    <3>2. \A m \in DOMAIN toChild : toChild[m].id = i <=> m = n
      BY <1>1, <3>1 DEF EachOnce, StdinOnce, Once
    <3>3. StdinAt(i) = {<<"toChild", n>>}
      BY <1>1, <3>1, <3>2 DEF StdinAt
    <3>4. QED
      BY <2>1, <3>3
  <2>2. CASE ~InStdin(i)
    BY <1>1, <2>2 DEF StdinAt, InStdin, Held
  <2>3. QED
    BY <2>1, <2>2
<1>5. IF InOwed(i) THEN \E p : OwedAt(i) = {p} ELSE OwedAt(i) = {}
  <2>1. CASE InOwed(i)
    <3>1. PICK a \in owed : a.req.id = i
      BY <2>1 DEF InOwed
    <3>2. OwedAt(i) = {<<"owed", a>>}
      BY <3>1 DEF OwedAt, EachOnce, OwedOnce
    <3>3. QED
      BY <2>1, <3>2
  <2>2. CASE ~InOwed(i)
    BY <2>2 DEF OwedAt, InOwed
  <2>3. QED
    BY <2>1, <2>2
<1>6. IF InPipe(i) THEN \E p : PipeAt(i) = {p} ELSE PipeAt(i) = {}
  <2>1. CASE InPipe(i)
    <3>1. PICK t \in Threads : Told(fromChild[t], i)
      BY <2>1 DEF InPipe
    <3>2. PICK n \in 1..Len(fromChild[t]) :
            fromChild[t][n].type = "response" /\ fromChild[t][n].req.id = i
      BY <3>1 DEF Told
    <3>3. \A u \in Threads : \A m \in DOMAIN fromChild[u] :
            fromChild[u][m].type = "response" /\ fromChild[u][m].req.id = i <=> u = t /\ m = n
      <4> SUFFICES ASSUME NEW u \in Threads, NEW m \in DOMAIN fromChild[u],
                          fromChild[u][m].type = "response", fromChild[u][m].req.id = i
                   PROVE  u = t /\ m = n
        BY <3>2
      <4>1. u = t
        BY <1>1, <3>1 DEF EachOnce, PipeOnce, Told
      <4>2. QED
        BY <1>1, <3>2, <4>1 DEF EachOnce, PipeOnce, ToldOnce
    <3>4. PipeAt(i) = {<<"fromChild", t, n>>}
      BY <1>1, <3>2, <3>3 DEF PipeAt
    <3>5. QED
      BY <2>1, <3>4
  <2>2. CASE ~InPipe(i)
    BY <1>1, <2>2 DEF PipeAt, InPipe, Told
  <2>3. QED
    BY <2>1, <2>2
<1>7. QED
  BY <1>2, <1>3, <1>4, <1>5, <1>6

(* What a request in one place says in terms of Places.                     *)
LEMMA PlacesAreCounted ==
  ASSUME TypeOK, PlacesInv
  PROVE  EachRequestInOnePlace
<1> SUFFICES ASSUME NEW i \in 1..(nextId - 1)
             PROVE  Cardinality(Places(i)) + answers[i] = 1
  BY DEF EachRequestInOnePlace
<1>1. i \in Ids /\ i < nextId
  BY SessionQueueAssumption DEF TypeOK, Ids
<1>2. OnePlace(i)
  BY <1>1 DEF PlacesInv
<1>3. CASE answers[i] = 1 /\ Nowhere(i)
  <2>1. Places(i) = {}
    BY <1>1, <1>3, PlacesAreThese, AtOnePlace DEF PlacesInv, Nowhere
  <2>2. QED
    BY <1>3, <2>1, FS_EmptySet
<1>4. CASE answers[i] = 0 /\ ~Nowhere(i)
  <2>1. \E p : Places(i) = {p}
    BY <1>1, <1>2, <1>4, PlacesAreThese, AtOnePlace DEF PlacesInv, OnePlace, Nowhere
  <2>2. Cardinality(Places(i)) = 1
    BY <2>1, FS_Singleton
  <2>3. QED
    BY <1>4, <2>2
<1>5. QED
  BY <1>2, <1>3, <1>4 DEF OnePlace, Nowhere

LEMMA PlacesInit ==
  ASSUME Init
  PROVE  PlacesInv
<1>1. \A i : Nowhere(i)
  BY DEF Init, Nowhere, InQueue, InDeferred, InStdin, InOwed, InPipe, Held, Told
<1>2. EachOnce
  BY DEF Init, EachOnce, QueueOnce, DeferredOnce, StdinOnce, OwedOnce, PipeOnce,
         Once, ToldOnce, Held, Told
<1>3. \A i \in Ids : ~(i < nextId) /\ answers[i] = 0
  BY SessionQueueAssumption DEF Init, Ids
<1>4. QED
  BY <1>1, <1>2, <1>3 DEF PlacesInv

LEMMA PlacesStep ==
  ASSUME TypeOK, PlacesInv, [Next]_vars
  PROVE  PlacesInv'
BY RequestPlaces, FlushPlaces, ResponsePlaces, NotificationPlaces, ChildTakePlaces,
   ChildAnswerPlaces, OtherPlaces DEF Next, Read

(* Each request of the client is in exactly one place from the moment it is *)
(* sent until it is answered, and is answered once: the queue, the barrier  *)
(* and the rescue of a steer neither lose nor repeat one.                   *)
THEOREM OnePlaceEach == Spec => []EachRequestInOnePlace
<1>1. Init => PlacesInv
  BY PlacesInit
<1>2. TypeOK /\ PlacesInv /\ [Next]_vars => PlacesInv'
  BY PlacesStep
<1>3. TypeOK /\ PlacesInv => EachRequestInOnePlace
  BY PlacesAreCounted
<1>4. QED
  BY <1>1, <1>2, <1>3, TypeCorrect, PTL DEF Spec

-----------------------------------------------------------------------------
(* How many starts are queued.                                              *)

LimitsInv == IsFiniteSet(Slots(queue)) /\ QueueWithinLimits

LEMMA SlotsHold ==
  ASSUME NEW q, NEW p
  PROVE  p \in Slots(q) <=> \E t \in Threads : \E n \in 1..Len(q[t]) : p = <<t, n>>
BY DEF Slots

(* An enqueued start takes one free slot.                                   *)
LEMMA EnqueueWithinLimits ==
  ASSUME TypeOK, LimitsInv, NEW t \in Threads, NEW r \in Request, HasRoom(t),
         queue' = [queue EXCEPT ![t] = Append(queue[t], r)]
  PROVE  LimitsInv'
<1> DEFINE p == <<t, Len(queue[t]) + 1>>
<1>1. /\ \A u \in Threads : queue[u] \in Seq(Request)
      /\ \A u \in Threads : Len(queue[u]) \in Nat
  BY DEF TypeOK
<1>2. \A u \in Threads : queue'[u] = IF u = t THEN Append(queue[t], r) ELSE queue[u]
  BY DEF TypeOK
<1>3. \A u \in Threads : Len(queue'[u]) = IF u = t THEN Len(queue[t]) + 1 ELSE Len(queue[u])
  <2>1. queue[t] \in Seq(Request)
    BY <1>1
  <2>2. Len(Append(queue[t], r)) = Len(queue[t]) + 1
    BY <2>1
  <2>3. \A u \in Threads : u # t => Len(queue'[u]) = Len(queue[u])
    BY <1>2
  <2>4. Len(queue'[t]) = Len(queue[t]) + 1
    BY <1>2, <2>2
  <2>5. QED
    BY <2>3, <2>4
<1>4. /\ \A n : n \in 1..(Len(queue[t]) + 1) <=> n \in 1..Len(queue[t]) \/ n = Len(queue[t]) + 1
      /\ Len(queue[t]) + 1 \notin 1..Len(queue[t])
  BY <1>1
<1>5. Slots(queue') = Slots(queue) \cup {p}
  <2>1. \A x : x \in Slots(queue') <=> x \in Slots(queue) \/ x = p
    <3>1. ASSUME NEW x \in Slots(queue')
          PROVE  x \in Slots(queue) \/ x = p
      <4>1. PICK u \in Threads : \E n \in 1..Len(queue'[u]) : x = <<u, n>>
        BY <3>1 DEF Slots
      <4>2. PICK n \in 1..Len(queue'[u]) : x = <<u, n>>
        BY <4>1
      <4>3. n \in 1..Len(queue[u]) \/ (u = t /\ n = Len(queue[t]) + 1)
        BY <1>3, <1>4
      <4>4. QED
        BY <4>2, <4>3, SlotsHold
    <3>2. ASSUME NEW x \in Slots(queue)
          PROVE  x \in Slots(queue')
      <4>1. PICK u \in Threads : \E n \in 1..Len(queue[u]) : x = <<u, n>>
        BY <3>2, SlotsHold
      <4>2. PICK n \in 1..Len(queue[u]) : x = <<u, n>>
        BY <4>1
      <4>3. n \in 1..Len(queue'[u])
        BY <1>3, <1>4
      <4>4. QED
        BY <4>2, <4>3, SlotsHold
    <3>3. p \in Slots(queue')
      <4>1. Len(queue[t]) + 1 \in 1..Len(queue'[t])
        BY <1>3, <1>4
      <4>2. QED
        BY <4>1, SlotsHold
    <3>4. QED
      BY <3>1, <3>2, <3>3
  <2>2. QED
    BY <2>1
<1>6. p \notin Slots(queue)
  BY <1>4, SlotsHold
<1>7. /\ IsFiniteSet(Slots(queue')) /\ Cardinality(Slots(queue')) = Cardinality(Slots(queue)) + 1
      /\ Cardinality(Slots(queue)) \in Nat
  <2> DEFINE S == Slots(queue)
  <2>1. IsFiniteSet(S) /\ p \notin S
    BY <1>6 DEF LimitsInv
  <2> HIDE DEF S, p
  <2>2. IsFiniteSet(S \cup {p}) /\ Cardinality(S \cup {p}) = Cardinality(S) + 1
    BY <2>1, FS_AddElement
  <2>3. Cardinality(S) \in Nat
    BY <2>1, FS_CardinalityType
  <2>4. QED
    BY <1>5, <2>2, <2>3 DEF S
<1>8. Cardinality(Slots(queue')) <= MaxTotalQueue
  BY <1>7, SessionQueueAssumption DEF HasRoom, TotalQueued
<1>9. \A u \in Threads : Len(queue'[u]) <= MaxQueuePerThread
  BY <1>1, <1>3, SessionQueueAssumption DEF LimitsInv, QueueWithinLimits, HasRoom
<1>10. QED
  BY <1>7, <1>8, <1>9 DEF LimitsInv, QueueWithinLimits, TotalQueued

(* A start that leaves the queue frees its slot.                            *)
LEMMA DequeueWithinLimits ==
  ASSUME TypeOK, LimitsInv, NEW t \in Threads, queue[t] # <<>>,
         queue' = [queue EXCEPT ![t] = Tail(queue[t])]
  PROVE  LimitsInv'
<1>1. /\ \A u \in Threads : queue[u] \in Seq(Request)
      /\ \A u \in Threads : Len(queue[u]) \in Nat
  BY DEF TypeOK
<1>2. \A u \in Threads : queue'[u] = IF u = t THEN Tail(queue[t]) ELSE queue[u]
  BY DEF TypeOK
<1>3. \A u \in Threads : Len(queue'[u]) = IF u = t THEN Len(queue[t]) - 1 ELSE Len(queue[u])
  <2>1. queue[t] \in Seq(Request)
    BY <1>1
  <2>2. Len(Tail(queue[t])) = Len(queue[t]) - 1
    BY <2>1
  <2>3. \A u \in Threads : u # t => Len(queue'[u]) = Len(queue[u])
    BY <1>2
  <2>4. Len(queue'[t]) = Len(queue[t]) - 1
    BY <1>2, <2>2
  <2>5. QED
    BY <2>3, <2>4
<1>4. \A u \in Threads : Len(queue'[u]) <= Len(queue[u]) /\ Len(queue'[u]) \in Int
  BY <1>1, <1>3
<1>5. Slots(queue') \subseteq Slots(queue)
  <2>1. \A u \in Threads : 1..Len(queue'[u]) \subseteq 1..Len(queue[u])
    BY <1>1, <1>4
  <2>2. SUFFICES ASSUME NEW x \in Slots(queue')
                 PROVE  x \in Slots(queue)
    OBVIOUS
  <2>3. PICK u \in Threads : \E n \in 1..Len(queue'[u]) : x = <<u, n>>
    BY <2>2 DEF Slots
  <2>4. QED
    BY <2>1, <2>3, SlotsHold
<1>6. /\ IsFiniteSet(Slots(queue')) /\ Cardinality(Slots(queue')) <= Cardinality(Slots(queue))
      /\ Cardinality(Slots(queue)) \in Nat /\ Cardinality(Slots(queue')) \in Nat
  BY <1>5, FS_Subset, FS_CardinalityType DEF LimitsInv
<1>7. Cardinality(Slots(queue')) <= MaxTotalQueue
  BY <1>6, SessionQueueAssumption DEF LimitsInv, QueueWithinLimits, TotalQueued
<1>8. \A u \in Threads : Len(queue'[u]) <= MaxQueuePerThread
  BY <1>1, <1>4, SessionQueueAssumption DEF LimitsInv, QueueWithinLimits
<1>9. QED
  BY <1>6, <1>7, <1>8 DEF LimitsInv, QueueWithinLimits, TotalQueued

(* A start put back goes to the slot that its removal has just freed.       *)
LEMMA RequeueWithinLimits ==
  ASSUME TypeOK, LimitsInv, NEW t \in Threads, queue[t] # <<>>,
         queue' = [queue EXCEPT ![t] = Append(Tail(queue[t]), Head(queue[t]))]
  PROVE  LimitsInv'
<1>1. queue[t] \in Seq(Request)
  BY DEF TypeOK
<1>2. Len(Append(Tail(queue[t]), Head(queue[t]))) = Len(queue[t])
  <2>1. /\ Tail(queue[t]) \in Seq(Request) /\ Head(queue[t]) \in Request
        /\ Len(Tail(queue[t])) = Len(queue[t]) - 1 /\ Len(queue[t]) \in Nat
    BY <1>1
  <2>2. QED
    BY <2>1
<1>3. \A u \in Threads : Len(queue'[u]) = Len(queue[u])
  BY <1>2 DEF TypeOK
<1>4. Slots(queue') = Slots(queue)
  BY <1>3 DEF Slots
<1>5. QED
  BY <1>3, <1>4 DEF LimitsInv, QueueWithinLimits, TotalQueued

LEMMA DrainWithinLimits ==
  ASSUME TypeOK, LimitsInv, NEW t \in Threads, NEW sub, NEW act, NEW pend,
         Drain(t, sub, act, pend)
  PROVE  LimitsInv'
<1>1. CASE DrainNone(t, sub, pend)
  BY <1>1 DEF DrainNone, LimitsInv, QueueWithinLimits, TotalQueued, Slots
<1>2. CASE DrainToDeferred(t, sub, pend)
  BY <1>2, DequeueWithinLimits DEF DrainToDeferred
<1>3. CASE DrainToQueue(t, sub, act, pend)
  BY <1>3, RequeueWithinLimits DEF DrainToQueue
<1>4. CASE DrainToChild(t, sub, act, pend)
  BY <1>4, DequeueWithinLimits DEF DrainToChild
<1>5. QED
  BY <1>1, <1>2, <1>3, <1>4 DEF Drain

LEMMA AdmitWithinLimits ==
  ASSUME TypeOK, LimitsInv, NEW r \in Request, Admit(r)
  PROVE  LimitsInv'
<1>1. CASE Enqueue(r)
  BY <1>1, EnqueueWithinLimits DEF Enqueue, Request
<1>2. CASE RejectFull(r) \/ ForwardStart(r) \/ ForwardOther(r)
  BY <1>2 DEF RejectFull, ForwardStart, ForwardOther, LimitsInv, QueueWithinLimits, TotalQueued, Slots
<1>3. QED
  BY <1>1, <1>2 DEF Admit

(* The queue never holds more starts than a thread's limit or the total     *)
(* limit allows, also when a drained start is put back at the end.          *)
THEOREM WithinLimits == Spec => []QueueWithinLimits
<1>1. Init => LimitsInv
  <2> SUFFICES ASSUME Init
               PROVE  LimitsInv
    OBVIOUS
  <2>1. \A t \in Threads : Len(queue[t]) = 0
    BY DEF Init
  <2>2. Slots(queue) = {}
    BY <2>1, SlotsHold
  <2>3. QED
    BY <2>1, <2>2, FS_EmptySet, SessionQueueAssumption DEF LimitsInv, QueueWithinLimits, TotalQueued
<1>2. TypeOK /\ LimitsInv /\ [Next]_vars => LimitsInv'
  <2> SUFFICES ASSUME TypeOK, LimitsInv, [Next]_vars
               PROVE  LimitsInv'
    OBVIOUS
  <2>1. ASSUME UNCHANGED queue
        PROVE  LimitsInv'
    BY <2>1 DEF LimitsInv, QueueWithinLimits, TotalQueued, Slots
  <2>2. ASSUME NEW t \in Threads, NEW k \in Kinds, ClientRequest(t, k)
        PROVE  LimitsInv'
    <3>1. PICK r : r = [id |-> nextId, thread |-> t, kind |-> k]
      OBVIOUS
    <3>2. r \in Request
      BY <2>2, <3>1, SessionQueueAssumption DEF ClientRequest, Request, Ids, TypeOK
    <3>3. UNCHANGED queue \/ Admit(r)
      BY <2>2, <3>1 DEF ClientRequest, queueVars
    <3>4. QED
      BY <2>1, <3>2, <3>3, AdmitWithinLimits
  <2>3. CASE FlushDeferred
    <3>1. Head(deferred) \in Request
      BY <2>3, HeadTailType DEF FlushDeferred, TypeOK
    <3>2. QED
      BY <2>3, <3>1, AdmitWithinLimits DEF FlushDeferred
  <2>4. ASSUME NEW t \in Threads, ReadResponse(t)
        PROVE  LimitsInv'
    <3>1. PICK r : r = Head(fromChild[t]).req
      OBVIOUS
    <3>2. Head(fromChild[t]) \in Response \cup Notification
      BY <2>4, HeadTailType DEF ReadResponse, TypeOK
    <3>3. r.thread \in Threads
      BY <2>4, <3>1, <3>2 DEF ReadResponse, Response, Notification, Request
    <3>4. PICK ok : SteerToStart(r) \/ ReadFallbackAnswer(r, ok) \/ ReadStartAnswer(r, ok)
                    \/ ReadOtherAnswer(r)
      BY <2>4, <3>1 DEF ReadResponse
    <3>5. CASE SteerToStart(r) \/ ReadOtherAnswer(r)
      BY <2>1, <3>5 DEF SteerToStart, ReadOtherAnswer
    <3>6. CASE ReadFallbackAnswer(r, ok) \/ ReadStartAnswer(r, ok)
      BY <2>1, <3>3, <3>6, DrainWithinLimits DEF ReadFallbackAnswer, ReadStartAnswer, SettleStart
    <3>7. QED
      BY <3>4, <3>5, <3>6
  <2>5. ASSUME NEW t \in Threads, ReadStarted(t) \/ ReadCompleted(t)
        PROVE  LimitsInv'
    BY <2>1, <2>5, DrainWithinLimits DEF ReadStarted, ReadCompleted
  <2>6. CASE \/ RaiseBarrier \/ LowerBarrier \/ ChildTake \/ UNCHANGED vars
             \/ \E a \in owed : ChildAnswer(a)
             \/ \E t \in Threads : ChildFinish(t) \/ ChildGoalTurn(t)
    <3>1. UNCHANGED queue
      BY <2>6 DEF RaiseBarrier, LowerBarrier, ChildTake, ChildAccept, ChildRefuse, ChildSteer,
                  ChildAnswer, ChildFinish, ChildGoalTurn, vars, queueVars
    <3>2. QED
      BY <2>1, <3>1
  <2>7. QED
    BY <2>2, <2>3, <2>4, <2>5, <2>6 DEF Next, Read
<1>3. LimitsInv => QueueWithinLimits
  BY DEF LimitsInv
<1>4. QED
  BY <1>1, <1>2, <1>3, TypeCorrect, PTL DEF Spec

-----------------------------------------------------------------------------
(* Which thread a turn belongs to: every line and table that mentions the   *)
(* turn puts it on the same thread.                                         *)

LinesName(s, i, t) == \E n \in 1..Len(s) : s[n].id = i /\ s[n].thread = t
QueueNames(i, t) == \E u \in Threads : LinesName(queue[u], i, t)
DeferredNames(i, t) == LinesName(deferred, i, t)
StdinNames(i, t) == LinesName(toChild, i, t)
OwedNames(i, t) == \E a \in owed : a.req.id = i /\ a.req.thread = t
Says(m, u, i, t) ==
  \/ m.type = "response" /\ m.req.id = i /\ m.req.thread = t
  \/ m.type # "response" /\ m.turn = i /\ u = t
PipeNames(i, t) ==
  \E u \in Threads : \E n \in 1..Len(fromChild[u]) : Says(fromChild[u][n], u, i, t)
RunsNames(i, t) == childTurn[t] = i
ActiveNames(i, t) == activeTurns[t] = i
CoordNames(i, t) == activeTurnId[t] = i
Names(i, t) ==
  \/ QueueNames(i, t) \/ DeferredNames(i, t) \/ StdinNames(i, t) \/ OwedNames(i, t)
  \/ PipeNames(i, t) \/ RunsNames(i, t) \/ ActiveNames(i, t) \/ CoordNames(i, t)

Begun(i) == i < nextId \/ (MaxReq < i /\ i <= MaxReq + goalTurns)

NamesInv ==
  /\ \A i \in Turns, t, u \in Threads : Names(i, t) /\ Names(i, u) => t = u
  /\ \A i \in Turns, t \in Threads : Names(i, t) => Begun(i)

(* No step but a new request and a turn of the child's own says anything    *)
(* new about which thread a turn is of.                                     *)
NoNewName == \A i \in Turns, t \in Threads : Names(i, t)' => Names(i, t)

LEMMA LinesNameAppend ==
  ASSUME NEW s \in Seq(Request), NEW x \in Request, NEW i, NEW t, LinesName(Append(s, x), i, t)
  PROVE  LinesName(s, i, t) \/ (i = x.id /\ t = x.thread)
<1>1. /\ Len(Append(s, x)) = Len(s) + 1 /\ Append(s, x)[Len(s) + 1] = x /\ Len(s) \in Nat
      /\ \A n \in 1..Len(s) : Append(s, x)[n] = s[n]
      /\ \A n \in 1..Len(s) + 1 : n \in 1..Len(s) \/ n = Len(s) + 1
  OBVIOUS
<1>2. QED
  BY <1>1 DEF LinesName

LEMMA LinesNameTail ==
  ASSUME NEW s \in Seq(Request), s # <<>>, NEW i, NEW t
  PROVE  /\ LinesName(Tail(s), i, t) => LinesName(s, i, t)
         /\ i = Head(s).id /\ t = Head(s).thread => LinesName(s, i, t)
<1>1. /\ Head(s) = s[1] /\ 1 \in 1..Len(s) /\ Len(Tail(s)) = Len(s) - 1 /\ Len(s) \in Nat
      /\ \A n \in 1..Len(s) - 1 : Tail(s)[n] = s[n + 1] /\ n + 1 \in 1..Len(s)
  OBVIOUS
<1>2. QED
  BY <1>1 DEF LinesName

(* One line more, and one less, in the queue.                               *)
LEMMA QueueNamesIf ==
  ASSUME TypeOK, NEW v \in Threads, NEW STATE s, queue' = [queue EXCEPT ![v] = s],
         NEW i \in Turns, NEW t \in Threads, QueueNames(i, t)'
  PROVE  QueueNames(i, t) \/ LinesName(s, i, t)
<1>1. \A u \in Threads : queue'[u] = IF u = v THEN s ELSE queue[u]
  BY DEF TypeOK
<1>2. QED
  BY <1>1 DEF QueueNames

LEMMA QueueNamesGain ==
  ASSUME TypeOK, NEW v \in Threads, NEW r \in Request,
         queue' = [queue EXCEPT ![v] = Append(queue[v], r)],
         NEW i \in Turns, NEW t \in Threads, QueueNames(i, t)'
  PROVE  QueueNames(i, t) \/ (i = r.id /\ t = r.thread)
<1>1. queue[v] \in Seq(Request)
  BY DEF TypeOK
<1>2. QueueNames(i, t) \/ LinesName(Append(queue[v], r), i, t)
  BY QueueNamesIf
<1>3. QED
  BY <1>1, <1>2, LinesNameAppend DEF QueueNames

LEMMA QueueNamesLose ==
  ASSUME TypeOK, NEW v \in Threads, queue[v] # <<>>,
         \/ queue' = [queue EXCEPT ![v] = Tail(queue[v])]
         \/ queue' = [queue EXCEPT ![v] = Append(Tail(queue[v]), Head(queue[v]))],
         NEW i \in Turns, NEW t \in Threads, QueueNames(i, t)'
  PROVE  QueueNames(i, t)
<1>1. queue[v] \in Seq(Request) /\ Tail(queue[v]) \in Seq(Request) /\ Head(queue[v]) \in Request
  BY HeadTailType DEF TypeOK
<1>2. CASE queue' = [queue EXCEPT ![v] = Tail(queue[v])]
  <2>1. QueueNames(i, t) \/ LinesName(Tail(queue[v]), i, t)
    BY <1>2, QueueNamesIf
  <2>2. QED
    BY <1>1, <2>1, LinesNameTail DEF QueueNames
<1>3. CASE queue' = [queue EXCEPT ![v] = Append(Tail(queue[v]), Head(queue[v]))]
  <2>1. QueueNames(i, t) \/ LinesName(Append(Tail(queue[v]), Head(queue[v])), i, t)
    BY <1>3, QueueNamesIf
  <2>2. LinesName(Append(Tail(queue[v]), Head(queue[v])), i, t) => LinesName(queue[v], i, t)
    BY <1>1, LinesNameAppend, LinesNameTail
  <2>3. QED
    BY <2>1, <2>2 DEF QueueNames
<1>4. QED
  BY <1>2, <1>3

(* The same for the child's stdout.                                         *)
LEMMA PipeNamesGain ==
  ASSUME TypeOK, NEW v \in Threads, NEW x \in Messages,
         fromChild' = [fromChild EXCEPT ![v] = Append(fromChild[v], x)],
         NEW i \in Turns, NEW t \in Threads, PipeNames(i, t)'
  PROVE  PipeNames(i, t) \/ Says(x, v, i, t)
<1>1. fromChild[v] \in Seq(Messages)
  BY DEF TypeOK, Messages
<1>2. \A u \in Threads : fromChild'[u] = IF u = v THEN Append(fromChild[v], x) ELSE fromChild[u]
  BY DEF TypeOK
<1>3. /\ Len(Append(fromChild[v], x)) = Len(fromChild[v]) + 1 /\ Len(fromChild[v]) \in Nat
      /\ Append(fromChild[v], x)[Len(fromChild[v]) + 1] = x
      /\ \A n \in 1..Len(fromChild[v]) : Append(fromChild[v], x)[n] = fromChild[v][n]
      /\ \A n \in 1..Len(fromChild[v]) + 1 : n \in 1..Len(fromChild[v]) \/ n = Len(fromChild[v]) + 1
  BY <1>1
<1>4. QED
  BY <1>2, <1>3 DEF PipeNames

LEMMA PipeNamesLose ==
  ASSUME TypeOK, NEW v \in Threads, fromChild[v] # <<>>,
         fromChild' = [fromChild EXCEPT ![v] = Tail(fromChild[v])],
         NEW i \in Turns, NEW t \in Threads
  PROVE  /\ PipeNames(i, t)' => PipeNames(i, t)
         /\ Says(Head(fromChild[v]), v, i, t) => PipeNames(i, t)
<1>1. fromChild[v] \in Seq(Messages)
  BY DEF TypeOK, Messages
<1>2. \A u \in Threads : fromChild'[u] = IF u = v THEN Tail(fromChild[v]) ELSE fromChild[u]
  BY DEF TypeOK
<1>3. /\ Head(fromChild[v]) = fromChild[v][1] /\ 1 \in 1..Len(fromChild[v])
      /\ Len(Tail(fromChild[v])) = Len(fromChild[v]) - 1
      /\ \A n \in 1..Len(fromChild[v]) - 1 :
           Tail(fromChild[v])[n] = fromChild[v][n + 1] /\ n + 1 \in 1..Len(fromChild[v])
  BY <1>1
<1>4. QED
  BY <1>2, <1>3 DEF PipeNames

(* What no step has touched names what it named.                            *)
LEMMA NamesKept ==
  ASSUME NEW i \in Turns, NEW t \in Threads
  PROVE  /\ UNCHANGED queue => (QueueNames(i, t)' => QueueNames(i, t))
         /\ UNCHANGED deferred => (DeferredNames(i, t)' => DeferredNames(i, t))
         /\ UNCHANGED toChild => (StdinNames(i, t)' => StdinNames(i, t))
         /\ UNCHANGED owed => (OwedNames(i, t)' => OwedNames(i, t))
         /\ UNCHANGED fromChild => (PipeNames(i, t)' => PipeNames(i, t))
         /\ UNCHANGED childTurn => (RunsNames(i, t)' => RunsNames(i, t))
         /\ UNCHANGED activeTurns => (ActiveNames(i, t)' => ActiveNames(i, t))
         /\ UNCHANGED activeTurnId => (CoordNames(i, t)' => CoordNames(i, t))
<1>1. UNCHANGED queue => (QueueNames(i, t)' => QueueNames(i, t))
  BY DEF QueueNames
<1>2. UNCHANGED deferred => (DeferredNames(i, t)' => DeferredNames(i, t))
  BY DEF DeferredNames
<1>3. UNCHANGED toChild => (StdinNames(i, t)' => StdinNames(i, t))
  BY DEF StdinNames
<1>4. UNCHANGED owed => (OwedNames(i, t)' => OwedNames(i, t))
  BY DEF OwedNames
<1>5. UNCHANGED fromChild => (PipeNames(i, t)' => PipeNames(i, t))
  BY DEF PipeNames
<1>6. QED
  BY <1>1, <1>2, <1>3, <1>4, <1>5 DEF RunsNames, ActiveNames, CoordNames

(* A line let through the barrier is named by the queue or by the stdin.    *)
LEMMA AdmitNames ==
  ASSUME TypeOK, NEW r \in Request, Admit(r), NEW i \in Turns, NEW t \in Threads
  PROVE  /\ QueueNames(i, t)' => QueueNames(i, t) \/ (i = r.id /\ t = r.thread)
         /\ StdinNames(i, t)' => StdinNames(i, t) \/ (i = r.id /\ t = r.thread)
         /\ ActiveNames(i, t)' => ActiveNames(i, t)
         /\ CoordNames(i, t)' => CoordNames(i, t)
<1>1. toChild \in Seq(Request) /\ r.thread \in Threads
  BY DEF TypeOK, Request
<1>2. QueueNames(i, t)' => QueueNames(i, t) \/ (i = r.id /\ t = r.thread)
  <2>1. CASE Enqueue(r)
    BY <1>1, <2>1, QueueNamesGain DEF Enqueue
  <2>2. CASE UNCHANGED queue
    BY <2>2, NamesKept
  <2>3. QED
    BY <2>1, <2>2 DEF Admit, RejectFull, ForwardStart, ForwardOther
<1>3. StdinNames(i, t)' => StdinNames(i, t) \/ (i = r.id /\ t = r.thread)
  <2>1. CASE toChild' = Append(toChild, r)
    BY <1>1, <2>1, LinesNameAppend DEF StdinNames
  <2>2. CASE UNCHANGED toChild
    BY <2>2, NamesKept
  <2>3. QED
    BY <2>1, <2>2 DEF Admit, Enqueue, RejectFull, ForwardStart, ForwardOther
<1>4. QED
  BY <1>2, <1>3 DEF Admit, ActiveNames, CoordNames

(* What a drain moves was named by the queue.                               *)
LEMMA DrainNames ==
  ASSUME TypeOK, NEW v \in Threads, NEW sub, NEW act, NEW pend, Drain(v, sub, act, pend),
         NEW i \in Turns, NEW t \in Threads
  PROVE  /\ QueueNames(i, t)' => QueueNames(i, t)
         /\ DeferredNames(i, t)' => DeferredNames(i, t) \/ QueueNames(i, t)
         /\ StdinNames(i, t)' => StdinNames(i, t) \/ QueueNames(i, t)
         /\ CoordNames(i, t)' => CoordNames(i, t)
<1>1. /\ toChild \in Seq(Request) /\ deferred \in Seq(Request) /\ queue[v] \in Seq(Request)
      /\ queue[v] # <<>> => Head(queue[v]) \in Request
  BY HeadTailType DEF TypeOK
<1>2. queue[v] # <<>> /\ i = Head(queue[v]).id /\ t = Head(queue[v]).thread => QueueNames(i, t)
  BY <1>1, LinesNameTail DEF QueueNames
<1>3. CoordNames(i, t)' => CoordNames(i, t)
  <2>1. activeTurnId'[t] \in {0, activeTurnId[t]} /\ i # 0
    BY SessionQueueAssumption DEF Drain, TypeOK, Turns
  <2>2. QED
    BY <2>1 DEF CoordNames
<1>4. QueueNames(i, t)' => QueueNames(i, t)
  <2>1. CASE UNCHANGED queue
    BY <2>1, NamesKept
  <2>2. CASE ~UNCHANGED queue
    BY <2>2, QueueNamesLose DEF Drain, DrainNone, DrainToDeferred, DrainToQueue, DrainToChild
  <2>3. QED
    BY <2>1, <2>2
<1>5. DeferredNames(i, t)' => DeferredNames(i, t) \/ QueueNames(i, t)
  <2>1. CASE UNCHANGED deferred
    BY <2>1, NamesKept
  <2>2. CASE queue[v] # <<>> /\ deferred' = Append(deferred, Head(queue[v]))
    BY <1>1, <1>2, <2>2, LinesNameAppend DEF DeferredNames
  <2>3. QED
    BY <2>1, <2>2 DEF Drain, DrainNone, DrainToDeferred, DrainToQueue, DrainToChild
<1>6. StdinNames(i, t)' => StdinNames(i, t) \/ QueueNames(i, t)
  <2>1. CASE UNCHANGED toChild
    BY <2>1, NamesKept
  <2>2. CASE queue[v] # <<>> /\ toChild' = Append(toChild, Head(queue[v]))
    BY <1>1, <1>2, <2>2, LinesNameAppend DEF StdinNames
  <2>3. QED
    BY <2>1, <2>2 DEF Drain, DrainNone, DrainToDeferred, DrainToQueue, DrainToChild
<1>7. QED
  BY <1>3, <1>4, <1>5, <1>6

(* A new turn may be told of by the one thread that begins it.              *)
LEMMA NamesStayApart ==
  ASSUME NamesInv, NEW j \in Turns, NEW v \in Threads, ~Begun(j), Begun(j)',
         \A i \in Turns : Begun(i) => Begun(i)',
         \A i \in Turns, t \in Threads : Names(i, t)' => Names(i, t) \/ (i = j /\ t = v)
  PROVE  NamesInv'
BY DEF NamesInv

LEMMA NoNewNameKeeps ==
  ASSUME NamesInv, NoNewName, \A i \in Turns : Begun(i) => Begun(i)'
  PROVE  NamesInv'
BY DEF NamesInv, NoNewName

LEMMA RequestNames ==
  ASSUME TypeOK, NamesInv, NEW v \in Threads, NEW k \in Kinds, ClientRequest(v, k)
  PROVE  NamesInv'
<1>1. PICK r : r = [id |-> nextId, thread |-> v, kind |-> k]
  OBVIOUS
<1>2. /\ r \in Request /\ r.id = nextId /\ r.thread = v
      /\ nextId \in Ids /\ nextId \in Turns
  BY <1>1, SessionQueueAssumption DEF ClientRequest, Request, Ids, Turns, TypeOK
<1>3. UNCHANGED <<owed, fromChild, childTurn, activeTurns, activeTurnId, goalTurns>>
  BY DEF ClientRequest, childVars, queueVars, Admit
<1>4. ~Begun(nextId) /\ nextId' = nextId + 1 /\ \A i \in Turns : i < nextId' <=> i < nextId \/ i = nextId
  BY <1>2, SessionQueueAssumption DEF Begun, ClientRequest, Ids, Turns
<1>5. \A i \in Turns : Begun(i)' <=> Begun(i) \/ i = nextId
  BY <1>3, <1>4 DEF Begun
<1>6. ASSUME NEW i \in Turns, NEW t \in Threads, Names(i, t)'
      PROVE  Names(i, t) \/ (i = nextId /\ t = v)
  <2>1. /\ QueueNames(i, t)' => QueueNames(i, t) \/ (i = nextId /\ t = v)
        /\ DeferredNames(i, t)' => DeferredNames(i, t) \/ (i = nextId /\ t = v)
        /\ StdinNames(i, t)' => StdinNames(i, t) \/ (i = nextId /\ t = v)
    <3>1. CASE deferred' = Append(deferred, r) /\ UNCHANGED <<queue, toChild>>
      <4>1. DeferredNames(i, t)' => DeferredNames(i, t) \/ (i = nextId /\ t = v)
        BY <1>2, <3>1, LinesNameAppend DEF DeferredNames, TypeOK
      <4>2. QED
        BY <3>1, <4>1, NamesKept
    <3>2. CASE Admit(r) /\ UNCHANGED deferred
      BY <1>2, <3>2, AdmitNames, NamesKept
    <3>3. QED
      BY <1>1, <3>1, <3>2 DEF ClientRequest, queueVars
  <2>2. /\ OwedNames(i, t)' => OwedNames(i, t)
        /\ PipeNames(i, t)' => PipeNames(i, t)
        /\ RunsNames(i, t)' => RunsNames(i, t)
        /\ ActiveNames(i, t)' => ActiveNames(i, t)
        /\ CoordNames(i, t)' => CoordNames(i, t)
    BY <1>3, NamesKept
  <2>3. QED
    BY <1>6, <2>1, <2>2 DEF Names
<1>7. PICK j \in Turns : j = nextId
  BY <1>2
<1>8. ~Begun(j) /\ Begun(j)' /\ \A i \in Turns : Begun(i) => Begun(i)'
  BY <1>4, <1>5, <1>7
<1>9. QED
  BY <1>6, <1>7, <1>8, NamesStayApart

LEMMA FlushNames ==
  ASSUME TypeOK, FlushDeferred
  PROVE  NoNewName
<1> SUFFICES ASSUME NEW i \in Turns, NEW t \in Threads, Names(i, t)'
             PROVE  Names(i, t)
  BY DEF NoNewName
<1>1. PICK r \in Request : r = Head(deferred)
  BY HeadTailType DEF FlushDeferred, TypeOK
<1>2. /\ DeferredNames(i, t)' => DeferredNames(i, t)
      /\ i = r.id /\ t = r.thread => DeferredNames(i, t)
  BY <1>1, LinesNameTail DEF FlushDeferred, DeferredNames, TypeOK
<1>3. /\ QueueNames(i, t)' => QueueNames(i, t) \/ (i = r.id /\ t = r.thread)
      /\ StdinNames(i, t)' => StdinNames(i, t) \/ (i = r.id /\ t = r.thread)
      /\ ActiveNames(i, t)' => ActiveNames(i, t)
      /\ CoordNames(i, t)' => CoordNames(i, t)
  BY <1>1, AdmitNames DEF FlushDeferred
<1>4. /\ OwedNames(i, t)' => OwedNames(i, t)
      /\ PipeNames(i, t)' => PipeNames(i, t)
      /\ RunsNames(i, t)' => RunsNames(i, t)
  BY NamesKept DEF FlushDeferred, childVars
<1>5. QED
  BY <1>2, <1>3, <1>4 DEF Names

(* An answer names its request's thread, and so do the tables it settles.   *)
LEMMA ResponseNames ==
  ASSUME TypeOK, NEW v \in Threads, ReadResponse(v)
  PROVE  NoNewName
<1> SUFFICES ASSUME NEW i \in Turns, NEW t \in Threads, Names(i, t)'
             PROVE  Names(i, t)
  BY DEF NoNewName
<1>1. PICK m : m = Head(fromChild[v])
  OBVIOUS
<1>2. m \in Response /\ m.type = "response"
  BY <1>1, HeadTailType DEF ReadResponse, TypeOK, Response, Notification
<1>3. PICK r \in Request : r = m.req
  BY <1>2 DEF Response
<1>4. r.thread \in Threads /\ r.id \in Ids /\ i # 0
  BY SessionQueueAssumption DEF Request, Turns
<1>5. /\ PipeNames(i, t)' => PipeNames(i, t)
      /\ i = r.id /\ t = r.thread => PipeNames(i, t)
  BY <1>1, <1>2, <1>3, PipeNamesLose DEF ReadResponse, Says
<1>6. OwedNames(i, t)' => OwedNames(i, t)
  BY NamesKept DEF ReadResponse, childVars
<1>7. RunsNames(i, t)' => RunsNames(i, t)
  BY NamesKept DEF ReadResponse, childVars
<1>8. ActiveNames(i, t)' => ActiveNames(i, t) \/ (i = r.id /\ t = r.thread)
  <2>1. PICK ok : activeTurns' = ActiveAfter(r, ok)
    BY <1>1, <1>3 DEF ReadResponse
  <2>2. QED
    BY <2>1 DEF ActiveAfter, ActiveNames, TypeOK
<1>9. PICK ok : SteerToStart(r) \/ ReadFallbackAnswer(r, ok) \/ ReadStartAnswer(r, ok)
                \/ ReadOtherAnswer(r)
  BY <1>1, <1>3 DEF ReadResponse
<1>10. CASE SteerToStart(r)
  <2>1. PICK fb \in Request : fb = FallbackOf(r)
    BY DEF FallbackOf, Request
  <2>2. fb.id = r.id /\ fb.thread = r.thread
    BY <2>1 DEF FallbackOf, Request
  <2>3. /\ QueueNames(i, t)' => QueueNames(i, t)
        /\ CoordNames(i, t)' => CoordNames(i, t)
    BY <1>10, NamesKept DEF SteerToStart
  <2>4. /\ DeferredNames(i, t)' => DeferredNames(i, t) \/ (i = r.id /\ t = r.thread)
        /\ StdinNames(i, t)' => StdinNames(i, t) \/ (i = r.id /\ t = r.thread)
    <3>1. CASE deferred' = Append(deferred, fb) /\ UNCHANGED toChild
      BY <2>2, <3>1, LinesNameAppend, NamesKept DEF DeferredNames, TypeOK
    <3>2. CASE toChild' = Append(toChild, fb) /\ UNCHANGED deferred
      BY <2>2, <3>2, LinesNameAppend, NamesKept DEF StdinNames, TypeOK
    <3>3. QED
      BY <1>10, <2>1, <3>1, <3>2 DEF SteerToStart
  <2>5. QED
    BY <1>5, <1>6, <1>7, <1>8, <2>3, <2>4 DEF Names
<1>11. CASE ReadOtherAnswer(r)
  <2>1. /\ QueueNames(i, t)' => QueueNames(i, t)
        /\ DeferredNames(i, t)' => DeferredNames(i, t)
        /\ StdinNames(i, t)' => StdinNames(i, t)
        /\ CoordNames(i, t)' => CoordNames(i, t)
    BY <1>11, NamesKept DEF ReadOtherAnswer
  <2>2. QED
    BY <1>5, <1>6, <1>7, <1>8, <2>1 DEF Names
<1>12. CASE ReadFallbackAnswer(r, ok) \/ ReadStartAnswer(r, ok)
  <2>1. PICK pend : SettleStart(r, ok, pend)
    BY <1>12 DEF ReadFallbackAnswer, ReadStartAnswer
  <2>2. CASE StillLive(r, ok)
    <3>1. /\ QueueNames(i, t)' => QueueNames(i, t)
          /\ DeferredNames(i, t)' => DeferredNames(i, t)
          /\ StdinNames(i, t)' => StdinNames(i, t)
      BY <2>1, <2>2, NamesKept DEF SettleStart
    <3>2. CoordNames(i, t)' => CoordNames(i, t) \/ (i = r.id /\ t = r.thread)
      BY <1>4, <2>1, <2>2 DEF SettleStart, CoordNames, TypeOK
    <3>3. QED
      BY <1>5, <1>6, <1>7, <1>8, <3>1, <3>2 DEF Names
  <2>3. CASE ~StillLive(r, ok)
    <3>1. /\ QueueNames(i, t)' => QueueNames(i, t)
          /\ DeferredNames(i, t)' => DeferredNames(i, t) \/ QueueNames(i, t)
          /\ StdinNames(i, t)' => StdinNames(i, t) \/ QueueNames(i, t)
          /\ CoordNames(i, t)' => CoordNames(i, t)
      BY <1>4, <2>1, <2>3, DrainNames DEF SettleStart
    <3>2. QED
      BY <1>5, <1>6, <1>7, <1>8, <3>1 DEF Names
  <2>4. QED
    BY <2>2, <2>3
<1>13. QED
  BY <1>9, <1>10, <1>11, <1>12

(* A notification names a turn of the thread whose pipe it is in.           *)
LEMMA NotificationNames ==
  ASSUME TypeOK, NEW v \in Threads, ReadStarted(v) \/ ReadCompleted(v)
  PROVE  NoNewName
<1> SUFFICES ASSUME NEW i \in Turns, NEW t \in Threads, Names(i, t)'
             PROVE  Names(i, t)
  BY DEF NoNewName
<1>1. PICK m : m = Head(fromChild[v])
  OBVIOUS
<1>2. m.type # "response" /\ i # 0
  BY <1>1, SessionQueueAssumption DEF ReadStarted, ReadCompleted, Turns
<1>3. /\ PipeNames(i, t)' => PipeNames(i, t)
      /\ i = m.turn /\ t = v => PipeNames(i, t)
  BY <1>1, <1>2, PipeNamesLose DEF ReadStarted, ReadCompleted, Says
<1>4. /\ OwedNames(i, t)' => OwedNames(i, t)
      /\ RunsNames(i, t)' => RunsNames(i, t)
  BY NamesKept DEF ReadStarted, ReadCompleted, childVars
<1>5. CASE ReadStarted(v)
  <2>1. /\ QueueNames(i, t)' => QueueNames(i, t)
        /\ DeferredNames(i, t)' => DeferredNames(i, t)
        /\ StdinNames(i, t)' => StdinNames(i, t)
    BY <1>5, NamesKept DEF ReadStarted
  <2>2. /\ ActiveNames(i, t)' => ActiveNames(i, t) \/ (i = m.turn /\ t = v)
        /\ CoordNames(i, t)' => CoordNames(i, t) \/ (i = m.turn /\ t = v)
    BY <1>1, <1>5 DEF ReadStarted, ActiveNames, CoordNames, TypeOK
  <2>3. QED
    BY <1>3, <1>4, <2>1, <2>2 DEF Names
<1>6. CASE ReadCompleted(v)
  <2>1. ActiveNames(i, t)' => ActiveNames(i, t)
    BY <1>2, <1>6 DEF ReadCompleted, ActiveAfterEnd, ActiveNames, TypeOK
  <2>2. /\ QueueNames(i, t)' => QueueNames(i, t)
        /\ DeferredNames(i, t)' => DeferredNames(i, t) \/ QueueNames(i, t)
        /\ StdinNames(i, t)' => StdinNames(i, t) \/ QueueNames(i, t)
        /\ CoordNames(i, t)' => CoordNames(i, t)
    <3>1. CASE UNCHANGED <<queue, deferred, toChild, activeTurnId>>
      BY <3>1, NamesKept
    <3>2. CASE Drain(v, submitted, ActiveAfterEnd(v, m.turn), pending)
      BY <3>2, DrainNames
    <3>3. QED
      BY <1>1, <1>6, <3>1, <3>2 DEF ReadCompleted
  <2>3. QED
    BY <1>3, <1>4, <2>1, <2>2 DEF Names
<1>7. QED
  BY <1>5, <1>6

(* The child names the turns it begins as the requests that begin them.     *)
LEMMA ChildTakeNames ==
  ASSUME TypeOK, ChildTake
  PROVE  NoNewName
<1> SUFFICES ASSUME NEW i \in Turns, NEW t \in Threads, Names(i, t)'
             PROVE  Names(i, t)
  BY DEF NoNewName
<1>1. toChild # <<>> /\ toChild' = Tail(toChild)
  BY DEF ChildTake, ChildAccept, ChildRefuse, ChildSteer
<1>2. PICK r \in Request : r = Head(toChild)
  BY <1>1, HeadTailType DEF TypeOK
<1>3. r.thread \in Threads /\ r.id \in Turns
  BY SessionQueueAssumption DEF Request, Ids, Turns
<1>4. /\ StdinNames(i, t)' => StdinNames(i, t)
      /\ i = r.id /\ t = r.thread => StdinNames(i, t)
  BY <1>1, <1>2, LinesNameTail DEF StdinNames, TypeOK
<1>5. /\ QueueNames(i, t)' => QueueNames(i, t)
      /\ DeferredNames(i, t)' => DeferredNames(i, t)
      /\ ActiveNames(i, t)' => ActiveNames(i, t)
      /\ CoordNames(i, t)' => CoordNames(i, t)
  BY NamesKept DEF ChildTake, ChildAccept, ChildRefuse, ChildSteer, queueVars, tableVars
<1>6. OwedNames(i, t)' => OwedNames(i, t) \/ (i = r.id /\ t = r.thread)
  <2>1. PICK result : owed' = owed \cup {Answer(r, result)}
    BY <1>2 DEF ChildTake, ChildAccept, ChildRefuse, ChildSteer
  <2>2. Answer(r, result).req = r
    BY DEF Answer
  <2>3. QED
    BY <2>1, <2>2 DEF OwedNames
<1>7. CASE ChildAccept
  <2>1. RunsNames(i, t)' => RunsNames(i, t) \/ (i = r.id /\ t = r.thread)
    BY <1>2, <1>7 DEF ChildAccept, RunsNames, TypeOK
  <2>2. PICK x \in Messages : x = [type |-> "started", turn |-> r.id]
    BY <1>3 DEF Messages, Notification
  <2>3. x.type # "response" /\ x.turn = r.id
    BY <2>2
  <2>4. PipeNames(i, t)' => PipeNames(i, t) \/ (i = r.id /\ t = r.thread)
    <3>1. PipeNames(i, t)' => PipeNames(i, t) \/ Says(x, r.thread, i, t)
      BY <1>2, <1>3, <1>7, <2>2, PipeNamesGain DEF ChildAccept
    <3>2. QED
      BY <2>3, <3>1 DEF Says
  <2>5. QED
    BY <1>4, <1>5, <1>6, <2>1, <2>4 DEF Names
<1>8. CASE ChildRefuse \/ ChildSteer
  <2>1. /\ RunsNames(i, t)' => RunsNames(i, t)
        /\ PipeNames(i, t)' => PipeNames(i, t)
    BY <1>8, NamesKept DEF ChildRefuse, ChildSteer
  <2>2. QED
    BY <1>4, <1>5, <1>6, <2>1 DEF Names
<1>9. QED
  BY <1>7, <1>8 DEF ChildTake

LEMMA ChildAnswerNames ==
  ASSUME TypeOK, NEW a \in owed, ChildAnswer(a)
  PROVE  NoNewName
<1> SUFFICES ASSUME NEW i \in Turns, NEW t \in Threads, Names(i, t)'
             PROVE  Names(i, t)
  BY DEF NoNewName
<1>1. a \in Messages /\ a.type = "response" /\ a.req.thread \in Threads
  BY DEF TypeOK, Messages, Response, Request
<1>2. /\ QueueNames(i, t)' => QueueNames(i, t)
      /\ DeferredNames(i, t)' => DeferredNames(i, t)
      /\ StdinNames(i, t)' => StdinNames(i, t)
      /\ RunsNames(i, t)' => RunsNames(i, t)
      /\ ActiveNames(i, t)' => ActiveNames(i, t)
      /\ CoordNames(i, t)' => CoordNames(i, t)
  BY NamesKept DEF ChildAnswer, queueVars, tableVars
<1>3. /\ OwedNames(i, t)' => OwedNames(i, t)
      /\ i = a.req.id /\ t = a.req.thread => OwedNames(i, t)
  BY DEF ChildAnswer, OwedNames
<1>4. PipeNames(i, t)' => PipeNames(i, t) \/ (i = a.req.id /\ t = a.req.thread)
  BY <1>1, PipeNamesGain DEF ChildAnswer, Says
<1>5. QED
  BY <1>2, <1>3, <1>4 DEF Names

LEMMA ChildFinishNames ==
  ASSUME TypeOK, NEW v \in Threads, ChildFinish(v)
  PROVE  NoNewName
<1> SUFFICES ASSUME NEW i \in Turns, NEW t \in Threads, Names(i, t)'
             PROVE  Names(i, t)
  BY DEF NoNewName
<1>1. /\ QueueNames(i, t)' => QueueNames(i, t)
      /\ DeferredNames(i, t)' => DeferredNames(i, t)
      /\ StdinNames(i, t)' => StdinNames(i, t)
      /\ OwedNames(i, t)' => OwedNames(i, t)
      /\ ActiveNames(i, t)' => ActiveNames(i, t)
      /\ CoordNames(i, t)' => CoordNames(i, t)
  BY NamesKept DEF ChildFinish, queueVars, tableVars
<1>2. RunsNames(i, t)' => RunsNames(i, t)
  BY SessionQueueAssumption DEF ChildFinish, RunsNames, TypeOK, Turns
<1>3. PICK x \in Messages : x = [type |-> "completed", turn |-> childTurn[v]]
  BY DEF ChildFinish, Messages, Notification, TypeOK
<1>4. x.type # "response" /\ x.turn = childTurn[v]
  BY <1>3
<1>5. PipeNames(i, t)' => PipeNames(i, t) \/ Says(x, v, i, t)
  BY <1>3, PipeNamesGain DEF ChildFinish
<1>6. PipeNames(i, t)' => PipeNames(i, t) \/ RunsNames(i, t)
  BY <1>4, <1>5 DEF Says, RunsNames
<1>7. QED
  BY <1>1, <1>2, <1>6 DEF Names

LEMMA GoalTurnNames ==
  ASSUME TypeOK, NamesInv, NEW v \in Threads, ChildGoalTurn(v)
  PROVE  NamesInv'
<1>1. PICK j \in Turns : j = MaxReq + goalTurns + 1
  BY SessionQueueAssumption DEF ChildGoalTurn, Turns, TypeOK
<1>2. goalTurns' = goalTurns + 1 /\ nextId' = nextId
  BY DEF ChildGoalTurn
<1>3. ~Begun(j)
  BY <1>1, SessionQueueAssumption DEF Begun, TypeOK
<1>4. Begun(j)'
  BY <1>1, <1>2, SessionQueueAssumption DEF Begun, TypeOK
<1>5. \A i \in Turns : Begun(i) => Begun(i)'
  BY <1>2, SessionQueueAssumption DEF Begun, TypeOK, Turns
<1>6. ASSUME NEW i \in Turns, NEW t \in Threads, Names(i, t)'
      PROVE  Names(i, t) \/ (i = j /\ t = v)
  <2>1. /\ QueueNames(i, t)' => QueueNames(i, t)
        /\ DeferredNames(i, t)' => DeferredNames(i, t)
        /\ StdinNames(i, t)' => StdinNames(i, t)
        /\ OwedNames(i, t)' => OwedNames(i, t)
        /\ ActiveNames(i, t)' => ActiveNames(i, t)
        /\ CoordNames(i, t)' => CoordNames(i, t)
    BY NamesKept DEF ChildGoalTurn, queueVars, tableVars
  <2>2. RunsNames(i, t)' => RunsNames(i, t) \/ (i = j /\ t = v)
    BY <1>1 DEF ChildGoalTurn, RunsNames, TypeOK
  <2>3. PICK x \in Messages : x = [type |-> "started", turn |-> j]
    BY DEF Messages, Notification
  <2>4. x.type # "response" /\ x.turn = j
    BY <2>3
  <2>5. PipeNames(i, t)' => PipeNames(i, t) \/ Says(x, v, i, t)
    BY <1>1, <2>3, PipeNamesGain DEF ChildGoalTurn
  <2>6. PipeNames(i, t)' => PipeNames(i, t) \/ (i = j /\ t = v)
    BY <2>4, <2>5 DEF Says
  <2>7. QED
    BY <1>6, <2>1, <2>2, <2>6 DEF Names
<1>7. QED
  BY <1>3, <1>4, <1>5, <1>6, NamesStayApart

LEMMA OtherNames ==
  ASSUME TypeOK, RaiseBarrier \/ LowerBarrier \/ UNCHANGED vars
  PROVE  NoNewName
<1> SUFFICES ASSUME NEW i \in Turns, NEW t \in Threads, Names(i, t)'
             PROVE  Names(i, t)
  BY DEF NoNewName
<1>1. UNCHANGED <<queue, deferred, toChild, owed, fromChild, childTurn, activeTurns, activeTurnId>>
  BY DEF RaiseBarrier, LowerBarrier, vars, queueVars, tableVars, childVars
<1>2. QED
  BY <1>1, NamesKept DEF Names

(* Every turn belongs to one thread, in every line and table.               *)
LEMMA NamesStep ==
  ASSUME TypeOK, NamesInv, [Next]_vars
  PROVE  NamesInv'
<1>1. \/ \E v \in Threads, k \in Kinds : ClientRequest(v, k)
      \/ \E v \in Threads : ChildGoalTurn(v)
      \/ NoNewName /\ UNCHANGED <<nextId, goalTurns>>
  <2>1. CASE FlushDeferred
    BY <2>1, FlushNames DEF FlushDeferred, childVars
  <2>2. CASE RaiseBarrier \/ LowerBarrier \/ UNCHANGED vars
    BY <2>2, OtherNames DEF RaiseBarrier, LowerBarrier, vars, childVars
  <2>3. ASSUME NEW v \in Threads, Read(v)
        PROVE  NoNewName /\ UNCHANGED <<nextId, goalTurns>>
    BY <2>3, ResponseNames, NotificationNames
       DEF Read, ReadResponse, ReadStarted, ReadCompleted, childVars
  <2>4. CASE ChildTake
    BY <2>4, ChildTakeNames DEF ChildTake, ChildAccept, ChildRefuse, ChildSteer
  <2>5. ASSUME NEW a \in owed, ChildAnswer(a)
        PROVE  NoNewName /\ UNCHANGED <<nextId, goalTurns>>
    BY <2>5, ChildAnswerNames DEF ChildAnswer
  <2>6. ASSUME NEW v \in Threads, ChildFinish(v)
        PROVE  NoNewName /\ UNCHANGED <<nextId, goalTurns>>
    BY <2>6, ChildFinishNames DEF ChildFinish
  <2>7. QED
    BY <2>1, <2>2, <2>3, <2>4, <2>5, <2>6 DEF Next
<1>2. CASE NoNewName /\ UNCHANGED <<nextId, goalTurns>>
  BY <1>2, NoNewNameKeeps DEF Begun
<1>3. QED
  BY <1>1, <1>2, RequestNames, GoalTurnNames

(* Reading a completion clears the turn from its thread's tables, and no    *)
(* other thread's tables can hold it; nothing puts a completed turn back.   *)
LEMMA NoResurrectionStep ==
  ASSUME TypeOK, NamesInv, NoResurrection, [Next]_vars
  PROVE  NoResurrection'
<1>1. 0 \notin terminal /\ 0 \notin terminal'
  BY SessionQueueAssumption, TypeCorrectStep DEF TypeOK, Turns
<1>2. CASE UNCHANGED <<activeTurns, activeTurnId, terminal>>
  BY <1>2 DEF NoResurrection
<1>3. ASSUME NEW v \in Threads, ReadResponse(v)
      PROVE  NoResurrection'
  <2>1. PICK m : m = Head(fromChild[v])
    OBVIOUS
  <2>2. PICK r \in Request : r = m.req
    <3>1. fromChild[v] # <<>> /\ m.type = "response"
      BY <1>3, <2>1 DEF ReadResponse
    <3>2. m \in Response \cup Notification
      BY <2>1, <3>1, HeadTailType DEF TypeOK
    <3>3. QED
      BY <3>1, <3>2 DEF Response, Notification
  <2>3. PICK ok : /\ activeTurns' = ActiveAfter(r, ok)
                  /\ SteerToStart(r) \/ ReadFallbackAnswer(r, ok) \/ ReadStartAnswer(r, ok)
                     \/ ReadOtherAnswer(r)
    BY <1>3, <2>1, <2>2 DEF ReadResponse
  <2>4. terminal' = terminal
    BY <1>3 DEF ReadResponse
  <2>5. \A t \in Threads : activeTurns'[t] \notin terminal
    BY <2>3 DEF ActiveAfter, StillLive, NoResurrection, TypeOK
  <2>6. \A t \in Threads : activeTurnId'[t] \notin terminal
    <3>1. CASE UNCHANGED activeTurnId
      BY <3>1 DEF NoResurrection
    <3>2. CASE \E pend : SettleStart(r, ok, pend)
      BY <1>1, <3>2 DEF SettleStart, StillLive, Drain, NoResurrection, TypeOK
    <3>3. QED
      BY <2>3, <3>1, <3>2 DEF SteerToStart, ReadFallbackAnswer, ReadStartAnswer, ReadOtherAnswer
  <2>7. QED
    BY <2>4, <2>5, <2>6 DEF NoResurrection
<1>4. ASSUME NEW v \in Threads, ReadStarted(v)
      PROVE  NoResurrection'
  BY <1>4 DEF ReadStarted, NoResurrection, TypeOK
<1>5. ASSUME NEW v \in Threads, ReadCompleted(v)
      PROVE  NoResurrection'
  <2>1. PICK m : m = Head(fromChild[v])
    OBVIOUS
  <2>2. m.turn \in Turns /\ PipeNames(m.turn, v)
    <3>1. m \in Messages /\ m.type = "completed"
      BY <1>5, <2>1, HeadTailType DEF ReadCompleted, TypeOK, Messages
    <3>2. m.turn \in Turns
      BY <3>1 DEF Messages, Response, Notification
    <3>3. QED
      BY <1>5, <2>1, <3>1, <3>2, PipeNamesLose DEF ReadCompleted, Says
  <2>3. \A t \in Threads : t # v => activeTurns[t] # m.turn /\ activeTurnId[t] # m.turn
    BY <2>2 DEF NamesInv, Names, ActiveNames, CoordNames
  <2>4. terminal' = terminal \cup {m.turn} /\ m.turn # 0
    BY <1>5, <2>1, <2>2, SessionQueueAssumption DEF ReadCompleted, Turns
  <2>5. \A t \in Threads : activeTurns'[t] \notin terminal'
    BY <1>1, <1>5, <2>1, <2>3, <2>4 DEF ReadCompleted, ActiveAfterEnd, NoResurrection, TypeOK
  <2>6. \A t \in Threads : activeTurnId'[t] \notin terminal'
    <3>1. CASE activeTurnId[v] \notin {0, m.turn} /\ UNCHANGED activeTurnId
      BY <2>3, <2>4, <3>1 DEF NoResurrection
    <3>2. CASE activeTurnId' = [activeTurnId EXCEPT ![v] = 0]
      BY <1>1, <2>3, <2>4, <3>2 DEF NoResurrection, TypeOK
    <3>3. QED
      BY <1>5, <2>1, <3>1, <3>2 DEF ReadCompleted, Drain
  <2>7. QED
    BY <2>5, <2>6 DEF NoResurrection
<1>6. QED
  <2>1. CASE \/ \E v \in Threads, k \in Kinds : ClientRequest(v, k)
             \/ FlushDeferred \/ RaiseBarrier \/ LowerBarrier \/ ChildTake \/ UNCHANGED vars
             \/ \E a \in owed : ChildAnswer(a)
             \/ \E t \in Threads : ChildFinish(t) \/ ChildGoalTurn(t)
    <3>1. UNCHANGED <<activeTurns, activeTurnId, terminal>>
      BY <2>1 DEF ClientRequest, FlushDeferred, Admit, RaiseBarrier, LowerBarrier, ChildTake,
                  ChildAccept, ChildRefuse, ChildSteer, ChildAnswer, ChildFinish, ChildGoalTurn,
                  vars, queueVars, tableVars
    <3>2. QED
      BY <1>2, <3>1
  <2>2. QED
    BY <1>3, <1>4, <1>5, <2>1 DEF Next, Read

LEMMA NamesInit ==
  ASSUME Init
  PROVE  NamesInv
BY SessionQueueAssumption
   DEF Init, NamesInv, Names, QueueNames, DeferredNames, StdinNames, OwedNames, PipeNames,
       RunsNames, ActiveNames, CoordNames, LinesName, Turns

(* A turn whose completion has been read is not shown as running again,     *)
(* however late the answer of its start or its turn/started arrives.        *)
THEOREM EndedTurnsStayEnded == Spec => []NoResurrection
<1>1. Init => NamesInv /\ NoResurrection
  BY NamesInit DEF Init, NoResurrection
<1>2. TypeOK /\ NamesInv /\ NoResurrection /\ [Next]_vars => (NamesInv /\ NoResurrection)'
  BY NamesStep, NoResurrectionStep
<1>3. QED
  BY <1>1, <1>2, TypeCorrect, PTL DEF Spec

-----------------------------------------------------------------------------
(* What the shim's tables know of the turn that the child runs.             *)

Lines(s) == {s[n] : n \in 1..Len(s)}
Answers == owed \cup {m \in Response : \E u \in Threads : m \in Lines(fromChild[u])}
Ended(t, i) == [type |-> "completed", turn |-> i] \in Lines(fromChild[t])

(* Every notification in a pipe has the answer to request i behind it.      *)
Trailed(s, i) ==
  \A n \in 1..Len(s) : s[n].type # "response" =>
    \E k \in 1..Len(s) : k > n /\ s[k].type = "response" /\ s[k].req.id = i

(* A queue holds starts of its thread, a pipe answers of its thread.        *)
OwnQueue == \A t \in Threads : \A r \in Lines(queue[t]) : r.thread = t /\ r.kind = "start"
OwnPipe ==
  \A t \in Threads : \A m \in Lines(fromChild[t]) : m.type = "response" => m.req.thread = t

(* Work that the child has before it, or has answered, is submitted.        *)
SubmittedIn(sub) ==
  /\ \A r \in Lines(toChild) : WorkStart(r) => r \in sub
  /\ \A a \in Answers : WorkStart(a.req) => a.req \in sub

AllWork(sub) == \A r \in sub : WorkStart(r)

(* A turn of the client's is answered after all that its thread has told.   *)
AnswerTrails ==
  \A t \in Threads : childTurn[t] \in Ids =>
    InOwed(childTurn[t]) \/ Trailed(fromChild[t], childTurn[t])

(* An accepted request runs, or its end is told, or its end has been read.  *)
OkHasRun ==
  \A a \in Answers : a.result = "ok" /\ WorkStart(a.req) =>
    \/ childTurn[a.req.thread] = a.req.id
    \/ Ended(a.req.thread, a.req.id)
    \/ a.req.id \in terminal

RunningIsOk ==
  \A t \in Threads : childTurn[t] \in Ids =>
    /\ childTurn[t] \notin terminal
    /\ \A u \in Threads : ~Ended(u, childTurn[t])
    /\ \A a \in Answers : a.req.id = childTurn[t] => a.result = "ok" /\ WorkStart(a.req)

(* A request that has run is answered, or its acceptance is on its way.     *)
Ran(i) == i \in terminal \/ \E t \in Threads : childTurn[t] = i \/ Ended(t, i)
RanIsAnswered ==
  \A i \in Ids : Ran(i) =>
    answers[i] > 0 \/ \E a \in Answers : a.req.id = i /\ a.result = "ok"

(* The tables sub and act show the turn of the client's that a thread runs. *)
RunKnown(sub, act) ==
  \A t \in Threads : childTurn[t] \in Ids =>
    (\E r \in sub : r.id = childTurn[t] /\ r.thread = t) \/ act[t] = childTurn[t]

(* Before a start in the child's stdin there is no work of its thread.      *)
StartsAlone ==
  \A n \in 1..Len(toChild) : toChild[n].kind = "start" =>
    /\ childTurn[toChild[n].thread] \notin Ids
    /\ \A k \in 1..Len(toChild) :
         k < n /\ WorkStart(toChild[k]) => toChild[k].thread # toChild[n].thread

PathInv ==
  /\ OwnQueue /\ OwnPipe /\ SubmittedIn(submitted) /\ AllWork(submitted)
  /\ AnswerTrails /\ OkHasRun /\ RunningIsOk
  /\ RanIsAnswered /\ RunKnown(submitted, activeTurns) /\ StartsAlone

LEMMA LinesAppend ==
  ASSUME NEW S, NEW s \in Seq(S), NEW x \in S
  PROVE  Lines(Append(s, x)) = Lines(s) \cup {x}
<1>1. /\ Len(Append(s, x)) = Len(s) + 1 /\ Append(s, x)[Len(s) + 1] = x /\ Len(s) \in Nat
      /\ \A n \in 1..Len(s) : Append(s, x)[n] = s[n] /\ n \in 1..Len(s) + 1
      /\ \A n \in 1..Len(s) + 1 : n \in 1..Len(s) \/ n = Len(s) + 1
      /\ Len(s) + 1 \in 1..Len(s) + 1
  OBVIOUS
<1>2. QED
  BY <1>1 DEF Lines

LEMMA LinesTail ==
  ASSUME NEW S, NEW s \in Seq(S), s # <<>>
  PROVE  Lines(s) = {Head(s)} \cup Lines(Tail(s))
<1>1. /\ Head(s) = s[1] /\ 1 \in 1..Len(s) /\ Len(Tail(s)) = Len(s) - 1 /\ Len(s) \in Nat
      /\ \A n \in 1..Len(s) - 1 : Tail(s)[n] = s[n + 1] /\ n + 1 \in 1..Len(s)
      /\ \A n \in 1..Len(s) : n = 1 \/ (n - 1 \in 1..Len(s) - 1 /\ Tail(s)[n - 1] = s[n])
  OBVIOUS
<1>2. Head(s) \in Lines(s) /\ Lines(Tail(s)) \subseteq Lines(s)
  BY <1>1 DEF Lines
<1>3. ASSUME NEW x \in Lines(s), x # Head(s)
      PROVE  x \in Lines(Tail(s))
  <2>1. PICK n \in 1..Len(s) : s[n] = x
    BY <1>3 DEF Lines
  <2>2. n - 1 \in 1..Len(Tail(s)) /\ Tail(s)[n - 1] = x
    BY <1>1, <1>3, <2>1
  <2>3. QED
    BY <2>2 DEF Lines
<1>4. QED
  BY <1>2, <1>3

LEMMA TrailedTail ==
  ASSUME NEW s \in Seq(Messages), s # <<>>, NEW i, Trailed(s, i)
  PROVE  Trailed(Tail(s), i)
<1>1. /\ Len(Tail(s)) = Len(s) - 1 /\ Len(s) \in Nat
      /\ \A n \in 1..Len(s) - 1 : Tail(s)[n] = s[n + 1] /\ n + 1 \in 1..Len(s)
      /\ \A n \in 1..Len(s) : n = 1 \/ (n - 1 \in 1..Len(s) - 1 /\ Tail(s)[n - 1] = s[n])
  OBVIOUS
<1>2. SUFFICES ASSUME NEW n \in 1..Len(s) - 1, Tail(s)[n].type # "response"
               PROVE  \E k \in 1..Len(s) - 1 :
                        k > n /\ Tail(s)[k].type = "response" /\ Tail(s)[k].req.id = i
  BY <1>1 DEF Trailed
<1>3. s[n + 1].type # "response" /\ n + 1 \in 1..Len(s)
  BY <1>1, <1>2
<1>4. PICK k \in 1..Len(s) : k > n + 1 /\ s[k].type = "response" /\ s[k].req.id = i
  BY <1>3 DEF Trailed
<1>5. k # 1 /\ k - 1 > n
  BY <1>4
<1>6. k - 1 \in 1..Len(s) - 1 /\ Tail(s)[k - 1] = s[k]
  BY <1>1, <1>5
<1>7. QED
  BY <1>4, <1>5, <1>6

LEMMA TrailedAppend ==
  ASSUME NEW s \in Seq(Messages), NEW x \in Messages, x.type = "response", NEW i,
         Trailed(s, i) \/ x.req.id = i
  PROVE  Trailed(Append(s, x), i)
<1>1. /\ Len(Append(s, x)) = Len(s) + 1 /\ Append(s, x)[Len(s) + 1] = x /\ Len(s) \in Nat
      /\ \A n \in 1..Len(s) : Append(s, x)[n] = s[n] /\ n \in 1..Len(s) + 1
      /\ Len(s) + 1 \in 1..Len(s) + 1
  OBVIOUS
<1>2. SUFFICES ASSUME NEW n \in 1..Len(s) + 1, Append(s, x)[n].type # "response"
               PROVE  \E k \in 1..Len(s) + 1 :
                        k > n /\ Append(s, x)[k].type = "response" /\ Append(s, x)[k].req.id = i
  BY <1>1 DEF Trailed
<1>3. n \in 1..Len(s) /\ s[n].type # "response" /\ Len(s) + 1 > n
  BY <1>1, <1>2
<1>4. CASE x.req.id = i
  BY <1>1, <1>3, <1>4
<1>5. CASE Trailed(s, i)
  <2>1. PICK k \in 1..Len(s) : k > n /\ s[k].type = "response" /\ s[k].req.id = i
    BY <1>3, <1>5 DEF Trailed
  <2>2. QED
    BY <1>1, <2>1
<1>6. QED
  BY <1>4, <1>5

(* With no answer to i in it, such a pipe tells of nothing.                 *)
LEMMA TrailedQuiet ==
  ASSUME NEW s \in Seq(Messages), NEW i, Trailed(s, i), ~Told(s, i)
  PROVE  \A m \in Lines(s) : m.type = "response"
BY DEF Trailed, Told, Lines

LEMMA InPipeAnswers ==
  ASSUME TypeOK
  PROVE  /\ Answers \subseteq Response
         /\ \A a \in Answers : InOwed(a.req.id) \/ InPipe(a.req.id)
         /\ \A i : InOwed(i) \/ InPipe(i) => \E a \in Answers : a.req.id = i
<1>1. \A u \in Threads : \A n \in 1..Len(fromChild[u]) :
        fromChild[u][n] \in Response \cup Notification
  BY DEF TypeOK
<1>2. \A a \in Response : a.type = "response"
  BY DEF Response
<1>3. \A m \in Response \cup Notification : m.type = "response" => m \in Response
  BY DEF Response, Notification
<1>4. owed \subseteq Response
  BY DEF TypeOK
<1>5. ASSUME NEW a \in Answers
      PROVE  InOwed(a.req.id) \/ InPipe(a.req.id)
  BY <1>2, <1>4 DEF Answers, InOwed, InPipe, Told, Lines
<1>6. ASSUME NEW i, InOwed(i) \/ InPipe(i)
      PROVE  \E a \in Answers : a.req.id = i
  BY <1>1, <1>3, <1>6 DEF Answers, InOwed, InPipe, Told, Lines
<1>7. QED
  BY <1>4, <1>5, <1>6 DEF Answers

LEMMA InStdinLines ==
  /\ \A r \in Lines(toChild) : InStdin(r.id)
  /\ \A i : InStdin(i) => \E r \in Lines(toChild) : r.id = i
BY DEF InStdin, Held, Lines

(* A pipe read by one line, and a pipe written by one line.                 *)
LEMMA PipeRead ==
  ASSUME TypeOK, NEW v \in Threads, fromChild[v] # <<>>, UNCHANGED owed,
         fromChild' = [fromChild EXCEPT ![v] = Tail(fromChild[v])]
  PROVE  /\ Answers' \subseteq Answers
         /\ Head(fromChild[v]) \in Lines(fromChild[v])
         /\ \A a \in Answers : a \in Answers' \/ a = Head(fromChild[v])
         /\ \A t \in Threads : Lines(fromChild'[t]) \subseteq Lines(fromChild[t])
         /\ \A t \in Threads, i \in Turns : Ended(t, i) =>
              Ended(t, i)' \/ Head(fromChild[v]) = [type |-> "completed", turn |-> i]
         /\ AnswerTrails => \A t \in Threads : childTurn[t] \in Ids =>
              InOwed(childTurn[t]) \/ Trailed(fromChild'[t], childTurn[t])
<1>1. /\ \A u \in Threads : fromChild[u] \in Seq(Messages)
      /\ \A u \in Threads : fromChild'[u] = IF u = v THEN Tail(fromChild[v]) ELSE fromChild[u]
  BY DEF TypeOK, Messages
<1>2. Lines(fromChild[v]) = {Head(fromChild[v])} \cup Lines(fromChild'[v])
  BY <1>1, LinesTail
<1>3. \A t \in Threads : Lines(fromChild'[t]) \subseteq Lines(fromChild[t])
  BY <1>1, <1>2
<1>4. Answers' \subseteq Answers /\ \A a \in Answers : a \in Answers' \/ a = Head(fromChild[v])
  BY <1>1, <1>2, <1>3 DEF Answers
<1>5. \A t \in Threads, i \in Turns : Ended(t, i) =>
        Ended(t, i)' \/ Head(fromChild[v]) = [type |-> "completed", turn |-> i]
  BY <1>1, <1>2 DEF Ended
<1>6. ASSUME AnswerTrails, NEW t \in Threads, childTurn[t] \in Ids
      PROVE  InOwed(childTurn[t]) \/ Trailed(fromChild'[t], childTurn[t])
  <2>1. CASE t = v
    BY <1>1, <1>6, <2>1, TrailedTail DEF AnswerTrails
  <2>2. CASE t # v
    BY <1>1, <1>6, <2>2 DEF AnswerTrails
  <2>3. QED
    BY <2>1, <2>2
<1>7. QED
  BY <1>2, <1>3, <1>4, <1>5, <1>6

LEMMA PipeWritten ==
  ASSUME TypeOK, NEW v \in Threads, NEW x \in Messages,
         fromChild' = [fromChild EXCEPT ![v] = Append(fromChild[v], x)]
  PROVE  /\ \A t \in Threads :
              Lines(fromChild'[t]) = IF t = v THEN Lines(fromChild[v]) \cup {x} ELSE Lines(fromChild[t])
         /\ \A t \in Threads, i \in Turns : Ended(t, i)' <=>
              Ended(t, i) \/ (t = v /\ x = [type |-> "completed", turn |-> i])
<1>1. fromChild[v] \in Seq(Messages)
  BY DEF TypeOK, Messages
<1>2. \A t \in Threads :
        Lines(fromChild'[t]) = IF t = v THEN Lines(fromChild[v]) \cup {x} ELSE Lines(fromChild[t])
  <2>1. Lines(Append(fromChild[v], x)) = Lines(fromChild[v]) \cup {x}
    BY <1>1, LinesAppend
  <2>2. QED
    BY <2>1 DEF TypeOK
<1>3. ASSUME NEW t \in Threads, NEW i \in Turns
      PROVE  Ended(t, i)' <=> Ended(t, i) \/ (t = v /\ x = [type |-> "completed", turn |-> i])
  <2>1. CASE t = v
    BY <1>2, <2>1 DEF Ended
  <2>2. CASE t # v
    BY <1>2, <2>2 DEF Ended
  <2>3. QED
    BY <2>1, <2>2
<1>4. QED
  BY <1>2, <1>3

(* A start joins the child's stdin when no work of its thread is there.     *)
LEMMA StartAppended ==
  ASSUME TypeOK, StartsAlone, NEW x \in Request, toChild' = Append(toChild, x), UNCHANGED childTurn,
         x.kind = "start" => /\ childTurn[x.thread] \notin Ids
                             /\ \A r \in Lines(toChild) : WorkStart(r) => r.thread # x.thread
  PROVE  StartsAlone'
<1>1. toChild \in Seq(Request)
  BY DEF TypeOK
<1>2. /\ Len(toChild') = Len(toChild) + 1 /\ toChild'[Len(toChild) + 1] = x /\ Len(toChild) \in Nat
      /\ \A n \in 1..Len(toChild) : toChild'[n] = toChild[n]
      /\ \A n \in 1..Len(toChild) + 1 : n \in 1..Len(toChild) \/ n = Len(toChild) + 1
  BY <1>1
<1>3. SUFFICES ASSUME NEW n \in 1..Len(toChild) + 1, toChild'[n].kind = "start"
               PROVE  /\ childTurn[toChild'[n].thread] \notin Ids
                      /\ \A k \in 1..Len(toChild) + 1 :
                           k < n /\ WorkStart(toChild'[k]) => toChild'[k].thread # toChild'[n].thread
  BY <1>2 DEF StartsAlone
<1>4. CASE n \in 1..Len(toChild)
  <2>1. toChild'[n] = toChild[n] /\ \A k \in 1..Len(toChild) + 1 : k < n => k \in 1..Len(toChild)
    BY <1>2, <1>4
  <2>2. QED
    BY <1>2, <1>3, <1>4, <2>1 DEF StartsAlone
<1>5. CASE n = Len(toChild) + 1
  <2>1. toChild'[n] = x /\ \A k \in 1..Len(toChild) + 1 : k < n => k \in 1..Len(toChild)
    BY <1>2, <1>5
  <2>2. \A k \in 1..Len(toChild) : toChild[k] \in Lines(toChild)
    BY DEF Lines
  <2>3. QED
    BY <1>2, <1>3, <2>1, <2>2
<1>6. QED
  BY <1>2, <1>4, <1>5

(* A line let through the barrier.                                          *)
LEMMA AdmitPath ==
  ASSUME TypeOK, PathInv, NEW r \in Request, Admit(r), UNCHANGED <<owed, fromChild, childTurn>>
  PROVE  /\ OwnQueue' /\ SubmittedIn(submitted)' /\ RunKnown(submitted, activeTurns)'
         /\ AllWork(submitted)' /\ StartsAlone'
<1>1. toChild \in Seq(Request) /\ r.thread \in Threads /\ queue[r.thread] \in Seq(Request)
  BY DEF TypeOK, Request
<1>2. OwnQueue'
  <2>1. CASE Enqueue(r)
    <3>1. Lines(Append(queue[r.thread], r)) = Lines(queue[r.thread]) \cup {r}
      BY <1>1, LinesAppend
    <3>2. QED
      BY <2>1, <3>1 DEF Enqueue, PathInv, OwnQueue, TypeOK
  <2>2. CASE UNCHANGED queue
    BY <2>2 DEF PathInv, OwnQueue
  <2>3. QED
    BY <2>1, <2>2 DEF Admit, RejectFull, ForwardStart, ForwardOther
<1>3. submitted \subseteq submitted' /\ UNCHANGED activeTurns /\ AllWork(submitted)'
  BY DEF Admit, Enqueue, RejectFull, ForwardStart, ForwardOther, PathInv, AllWork, WorkStart
<1>4. RunKnown(submitted, activeTurns)'
  BY <1>3 DEF PathInv, RunKnown
<1>5. Answers' = Answers
  BY DEF Answers
<1>6. CASE toChild' = Append(toChild, r)
  <2>1. Lines(toChild') = Lines(toChild) \cup {r}
    BY <1>1, <1>6, LinesAppend
  <2>2. WorkStart(r) => r \in submitted'
    <3>1. toChild' # toChild
      BY <1>1, <1>6
    <3>2. QED
      BY <3>1 DEF Admit, Enqueue, RejectFull, ForwardStart, ForwardOther
  <2>3. SubmittedIn(submitted)'
    BY <1>3, <1>5, <2>1, <2>2 DEF PathInv, SubmittedIn
  <2>4. r.kind = "start" => ~IsBusy(r.thread)
    <3>1. toChild' # toChild
      BY <1>1, <1>6
    <3>2. QED
      BY <3>1 DEF Admit, Enqueue, RejectFull, ForwardStart, ForwardOther
  <2>5. r.kind = "start" => /\ childTurn[r.thread] \notin Ids
                            /\ \A x \in Lines(toChild) : WorkStart(x) => x.thread # r.thread
    <3>1. 0 \notin Ids
      BY SessionQueueAssumption DEF Ids
    <3>2. QED
      BY <1>1, <2>4, <3>1 DEF IsBusy, RuntimeBusy, PathInv, RunKnown, SubmittedIn
  <2>6. StartsAlone'
    BY <1>6, <2>5, StartAppended DEF PathInv
  <2>7. QED
    BY <1>2, <1>3, <1>4, <2>3, <2>6
<1>7. CASE UNCHANGED toChild
  <2>1. SubmittedIn(submitted)'
    BY <1>3, <1>5, <1>7 DEF PathInv, SubmittedIn
  <2>2. StartsAlone'
    BY <1>7 DEF PathInv, StartsAlone
  <2>3. QED
    BY <1>2, <1>3, <1>4, <2>1, <2>2
<1>8. QED
  BY <1>6, <1>7 DEF Admit, Enqueue, RejectFull, ForwardStart, ForwardOther

(* A queued start that a drain hands to the child.                          *)
LEMMA DrainPath ==
  ASSUME TypeOK, OwnQueue, StartsAlone, NEW t \in Threads, NEW sub, NEW act, NEW pend,
         Drain(t, sub, act, pend), RunKnown(sub, act),
         \A r \in Lines(toChild) : WorkStart(r) => r \in sub, AllWork(sub), UNCHANGED childTurn
  PROVE  /\ OwnQueue' /\ StartsAlone' /\ sub \subseteq submitted'
         /\ \A r \in submitted' : WorkStart(r)
         /\ \A r \in Lines(toChild') : WorkStart(r) => r \in submitted'
<1>1. toChild \in Seq(Request) /\ queue[t] \in Seq(Request)
  BY DEF TypeOK
<1>2. sub \subseteq submitted'
  BY DEF Drain, DrainNone, DrainToDeferred, DrainToQueue, DrainToChild
<1>3. CASE DrainNone(t, sub, pend)
  BY <1>3 DEF DrainNone, StartsAlone, OwnQueue, AllWork
<1>4. CASE queue[t] # <<>>
  <2>1. PICK r \in Request : r = Head(queue[t])
    BY <1>1, <1>4, HeadTailType
  <2>2. Lines(queue[t]) = {r} \cup Lines(Tail(queue[t])) /\ r.thread = t /\ r.kind = "start"
    BY <1>1, <1>4, <2>1, LinesTail DEF OwnQueue
  <2> \A x \in submitted' : WorkStart(x)
    BY <2>1, <2>2 DEF Drain, DrainNone, DrainToDeferred, DrainToQueue, DrainToChild, AllWork, WorkStart
  <2>3. OwnQueue'
    <3>1. Lines(Append(Tail(queue[t]), r)) = Lines(queue[t])
      <4>1. Tail(queue[t]) \in Seq(Request)
        BY <1>1, <1>4, HeadTailType
      <4>2. \A q \in Seq(Request), x \in Request : Lines(Append(q, x)) = Lines(q) \cup {x}
        BY LinesAppend
      <4>3. QED
        BY <2>1, <2>2, <4>1, <4>2
    <3>2. \/ queue' = queue
          \/ queue' = [queue EXCEPT ![t] = Tail(queue[t])]
          \/ queue' = [queue EXCEPT ![t] = Append(Tail(queue[t]), r)]
      BY <2>1 DEF Drain, DrainNone, DrainToDeferred, DrainToQueue, DrainToChild
    <3>3. Lines(queue'[t]) \subseteq Lines(queue[t])
      BY <2>2, <3>1, <3>2 DEF TypeOK
    <3>4. \A u \in Threads : u # t => queue'[u] = queue[u]
      BY <3>2 DEF TypeOK
    <3>5. QED
      BY <3>3, <3>4 DEF OwnQueue
  <2>4. CASE UNCHANGED toChild
    BY <1>2, <2>3, <2>4 DEF StartsAlone
  <2>5. CASE toChild' # toChild
    <3>1. toChild' = Append(toChild, r) /\ r \in submitted' /\ ~RuntimeBusy(t, sub, act)
      BY <2>1, <2>5 DEF Drain, DrainNone, DrainToDeferred, DrainToQueue, DrainToChild
    <3>2. Lines(toChild') = Lines(toChild) \cup {r}
      BY <1>1, <3>1, LinesAppend
    <3>3. childTurn[t] \notin Ids /\ \A x \in Lines(toChild) : WorkStart(x) => x.thread # t
      <4>1. 0 \notin Ids
        BY SessionQueueAssumption DEF Ids
      <4>2. QED
        BY <3>1, <4>1 DEF RuntimeBusy, RunKnown
    <3>4. StartsAlone'
      BY <2>2, <3>1, <3>3, StartAppended
    <3>5. QED
      BY <1>2, <2>3, <3>1, <3>2, <3>4
  <2>6. QED
    BY <2>4, <2>5
<1>5. QED
  BY <1>3, <1>4 DEF Drain, DrainToDeferred, DrainToQueue, DrainToChild

(* What a step says that touches neither the child nor its pipes.           *)
LEMMA PathKept ==
  ASSUME TypeOK, PathInv, UNCHANGED <<owed, fromChild, childTurn, terminal>>,
         \A i \in Ids : answers'[i] = answers[i] \/ answers'[i] = answers[i] + 1
  PROVE  /\ OwnPipe' /\ AnswerTrails' /\ OkHasRun' /\ RunningIsOk' /\ RanIsAnswered'
         /\ Answers' = Answers
<1>1. Answers' = Answers /\ \A t \in Threads, i \in Turns : Ended(t, i)' <=> Ended(t, i)
  BY DEF Answers, Ended
<1>2. OwnPipe' /\ AnswerTrails'
  BY DEF PathInv, OwnPipe, AnswerTrails, InOwed
<1>3. \A i \in Ids : i \in Turns
  BY SessionQueueAssumption DEF Ids, Turns
<1>4. OkHasRun'
  <2>1. \A a \in Answers : a.req.id \in Ids /\ a.req.thread \in Threads
    BY InPipeAnswers DEF Response, Request
  <2>2. QED
    BY <1>1, <1>3, <2>1 DEF PathInv, OkHasRun
<1>5. RunningIsOk'
  BY <1>1, <1>3 DEF PathInv, RunningIsOk
<1>6. RanIsAnswered'
  <2>1. \A i \in Ids : Ran(i)' => Ran(i)
    BY <1>1, <1>3 DEF Ran
  <2>2. \A i \in Ids : answers[i] > 0 => answers'[i] > 0
    <3>1. \A i \in Ids : answers[i] \in Nat
      BY DEF TypeOK
    <3>2. QED
      BY <3>1
  <2>3. QED
    BY <1>1, <2>1, <2>2 DEF PathInv, RanIsAnswered
<1>7. QED
  BY <1>1, <1>2, <1>4, <1>5, <1>6

LEMMA AdmitAnswers ==
  ASSUME TypeOK, NEW r \in Request, Admit(r)
  PROVE  /\ \A i \in Ids : answers'[i] = answers[i] \/ answers'[i] = answers[i] + 1
         /\ UNCHANGED terminal
BY DEF Admit, Enqueue, RejectFull, ForwardStart, ForwardOther, Request, TypeOK

LEMMA RequestPath ==
  ASSUME TypeOK, PathInv, NEW v \in Threads, NEW k \in Kinds, ClientRequest(v, k)
  PROVE  PathInv'
<1>1. PICK r : r = [id |-> nextId, thread |-> v, kind |-> k]
  OBVIOUS
<1>2. r \in Request
  BY <1>1, SessionQueueAssumption DEF ClientRequest, Request, Ids, TypeOK
<1>3. UNCHANGED <<owed, fromChild, childTurn>>
  BY DEF ClientRequest, childVars
<1>4. CASE Admit(r)
  BY <1>2, <1>3, <1>4, AdmitPath, AdmitAnswers, PathKept DEF PathInv
<1>5. CASE UNCHANGED <<queue, submitted, activeTurns, terminal, toChild, answers>>
  <2>1. OwnPipe' /\ AnswerTrails' /\ OkHasRun' /\ RunningIsOk' /\ RanIsAnswered' /\ Answers' = Answers
    BY <1>3, <1>5, PathKept
  <2>2. /\ OwnQueue' /\ SubmittedIn(submitted)' /\ AllWork(submitted)'
        /\ RunKnown(submitted, activeTurns)' /\ StartsAlone'
    BY <1>3, <1>5, <2>1 DEF PathInv, OwnQueue, SubmittedIn, AllWork, RunKnown, StartsAlone
  <2>3. QED
    BY <2>1, <2>2 DEF PathInv
<1>6. QED
  BY <1>1, <1>4, <1>5 DEF ClientRequest, queueVars

LEMMA FlushPath ==
  ASSUME TypeOK, PathInv, FlushDeferred
  PROVE  PathInv'
<1>1. PICK r \in Request : r = Head(deferred)
  BY HeadTailType DEF FlushDeferred, TypeOK
<1>2. Admit(r) /\ UNCHANGED <<owed, fromChild, childTurn>>
  BY <1>1 DEF FlushDeferred, childVars
<1>3. QED
  BY <1>2, AdmitPath, AdmitAnswers, PathKept DEF PathInv

LEMMA BarrierPath ==
  ASSUME TypeOK, PathInv, RaiseBarrier \/ LowerBarrier \/ UNCHANGED vars
  PROVE  PathInv'
<1>1. UNCHANGED <<queue, submitted, activeTurns, terminal, toChild, answers, owed, fromChild, childTurn>>
  BY DEF RaiseBarrier, LowerBarrier, vars, queueVars, tableVars, childVars
<1>2. OwnPipe' /\ AnswerTrails' /\ OkHasRun' /\ RunningIsOk' /\ RanIsAnswered' /\ Answers' = Answers
  BY <1>1, PathKept
<1>3. /\ OwnQueue' /\ SubmittedIn(submitted)' /\ AllWork(submitted)'
      /\ RunKnown(submitted, activeTurns)' /\ StartsAlone'
  BY <1>1, <1>2 DEF PathInv, OwnQueue, SubmittedIn, AllWork, RunKnown, StartsAlone
<1>4. QED
  BY <1>2, <1>3 DEF PathInv

(* A turn that its thread shows only as its active turn has been answered:  *)
(* its thread's pipe has nothing more to tell.                              *)
LEMMA KnownQuiet ==
  ASSUME TypeOK, NamesInv, PathInv, NEW t \in Threads, childTurn[t] \in Ids,
         ~\E x \in submitted : x.id = childTurn[t] /\ x.thread = t
  PROVE  /\ activeTurns[t] = childTurn[t]
         /\ \A x \in Lines(fromChild[t]) : x.type = "response"
<1>0. \A i \in Ids : i \in Turns
  BY SessionQueueAssumption DEF Ids, Turns
<1>1. activeTurns[t] = childTurn[t]
  BY DEF PathInv, RunKnown
<1>2. \A a \in Answers : a.req.id # childTurn[t]
  <2>1. \A a \in Answers : a.req.id = childTurn[t] => a.req \in submitted
    BY DEF PathInv, RunningIsOk, SubmittedIn
  <2>2. \A a \in Answers : a.req.id = childTurn[t] => a.req.thread = t
    <3> SUFFICES ASSUME NEW a \in Answers, a.req.id = childTurn[t]
                 PROVE  a.req.thread = t
      OBVIOUS
    <3>1. a.req.thread \in Threads
      BY InPipeAnswers DEF Response, Request
    <3>2. Names(childTurn[t], a.req.thread)
      <4>1. a \in owed => OwedNames(childTurn[t], a.req.thread)
        BY DEF OwedNames
      <4>2. a \notin owed => PipeNames(childTurn[t], a.req.thread)
        BY DEF Answers, Response, Lines, PipeNames, Says
      <4>3. QED
        BY <4>1, <4>2 DEF Names
    <3>3. Names(childTurn[t], t)
      BY DEF Names, RunsNames
    <3>4. QED
      BY <1>0, <3>1, <3>2, <3>3 DEF NamesInv
  <2>3. QED
    BY <2>1, <2>2
<1>3. ~InOwed(childTurn[t]) /\ ~Told(fromChild[t], childTurn[t])
  BY <1>2, InPipeAnswers DEF InPipe
<1>4. \A x \in Lines(fromChild[t]) : x.type = "response"
  <2>1. fromChild[t] \in Seq(Messages) /\ Trailed(fromChild[t], childTurn[t])
    BY <1>3 DEF PathInv, AnswerTrails, TypeOK, Messages
  <2>2. QED
    BY <1>3, <2>1, TrailedQuiet
<1>5. QED
  BY <1>1, <1>4

(* The tables after an answer, and what they know before the drain.         *)
LEMMA ResponsePath ==
  ASSUME TypeOK, PlacesInv, NamesInv, PathInv, NEW v \in Threads, ReadResponse(v)
  PROVE  PathInv'
<1>1. PICK m : m = Head(fromChild[v])
  OBVIOUS
<1>2. fromChild[v] # <<>> /\ m.type = "response" /\ fromChild' = [fromChild EXCEPT ![v] = Tail(@)]
      /\ UNCHANGED <<nextId, terminal, owed, childTurn>>
  BY <1>1 DEF ReadResponse, childVars
<1>3. /\ Answers' \subseteq Answers /\ m \in Lines(fromChild[v])
      /\ \A a \in Answers : a \in Answers' \/ a = m
      /\ \A t \in Threads : Lines(fromChild'[t]) \subseteq Lines(fromChild[t])
      /\ \A t \in Threads, i \in Turns : Ended(t, i) =>
           Ended(t, i)' \/ m = [type |-> "completed", turn |-> i]
      /\ \A t \in Threads : childTurn[t] \in Ids =>
           InOwed(childTurn[t]) \/ Trailed(fromChild'[t], childTurn[t])
  BY <1>1, <1>2, PipeRead DEF PathInv
<1>4. m \in Response /\ m \in Answers
  <2>1. m \in Response \cup Notification
    BY <1>1, <1>2, HeadTailType DEF TypeOK
  <2>2. m \in Response
    BY <1>2, <2>1 DEF Response, Notification
  <2>3. QED
    BY <1>3, <2>2 DEF Answers
<1>5. PICK r \in Request : r = m.req
  BY <1>4 DEF Response
<1>6. r.id \in Ids /\ r.thread = v
  BY <1>2, <1>3, <1>5 DEF PathInv, OwnPipe, Request
<1>7. \A i \in Ids : i \in Turns
  BY SessionQueueAssumption DEF Ids, Turns
<1>8. /\ ~InOwed(r.id) /\ ~InPipe(r.id)' /\ ~InStdin(r.id) /\ answers[r.id] = 0
  <2>1. InPipe(r.id) /\ \A i \in Ids : InPipe(i)' <=> InPipe(i) /\ i # r.id
    BY <1>1, <1>2, <1>5, <1>6, PipeLoses DEF PlacesInv, EachOnce
  <2>2. QED
    BY <1>6, <2>1, OnePlaceApart
<1>9. /\ \A x \in Lines(toChild) : x.id # r.id
      /\ \A a \in Answers' : a.req.id # r.id
  <2>1. \A x \in Lines(toChild) : x.id # r.id
    BY <1>8, InStdinLines
  <2>2. ASSUME NEW a \in Answers', a.req.id = r.id
        PROVE  FALSE
    <3>1. a \in owed \/ \E u \in Threads : a \in Lines(fromChild'[u]) /\ a \in Response
      BY <1>2 DEF Answers
    <3>2. a \notin owed
      BY <1>8, <2>2 DEF InOwed
    <3>3. PICK u \in Threads : a \in Lines(fromChild'[u]) /\ a.type = "response"
      BY <3>1, <3>2 DEF Response
    <3>4. QED
      BY <1>8, <2>2, <3>3 DEF InPipe, Told, Lines
  <2>3. QED
    BY <2>1, <2>2
<1>10. OwnPipe'
  BY <1>3 DEF PathInv, OwnPipe
<1>11. AnswerTrails'
  BY <1>2, <1>3 DEF AnswerTrails, InOwed
<1>12. \A t \in Threads, i \in Turns : Ended(t, i)' <=> Ended(t, i)
  <2>1. \A i \in Turns : m # [type |-> "completed", turn |-> i]
    BY <1>2
  <2>2. \A t \in Threads, i \in Turns : Ended(t, i)' => Ended(t, i)
    BY <1>3 DEF Ended
  <2>3. QED
    BY <1>3, <2>1, <2>2
<1>13. OkHasRun'
  <2>1. \A a \in Answers : a.req.id \in Ids /\ a.req.thread \in Threads
    BY InPipeAnswers DEF Response, Request
  <2>2. QED
    BY <1>2, <1>3, <1>7, <1>12, <2>1 DEF PathInv, OkHasRun
<1>14. RunningIsOk'
  BY <1>2, <1>3, <1>7, <1>12 DEF PathInv, RunningIsOk
<1> DEFINE ok == m.result = "ok"
           sub == SubmittedAfter(r)
           act == ActiveAfter(r, ok)
<1>15. RunKnown(sub, act)
  <2> SUFFICES ASSUME NEW t \in Threads, childTurn[t] \in Ids
               PROVE  (\E x \in sub : x.id = childTurn[t] /\ x.thread = t) \/ act[t] = childTurn[t]
    BY DEF RunKnown
  <2>1. CASE r.id = childTurn[t]
    <3>1. ok /\ WorkStart(r) /\ r.id \notin terminal
      BY <1>4, <1>5, <2>1 DEF PathInv, RunningIsOk
    <3>2. r \in submitted
      BY <1>4, <1>5, <3>1 DEF PathInv, SubmittedIn
    <3>3. t = v
      <4>1. PipeNames(r.id, v)
        BY <1>1, <1>2, <1>5, <1>6, <1>7, PipeNamesLose DEF Says
      <4>2. QED
        BY <1>6, <1>7, <2>1, <4>1 DEF NamesInv, Names, RunsNames
    <3>4. act[t] = r.id
      BY <1>6, <3>1, <3>2, <3>3 DEF ActiveAfter, StillLive, TypeOK
    <3>5. QED
      BY <2>1, <3>4
  <2>2. CASE r.id # childTurn[t]
    <3>1. CASE \E x \in submitted : x.id = childTurn[t] /\ x.thread = t
      BY <2>2, <3>1 DEF SubmittedAfter
    <3>2. CASE ~\E x \in submitted : x.id = childTurn[t] /\ x.thread = t
      <4>1. /\ activeTurns[t] = childTurn[t]
            /\ \A x \in Lines(fromChild[t]) : x.type = "response"
        BY <3>2, KnownQuiet
      <4>5. act[t] = activeTurns[t]
        <5>1. CASE t = v /\ r \in submitted /\ StillLive(r, ok)
          <6>1. Ended(v, r.id) \/ childTurn[v] = r.id
            <7>1. CASE WorkStart(r)
              BY <1>4, <1>5, <1>6, <5>1, <7>1 DEF PathInv, OkHasRun, StillLive
            <7>2. CASE ~WorkStart(r)
              BY <5>1, <7>2 DEF PathInv, AllWork
            <7>3. QED
              BY <7>1, <7>2
          <6>2. ~Ended(v, r.id)
            BY <4>1, <5>1 DEF Ended
          <6>3. QED
            BY <2>2, <5>1, <6>1, <6>2
        <5>2. CASE ~(t = v /\ r \in submitted /\ StillLive(r, ok))
          BY <1>6, <5>2 DEF ActiveAfter, TypeOK
        <5>3. QED
          BY <5>1, <5>2
      <4>6. QED
        BY <4>1, <4>5
    <3>3. QED
      BY <3>1, <3>2
  <2>3. QED
    BY <2>1, <2>2
<1>16. /\ \A x \in Lines(toChild) : WorkStart(x) => x \in sub
       /\ \A a \in Answers' : WorkStart(a.req) => a.req \in sub
       /\ AllWork(sub)
  BY <1>3, <1>9 DEF PathInv, SubmittedIn, SubmittedAfter, AllWork
<1>17. activeTurns' = act
  BY <1>1, <1>5 DEF ReadResponse
<1>18. RanIsAnswered'
  <2>1. \A i \in Ids : Ran(i)' => Ran(i)
    BY <1>2, <1>7, <1>12 DEF Ran
  <2>2. \A i \in Ids : answers'[i] >= answers[i] /\ (i = r.id /\ ok => answers'[i] > 0)
    <3>1. CASE ok
      <4>1. answers' = [answers EXCEPT ![r.id] = @ + 1]
        BY <1>1, <1>5, <3>1
           DEF ReadResponse, ReadFallbackAnswer, ReadStartAnswer, ReadOtherAnswer
      <4>2. QED
        BY <1>6, <4>1 DEF TypeOK
    <3>2. CASE ~ok
      <4>1. answers' = answers \/ answers' = [answers EXCEPT ![r.id] = @ + 1]
        BY <1>1, <1>5
           DEF ReadResponse, SteerToStart, ReadFallbackAnswer, ReadStartAnswer, ReadOtherAnswer
      <4>2. QED
        BY <1>6, <3>2, <4>1 DEF TypeOK
    <3>3. QED
      BY <3>1, <3>2
  <2>3. \A i \in Ids : answers[i] > 0 => answers'[i] > 0
    <3>1. \A i \in Ids : answers[i] \in Nat /\ answers'[i] \in Nat
      BY TypeCorrectStep DEF TypeOK, Next, Read
    <3>2. QED
      BY <2>2, <3>1
  <2>4. SUFFICES ASSUME NEW i \in Ids, NEW a \in Answers, a.req.id = i, a.result = "ok"
                 PROVE  answers'[i] > 0 \/ \E b \in Answers' : b.req.id = i /\ b.result = "ok"
    BY <2>1, <2>3 DEF PathInv, RanIsAnswered
  <2>5. CASE a = m
    BY <1>5, <2>2, <2>4, <2>5
  <2>6. CASE a # m
    BY <1>3, <2>4, <2>6
  <2>7. QED
    BY <2>5, <2>6
<1> HIDE DEF ok, sub, act
<1>19. /\ OwnQueue' /\ StartsAlone' /\ sub \subseteq submitted' /\ AllWork(submitted)'
       /\ \A x \in Lines(toChild') : WorkStart(x) => x \in submitted'
  <2>1. CASE SteerToStart(r)
    <3>1. PICK fb \in Request : fb = FallbackOf(r)
      BY DEF FallbackOf, Request
    <3>2. fb.kind = "fallback" /\ WorkStart(fb)
      BY <3>1 DEF FallbackOf, Request, WorkStart
    <3>3. UNCHANGED queue /\ sub \subseteq submitted /\ submitted \subseteq submitted'
      BY <2>1 DEF SteerToStart, sub, SubmittedAfter
    <3>4. CASE UNCHANGED <<submitted, toChild>>
      BY <1>2, <1>16, <3>3, <3>4 DEF PathInv, OwnQueue, StartsAlone, AllWork
    <3>5. CASE submitted' = submitted \cup {fb} /\ toChild' = Append(toChild, fb)
      <4>1. Lines(toChild') = Lines(toChild) \cup {fb}
        BY <3>5, LinesAppend DEF TypeOK
      <4>2. StartsAlone'
        BY <1>2, <3>2, <3>5, StartAppended DEF PathInv
      <4>3. AllWork(submitted)'
        BY <3>2, <3>5 DEF PathInv, AllWork
      <4>4. QED
        BY <1>16, <3>3, <3>5, <4>1, <4>2, <4>3 DEF PathInv, OwnQueue
    <3>6. QED
      BY <2>1, <3>1, <3>4, <3>5 DEF SteerToStart
  <2>2. CASE UNCHANGED <<queue, toChild>> /\ submitted' = sub
    BY <1>2, <1>16, <2>2 DEF PathInv, OwnQueue, StartsAlone, AllWork
  <2>3. ASSUME NEW pend, Drain(v, sub, act, pend)
        PROVE  /\ OwnQueue' /\ StartsAlone' /\ sub \subseteq submitted' /\ AllWork(submitted)'
               /\ \A x \in Lines(toChild') : WorkStart(x) => x \in submitted'
    BY <1>2, <1>15, <1>16, <2>3, DrainPath DEF PathInv, AllWork
  <2>4. QED
    <3>1. CASE ReadOtherAnswer(r)
      BY <2>2, <3>1 DEF ReadOtherAnswer, sub
    <3>2. CASE ReadFallbackAnswer(r, ok) \/ ReadStartAnswer(r, ok)
      BY <1>6, <2>2, <2>3, <3>2 DEF ReadFallbackAnswer, ReadStartAnswer, SettleStart, sub, act
    <3>3. QED
      BY <1>1, <1>5, <2>1, <3>1, <3>2 DEF ReadResponse, ok
<1>20. SubmittedIn(submitted)' /\ RunKnown(submitted, activeTurns)'
  BY <1>2, <1>15, <1>16, <1>17, <1>19 DEF SubmittedIn, RunKnown
<1>21. QED
  BY <1>10, <1>11, <1>13, <1>14, <1>18, <1>19, <1>20 DEF PathInv

(* A notification shows what its thread runs; only a quiet pipe would let   *)
(* it hide a running turn of the client's.                                  *)
LEMMA NotificationPath ==
  ASSUME TypeOK, NamesInv, PathInv, NEW v \in Threads, ReadStarted(v) \/ ReadCompleted(v)
  PROVE  PathInv'
<1>1. PICK m : m = Head(fromChild[v])
  OBVIOUS
<1>2. /\ fromChild[v] # <<>> /\ m.type \in {"started", "completed"}
      /\ fromChild' = [fromChild EXCEPT ![v] = Tail(@)]
      /\ UNCHANGED <<owed, childTurn, answers>>
  BY <1>1 DEF ReadStarted, ReadCompleted, childVars
<1>3. /\ Answers' \subseteq Answers /\ m \in Lines(fromChild[v])
      /\ \A a \in Answers : a \in Answers' \/ a = m
      /\ \A t \in Threads : Lines(fromChild'[t]) \subseteq Lines(fromChild[t])
      /\ \A t \in Threads, i \in Turns : Ended(t, i) =>
           Ended(t, i)' \/ m = [type |-> "completed", turn |-> i]
      /\ \A t \in Threads : childTurn[t] \in Ids =>
           InOwed(childTurn[t]) \/ Trailed(fromChild'[t], childTurn[t])
  BY <1>1, <1>2, PipeRead DEF PathInv
<1>4. Answers' = Answers
  <2>1. m \notin Answers
    BY <1>2, InPipeAnswers DEF Response
  <2>2. QED
    BY <1>3, <2>1
<1>5. \A i \in Ids : i \in Turns
  BY SessionQueueAssumption DEF Ids, Turns
<1>6. \A t \in Threads, i \in Turns : Ended(t, i)' => Ended(t, i)
  BY <1>3 DEF Ended
<1>7. OwnPipe' /\ AnswerTrails'
  BY <1>2, <1>3 DEF PathInv, OwnPipe, AnswerTrails, InOwed
<1>8. ASSUME NEW act, \A t \in Threads : t # v => act[t] = activeTurns[t]
      PROVE  RunKnown(submitted, act)
  <2> SUFFICES ASSUME NEW t \in Threads, childTurn[t] \in Ids,
                      ~\E x \in submitted : x.id = childTurn[t] /\ x.thread = t
               PROVE  act[t] = childTurn[t]
    BY DEF RunKnown
  <2>1. activeTurns[t] = childTurn[t] /\ \A x \in Lines(fromChild[t]) : x.type = "response"
    BY KnownQuiet
  <2>2. t # v
    BY <1>2, <1>3, <2>1
  <2>3. QED
    BY <1>8, <2>1, <2>2
<1>9. CASE ReadStarted(v)
  <2>1. UNCHANGED <<terminal, queue, submitted, toChild>>
    BY <1>9 DEF ReadStarted
  <2>2. m.type = "started"
    BY <1>1, <1>9 DEF ReadStarted
  <2>3. \A t \in Threads, i \in Turns : Ended(t, i)' <=> Ended(t, i)
    BY <1>3, <1>6, <2>2
  <2>4. RunKnown(submitted, activeTurns')
    <3>1. \A t \in Threads : t # v => activeTurns'[t] = activeTurns[t]
      BY <1>9 DEF ReadStarted, TypeOK
    <3>2. QED
      BY <1>8, <3>1
  <2>5. RunKnown(submitted, activeTurns)'
    BY <1>2, <2>1, <2>4 DEF RunKnown
  <2>6. OkHasRun'
    <3>1. \A a \in Answers : a.req.id \in Ids /\ a.req.thread \in Threads
      BY InPipeAnswers DEF Response, Request
    <3>2. QED
      BY <1>2, <1>4, <1>5, <2>1, <2>3, <3>1 DEF PathInv, OkHasRun
  <2>7. RunningIsOk'
    BY <1>2, <1>4, <1>5, <2>1, <2>3 DEF PathInv, RunningIsOk
  <2>8. RanIsAnswered'
    BY <1>2, <1>4, <1>5, <2>1, <2>3 DEF PathInv, RanIsAnswered, Ran
  <2>9. OwnQueue' /\ SubmittedIn(submitted)' /\ AllWork(submitted)' /\ StartsAlone'
    BY <1>2, <1>4, <2>1 DEF PathInv, OwnQueue, SubmittedIn, AllWork, StartsAlone
  <2>10. QED
    BY <1>7, <2>5, <2>6, <2>7, <2>8, <2>9 DEF PathInv
<1>10. CASE ReadCompleted(v)
  <2>1. m.type = "completed" /\ terminal' = terminal \cup {m.turn}
    BY <1>1, <1>10 DEF ReadCompleted
  <2>2. m.turn \in Turns /\ Ended(v, m.turn)
    <3>1. m \in Response \cup Notification
      BY <1>1, <1>2, HeadTailType DEF TypeOK
    <3>2. m \in Notification
      BY <2>1, <3>1 DEF Response, Notification
    <3>3. m = [type |-> "completed", turn |-> m.turn] /\ m.turn \in Turns
      BY <2>1, <3>2 DEF Notification
    <3>4. QED
      BY <1>3, <3>3 DEF Ended
  <2>3. \A t \in Threads, i \in Turns : Ended(t, i) => Ended(t, i)' \/ i \in terminal'
    BY <1>3, <2>1
  <2>4. OkHasRun'
    <3>1. \A a \in Answers : a.req.id \in Turns /\ a.req.thread \in Threads
      BY <1>5, InPipeAnswers DEF Response, Request
    <3>2. QED
      BY <1>2, <1>4, <2>1, <2>3, <3>1 DEF PathInv, OkHasRun
  <2>5. RunningIsOk'
    <3>1. \A t \in Threads : childTurn[t] \in Ids => childTurn[t] # m.turn
      BY <2>2 DEF PathInv, RunningIsOk
    <3>2. QED
      BY <1>2, <1>4, <1>5, <1>6, <2>1, <3>1 DEF PathInv, RunningIsOk
  <2>6. RanIsAnswered'
    <3>1. \A i \in Ids : Ran(i)' => Ran(i)
      BY <1>2, <1>5, <1>6, <2>1, <2>2 DEF Ran
    <3>2. QED
      BY <1>2, <1>4, <3>1 DEF PathInv, RanIsAnswered
  <2>7. PICK act : act = ActiveAfterEnd(v, m.turn)
    OBVIOUS
  <2>8. RunKnown(submitted, act)
    <3>1. \A t \in Threads : t # v => act[t] = activeTurns[t]
      BY <2>7 DEF ActiveAfterEnd, TypeOK
    <3>2. QED
      BY <1>8, <3>1
  <2>9. /\ OwnQueue' /\ StartsAlone' /\ submitted \subseteq submitted' /\ AllWork(submitted)'
        /\ \A x \in Lines(toChild') : WorkStart(x) => x \in submitted'
    <3>1. CASE UNCHANGED <<queue, submitted, toChild>>
      BY <1>2, <3>1 DEF PathInv, OwnQueue, StartsAlone, AllWork, SubmittedIn
    <3>2. CASE Drain(v, submitted, act, pending)
      BY <1>2, <2>8, <3>2, DrainPath DEF PathInv, AllWork, SubmittedIn
    <3>3. QED
      BY <1>1, <1>10, <2>7, <3>1, <3>2 DEF ReadCompleted
  <2>10. SubmittedIn(submitted)'
    BY <1>4, <2>9 DEF PathInv, SubmittedIn
  <2>11. RunKnown(submitted, activeTurns)'
    <3>1. activeTurns' = act
      BY <1>1, <1>10, <2>7 DEF ReadCompleted
    <3>2. QED
      BY <1>2, <2>8, <2>9, <3>1 DEF RunKnown
  <2>12. QED
    BY <1>7, <2>4, <2>5, <2>6, <2>9, <2>10, <2>11 DEF PathInv
<1>11. QED
  BY <1>9, <1>10

(* A request that the child takes has never run before.                     *)
LEMMA TakenIsNew ==
  ASSUME TypeOK, PlacesInv, PathInv, toChild # <<>>, NEW r, r = Head(toChild)
  PROVE  /\ r \in Request /\ r.id \in Ids /\ r.thread \in Threads /\ r \in Lines(toChild)
         /\ Lines(Tail(toChild)) \subseteq Lines(toChild)
         /\ ~Ran(r.id) /\ \A a \in Answers : a.req.id # r.id
<1>1. toChild \in Seq(Request)
  BY DEF TypeOK
<1>2. /\ r \in Request /\ r.id \in Ids /\ r.thread \in Threads
  <2>1. r \in Request
    BY <1>1, HeadTailType
  <2>2. QED
    BY <2>1 DEF Request
<1>3. r \in Lines(toChild) /\ Lines(Tail(toChild)) \subseteq Lines(toChild)
  BY <1>1, LinesTail
<1>4. InStdin(r.id)
  BY <1>3, InStdinLines
<1>5. answers[r.id] = 0 /\ ~InOwed(r.id) /\ ~InPipe(r.id)
  BY <1>2, <1>4 DEF PlacesInv, OnePlace, Nowhere
<1>6. \A a \in Answers : a.req.id # r.id
  BY <1>5, InPipeAnswers
<1>7. ~Ran(r.id)
  BY <1>2, <1>5, <1>6 DEF PathInv, RanIsAnswered
<1>8. QED
  BY <1>2, <1>3, <1>6, <1>7

(* What stays when the child's stdin loses its first line.                  *)
LEMMA StdinTaken ==
  ASSUME TypeOK, PathInv, toChild # <<>>, toChild' = Tail(toChild),
         NEW r \in Request, r = Head(toChild),
         \A t \in Threads : childTurn'[t] = childTurn[t] \/ (WorkStart(r) /\ t = r.thread)
  PROVE  StartsAlone'
<1>1. toChild \in Seq(Request)
  BY DEF TypeOK
<1>2. /\ Head(toChild) = toChild[1] /\ 1 \in 1..Len(toChild) /\ Len(toChild') = Len(toChild) - 1
      /\ \A n \in 1..Len(toChild) - 1 :
           toChild'[n] = toChild[n + 1] /\ n + 1 \in 1..Len(toChild) /\ 1 < n + 1
      /\ \A n \in 1..Len(toChild) : toChild[n] \in Request
  BY <1>1
<1>3. SUFFICES ASSUME NEW n \in 1..Len(toChild) - 1, toChild'[n].kind = "start"
               PROVE  /\ childTurn'[toChild'[n].thread] \notin Ids
                      /\ \A k \in 1..Len(toChild) - 1 :
                           k < n /\ WorkStart(toChild'[k]) => toChild'[k].thread # toChild'[n].thread
  BY <1>2 DEF StartsAlone
<1>4. PICK x \in Request : x = toChild[n + 1]
  BY <1>2
<1>5. /\ toChild'[n] = x /\ x.kind = "start" /\ x.thread \in Threads
      /\ childTurn[x.thread] \notin Ids
      /\ \A k \in 1..Len(toChild) : k < n + 1 /\ WorkStart(toChild[k]) => toChild[k].thread # x.thread
  BY <1>2, <1>3, <1>4 DEF PathInv, StartsAlone, Request
<1>6. WorkStart(r) => r.thread # x.thread
  BY <1>2, <1>5
<1>7. childTurn'[x.thread] \notin Ids
  BY <1>5, <1>6
<1>8. ASSUME NEW k \in 1..Len(toChild) - 1, k < n, WorkStart(toChild'[k])
      PROVE  toChild'[k].thread # x.thread
  BY <1>2, <1>5, <1>8
<1>9. QED
  BY <1>5, <1>7, <1>8

LEMMA ChildTakePath ==
  ASSUME TypeOK, PlacesInv, PathInv, ChildTake
  PROVE  PathInv'
<1>1. PICK r : r = Head(toChild)
  OBVIOUS
<1>2. /\ toChild # <<>> /\ toChild' = Tail(toChild)
      /\ UNCHANGED <<queue, submitted, activeTurns, terminal, answers>>
  BY DEF ChildTake, ChildAccept, ChildRefuse, ChildSteer, queueVars, tableVars
<1>3. /\ r \in Request /\ r.id \in Ids /\ r.thread \in Threads /\ r \in Lines(toChild)
      /\ Lines(Tail(toChild)) \subseteq Lines(toChild)
      /\ ~Ran(r.id) /\ \A a \in Answers : a.req.id # r.id
  BY <1>1, <1>2, TakenIsNew
<1>4. /\ \A i \in Ids : i \in Turns /\ i # 0
      /\ 0 \notin Ids
  BY SessionQueueAssumption DEF Ids, Turns
<1>5. PICK a : /\ a.req = r /\ owed' = owed \cup {a}
               /\ a.result = "ok" /\ WorkStart(r) => ChildAccept
               /\ ChildAccept => a.result = "ok"
  <2>1. \A result : Answer(r, result).req = r /\ Answer(r, result).result = result
    BY DEF Answer
  <2>2. CASE ChildAccept
    BY <1>1, <2>1, <2>2 DEF ChildAccept
  <2>3. CASE ~ChildAccept /\ ChildRefuse
    <3>1. "error" # "ok"
      OBVIOUS
    <3>2. QED
      BY <1>1, <2>1, <2>3, <3>1 DEF ChildRefuse
  <2>4. CASE ~ChildAccept /\ ChildSteer
    BY <1>1, <2>1, <2>4 DEF ChildSteer
  <2>5. QED
    BY <2>2, <2>3, <2>4 DEF ChildTake
<1>6. /\ \A t \in Threads : childTurn'[t] = IF ChildAccept /\ t = r.thread THEN r.id ELSE childTurn[t]
      /\ ChildAccept => WorkStart(r) /\ childTurn[r.thread] = 0
  BY <1>1 DEF ChildTake, ChildAccept, ChildRefuse, ChildSteer, TypeOK
<1>7. /\ \A t \in Threads, i \in Turns : Ended(t, i)' <=> Ended(t, i)
      /\ \A t \in Threads : \A m \in Lines(fromChild'[t]) :
           m.type = "response" => m \in Lines(fromChild[t])
      /\ Answers' = Answers \cup {a}
      /\ \A t \in Threads : (ChildAccept /\ t = r.thread) \/ fromChild'[t] = fromChild[t]
  <2>1. CASE ChildAccept
    <3>1. PICK x : x = [type |-> "started", turn |-> r.id]
      OBVIOUS
    <3>2. x \in Messages /\ x.type = "started"
      BY <1>3, <1>4, <3>1 DEF Messages, Notification
    <3>3. fromChild' = [fromChild EXCEPT ![r.thread] = Append(fromChild[r.thread], x)]
      BY <1>1, <2>1, <3>1 DEF ChildAccept
    <3>4. /\ \A t \in Threads : Lines(fromChild'[t]) =
               IF t = r.thread THEN Lines(fromChild[r.thread]) \cup {x} ELSE Lines(fromChild[t])
          /\ \A t \in Threads, i \in Turns : Ended(t, i)' <=>
               Ended(t, i) \/ (t = r.thread /\ x = [type |-> "completed", turn |-> i])
      BY <1>3, <3>2, <3>3, PipeWritten
    <3>5. \A t \in Threads, i \in Turns : Ended(t, i)' <=> Ended(t, i)
      <4>1. \A i \in Turns : x # [type |-> "completed", turn |-> i]
        BY <3>1
      <4>2. QED
        BY <3>4, <4>1
    <3>6. \A t \in Threads : \A m : m.type = "response" =>
            (m \in Lines(fromChild'[t]) <=> m \in Lines(fromChild[t]))
      BY <3>2, <3>4
    <3>7. Answers' = Answers \cup {a}
      <4>1. \A m \in Response : m.type = "response"
        BY DEF Response
      <4>2. QED
        BY <1>5, <3>6, <4>1 DEF Answers
    <3>8. QED
      BY <2>1, <3>3, <3>5, <3>6, <3>7 DEF TypeOK
  <2>2. CASE ~ChildAccept
    <3>1. UNCHANGED fromChild
      BY <2>2 DEF ChildTake, ChildRefuse, ChildSteer
    <3>2. QED
      BY <1>5, <2>2, <3>1 DEF Ended, Answers
  <2>3. QED
    BY <2>1, <2>2
<1>8. OwnQueue' /\ OwnPipe' /\ AllWork(submitted)'
  BY <1>2, <1>7 DEF PathInv, OwnQueue, OwnPipe, AllWork
<1>9. SubmittedIn(submitted)'
  BY <1>2, <1>3, <1>5, <1>7 DEF PathInv, SubmittedIn
<1>10. AnswerTrails'
  <2>1. \A i : InOwed(i) \/ i = r.id => InOwed(i)'
    BY <1>5 DEF InOwed
  <2>2. QED
    BY <1>6, <1>7, <2>1 DEF PathInv, AnswerTrails
<1>11. OkHasRun'
  <2> SUFFICES ASSUME NEW b \in Answers', b.result = "ok", WorkStart(b.req)
               PROVE  childTurn'[b.req.thread] = b.req.id \/ Ended(b.req.thread, b.req.id)'
                      \/ b.req.id \in terminal'
    BY DEF OkHasRun
  <2>1. CASE b = a
    BY <1>3, <1>5, <1>6, <2>1
  <2>2. CASE b # a
    <3>1. b \in Answers /\ b.req.id \in Ids /\ b.req.thread \in Threads
      BY <1>7, <2>2, InPipeAnswers DEF Response, Request
    <3>2. \/ childTurn[b.req.thread] = b.req.id
          \/ Ended(b.req.thread, b.req.id) \/ b.req.id \in terminal
      BY <3>1 DEF PathInv, OkHasRun
    <3>3. QED
      BY <1>2, <1>4, <1>6, <1>7, <3>1, <3>2
  <2>3. QED
    BY <2>1, <2>2
<1>12. RunningIsOk'
  <2> SUFFICES ASSUME NEW t \in Threads, childTurn'[t] \in Ids
               PROVE  /\ childTurn'[t] \notin terminal
                      /\ \A u \in Threads : ~Ended(u, childTurn'[t])
                      /\ \A b \in Answers' : b.req.id = childTurn'[t] =>
                           b.result = "ok" /\ WorkStart(b.req)
    BY <1>2, <1>4, <1>7 DEF RunningIsOk
  <2>1. CASE ChildAccept /\ t = r.thread
    BY <1>3, <1>5, <1>6, <1>7, <2>1 DEF Ran
  <2>2. CASE ~(ChildAccept /\ t = r.thread)
    <3>1. childTurn'[t] = childTurn[t] /\ childTurn[t] # r.id
      BY <1>3, <1>6, <2>2 DEF Ran
    <3>2. QED
      BY <1>5, <1>7, <3>1 DEF PathInv, RunningIsOk
  <2>3. QED
    BY <2>1, <2>2
<1>13. RanIsAnswered'
  <2> SUFFICES ASSUME NEW i \in Ids, Ran(i)'
               PROVE  answers[i] > 0 \/ \E b \in Answers' : b.req.id = i /\ b.result = "ok"
    BY <1>2 DEF RanIsAnswered
  <2>1. Ran(i) \/ (ChildAccept /\ i = r.id)
    BY <1>2, <1>4, <1>6, <1>7 DEF Ran
  <2>2. QED
    BY <1>5, <1>7, <2>1 DEF PathInv, RanIsAnswered
<1>14. RunKnown(submitted, activeTurns)'
  <2>1. ChildAccept => r \in submitted
    BY <1>3, <1>6 DEF PathInv, SubmittedIn
  <2>2. QED
    BY <1>2, <1>6, <2>1 DEF PathInv, RunKnown
<1>15. StartsAlone'
  BY <1>1, <1>2, <1>3, <1>6, StdinTaken
<1>16. QED
  BY <1>8, <1>9, <1>10, <1>11, <1>12, <1>13, <1>14, <1>15 DEF PathInv

(* An answer goes from the child's hands into the pipe of its thread.       *)
LEMMA ChildAnswerPath ==
  ASSUME TypeOK, NamesInv, PathInv, NEW a \in owed, ChildAnswer(a)
  PROVE  PathInv'
<1>1. /\ UNCHANGED <<queue, submitted, activeTurns, terminal, answers, toChild, childTurn>>
      /\ owed' = owed \ {a}
      /\ fromChild' = [fromChild EXCEPT ![a.req.thread] = Append(fromChild[a.req.thread], a)]
  BY DEF ChildAnswer, queueVars, tableVars
<1>2. /\ a \in Response /\ a \in Messages /\ a.type = "response"
      /\ a.req.thread \in Threads /\ a.req.id \in Ids
  BY DEF TypeOK, Messages, Response, Request
<1>3. /\ \A t \in Threads : Lines(fromChild'[t]) =
           IF t = a.req.thread THEN Lines(fromChild[a.req.thread]) \cup {a} ELSE Lines(fromChild[t])
      /\ \A t \in Threads, i \in Turns : Ended(t, i)' <=>
           Ended(t, i) \/ (t = a.req.thread /\ a = [type |-> "completed", turn |-> i])
  BY <1>1, <1>2, PipeWritten
<1>4. \A t \in Threads, i \in Turns : Ended(t, i)' <=> Ended(t, i)
  <2>1. \A i \in Turns : a # [type |-> "completed", turn |-> i]
    BY <1>2
  <2>2. QED
    BY <1>3, <2>1
<1>5. Answers' = Answers
  BY <1>1, <1>2, <1>3 DEF Answers
<1>6. \A i \in Ids : i \in Turns
  BY SessionQueueAssumption DEF Ids, Turns
<1>7. OwnPipe'
  BY <1>2, <1>3 DEF PathInv, OwnPipe
<1>8. AnswerTrails'
  <2> SUFFICES ASSUME NEW t \in Threads, childTurn[t] \in Ids
               PROVE  InOwed(childTurn[t])' \/ Trailed(fromChild'[t], childTurn[t])
    BY <1>1 DEF AnswerTrails, InOwed
  <2>1. CASE a.req.id = childTurn[t] \/ Trailed(fromChild[t], childTurn[t])
    <3>1. fromChild[t] \in Seq(Messages)
      BY DEF TypeOK, Messages
    <3>2. a.req.id = childTurn[t] => t = a.req.thread
      BY <1>2, <1>6 DEF NamesInv, Names, OwedNames, RunsNames
    <3>3. CASE t = a.req.thread
      <4>1. Trailed(Append(fromChild[t], a), childTurn[t])
        BY <1>2, <2>1, <3>1, TrailedAppend
      <4>2. QED
        BY <1>1, <3>3, <4>1 DEF TypeOK
    <3>4. CASE t # a.req.thread
      BY <1>1, <2>1, <3>2, <3>4 DEF TypeOK
    <3>5. QED
      BY <3>3, <3>4
  <2>2. CASE a.req.id # childTurn[t] /\ InOwed(childTurn[t])
    BY <1>1, <2>2 DEF InOwed
  <2>3. QED
    BY <2>1, <2>2 DEF PathInv, AnswerTrails
<1>9. /\ OwnQueue' /\ SubmittedIn(submitted)' /\ AllWork(submitted)'
      /\ RunKnown(submitted, activeTurns)' /\ StartsAlone'
  BY <1>1, <1>5 DEF PathInv, OwnQueue, SubmittedIn, AllWork, RunKnown, StartsAlone
<1>10. OkHasRun' /\ RunningIsOk' /\ RanIsAnswered'
  <2>1. \A b \in Answers : b.req.id \in Turns /\ b.req.thread \in Threads
    BY <1>6, InPipeAnswers DEF Response, Request
  <2>2. OkHasRun'
    BY <1>1, <1>4, <1>5, <2>1 DEF PathInv, OkHasRun
  <2>3. RunningIsOk'
    BY <1>1, <1>4, <1>5, <1>6 DEF PathInv, RunningIsOk
  <2>4. RanIsAnswered'
    BY <1>1, <1>4, <1>5, <1>6 DEF PathInv, RanIsAnswered, Ran
  <2>5. QED
    BY <2>2, <2>3, <2>4
<1>11. QED
  BY <1>7, <1>8, <1>9, <1>10 DEF PathInv

(* What stays when the child tells a thread of the beginning or the end of  *)
(* a turn.                                                                  *)
LEMMA ToldPath ==
  ASSUME TypeOK, PathInv, NEW v \in Threads, NEW x \in Notification,
         UNCHANGED <<queue, submitted, activeTurns, terminal, answers, toChild, owed>>,
         fromChild' = [fromChild EXCEPT ![v] = Append(fromChild[v], x)],
         \A t \in Threads : childTurn'[t] \in Ids => t # v /\ childTurn'[t] = childTurn[t]
  PROVE  /\ Answers' = Answers
         /\ OwnQueue' /\ OwnPipe' /\ SubmittedIn(submitted)' /\ AllWork(submitted)'
         /\ AnswerTrails' /\ RunKnown(submitted, activeTurns)' /\ StartsAlone'
<1>1. x \in Messages /\ x.type # "response"
  BY DEF Messages, Notification
<1>2. \A t \in Threads : Lines(fromChild'[t]) =
        IF t = v THEN Lines(fromChild[v]) \cup {x} ELSE Lines(fromChild[t])
  BY <1>1, PipeWritten
<1>3. \A t \in Threads : \A m : m.type = "response" =>
        (m \in Lines(fromChild'[t]) <=> m \in Lines(fromChild[t]))
  BY <1>1, <1>2
<1>4. Answers' = Answers
  <2>1. \A m \in Response : m.type = "response"
    BY DEF Response
  <2>2. QED
    BY <1>3, <2>1 DEF Answers
<1>5. OwnPipe'
  BY <1>3 DEF PathInv, OwnPipe
<1>6. OwnQueue' /\ SubmittedIn(submitted)' /\ AllWork(submitted)'
  BY <1>4 DEF PathInv, OwnQueue, SubmittedIn, AllWork
<1>7. AnswerTrails'
  <2>1. \A t \in Threads : t # v => fromChild'[t] = fromChild[t]
    BY DEF TypeOK
  <2>2. \A i : InOwed(i)' <=> InOwed(i)
    BY DEF InOwed
  <2>3. QED
    BY <2>1, <2>2 DEF PathInv, AnswerTrails
<1>8. RunKnown(submitted, activeTurns)'
  BY DEF PathInv, RunKnown
<1>9. StartsAlone'
  <2>1. \A n \in 1..Len(toChild) : toChild[n].thread \in Threads
    <3>1. toChild \in Seq(Request) /\ \A r \in Request : r.thread \in Threads
      BY DEF TypeOK, Request
    <3>2. QED
      BY <3>1
  <2>2. QED
    BY <2>1 DEF PathInv, StartsAlone
<1>10. QED
  BY <1>4, <1>5, <1>6, <1>7, <1>8, <1>9

(* The child's turn ends; its end is told at once, its answer maybe later.  *)
LEMMA ChildFinishPath ==
  ASSUME TypeOK, NamesInv, PathInv, NEW v \in Threads, ChildFinish(v)
  PROVE  PathInv'
<1>1. PICK j : j = childTurn[v]
  OBVIOUS
<1>2. j \in Turns
  BY <1>1 DEF ChildFinish, TypeOK
<1>3. PICK x \in Notification : x = [type |-> "completed", turn |-> j]
  BY <1>2 DEF Notification
<1>4. /\ UNCHANGED <<queue, submitted, activeTurns, terminal, answers, toChild, owed>>
      /\ fromChild' = [fromChild EXCEPT ![v] = Append(fromChild[v], x)]
      /\ childTurn' = [childTurn EXCEPT ![v] = 0]
  BY <1>1, <1>3 DEF ChildFinish, queueVars, tableVars
<1>5. /\ \A i \in Ids : i \in Turns /\ i # 0
      /\ 0 \notin Ids
  BY SessionQueueAssumption DEF Ids, Turns
<1>6. \A t \in Threads : childTurn'[t] \in Ids => t # v /\ childTurn'[t] = childTurn[t]
  BY <1>4, <1>5 DEF TypeOK
<1>7. /\ Answers' = Answers
      /\ OwnQueue' /\ OwnPipe' /\ SubmittedIn(submitted)' /\ AllWork(submitted)'
      /\ AnswerTrails' /\ RunKnown(submitted, activeTurns)' /\ StartsAlone'
  BY <1>4, <1>6, ToldPath
<1>8. \A t \in Threads, i \in Turns : Ended(t, i)' <=> Ended(t, i) \/ (t = v /\ i = j)
  <2>1. x \in Messages /\ \A i \in Turns : x = [type |-> "completed", turn |-> i] <=> i = j
    BY <1>3 DEF Messages
  <2>2. \A t \in Threads, i \in Turns : Ended(t, i)' <=>
          Ended(t, i) \/ (t = v /\ x = [type |-> "completed", turn |-> i])
    BY <1>4, <2>1, PipeWritten
  <2>3. QED
    BY <2>1, <2>2
<1>9. OkHasRun'
  <2>1. \A a \in Answers : a.req.id \in Turns /\ a.req.thread \in Threads
    BY <1>5, InPipeAnswers DEF Response, Request
  <2>2. \A t \in Threads : t # v => childTurn'[t] = childTurn[t]
    BY <1>4 DEF TypeOK
  <2>3. QED
    BY <1>1, <1>4, <1>7, <1>8, <2>1, <2>2 DEF PathInv, OkHasRun
<1>10. RunningIsOk'
  <2> SUFFICES ASSUME NEW t \in Threads, NEW i \in Ids, childTurn'[t] = i
               PROVE  /\ i \notin terminal
                      /\ \A u \in Threads : ~Ended(u, i)'
                      /\ \A a \in Answers : a.req.id = i => a.result = "ok" /\ WorkStart(a.req)
    BY <1>4, <1>7 DEF RunningIsOk, Ended
  <2>1. t # v /\ childTurn[t] = i /\ i \in Turns
    BY <1>5, <1>6
  <2>2. i # j
    BY <1>1, <1>2, <2>1 DEF NamesInv, Names, RunsNames
  <2>3. \A u \in Threads : ~Ended(u, i)'
    BY <1>8, <2>1, <2>2 DEF PathInv, RunningIsOk
  <2>4. QED
    BY <2>1, <2>3 DEF PathInv, RunningIsOk
<1>11. RanIsAnswered'
  <2>1. \A i \in Ids : Ran(i)' => Ran(i)
    BY <1>1, <1>4, <1>5, <1>6, <1>8 DEF Ran
  <2>2. QED
    BY <1>4, <1>7, <2>1 DEF PathInv, RanIsAnswered
<1>12. QED
  BY <1>7, <1>9, <1>10, <1>11 DEF PathInv

(* A turn of the child's own is none of the client's requests.              *)
LEMMA GoalTurnPath ==
  ASSUME TypeOK, PathInv, NEW v \in Threads, ChildGoalTurn(v)
  PROVE  PathInv'
<1>1. PICK j \in Turns : j = MaxReq + goalTurns + 1 /\ j \notin Ids /\ j # 0
  BY SessionQueueAssumption DEF ChildGoalTurn, Turns, Ids, TypeOK
<1>2. PICK x \in Notification : x = [type |-> "started", turn |-> j]
  BY <1>1 DEF Notification
<1>3. /\ UNCHANGED <<queue, submitted, activeTurns, terminal, answers, toChild, owed>>
      /\ fromChild' = [fromChild EXCEPT ![v] = Append(fromChild[v], x)]
      /\ childTurn' = [childTurn EXCEPT ![v] = j]
      /\ childTurn[v] = 0
  BY <1>1, <1>2 DEF ChildGoalTurn, queueVars, tableVars
<1>4. /\ \A i \in Ids : i \in Turns /\ i # 0
      /\ 0 \notin Ids
  BY SessionQueueAssumption DEF Ids, Turns
<1>5. /\ \A t \in Threads : childTurn'[t] \in Ids => t # v /\ childTurn'[t] = childTurn[t]
      /\ \A t \in Threads : childTurn[t] \in Ids => t # v /\ childTurn'[t] = childTurn[t]
  BY <1>1, <1>3, <1>4 DEF TypeOK
<1>6. /\ Answers' = Answers
      /\ OwnQueue' /\ OwnPipe' /\ SubmittedIn(submitted)' /\ AllWork(submitted)'
      /\ AnswerTrails' /\ RunKnown(submitted, activeTurns)' /\ StartsAlone'
  BY <1>3, <1>5, ToldPath
<1>7. \A t \in Threads, i \in Turns : Ended(t, i)' <=> Ended(t, i)
  <2>1. x \in Messages /\ \A i \in Turns : x # [type |-> "completed", turn |-> i]
    BY <1>2 DEF Messages
  <2>2. \A t \in Threads, i \in Turns : Ended(t, i)' <=>
          Ended(t, i) \/ (t = v /\ x = [type |-> "completed", turn |-> i])
    BY <1>3, <2>1, PipeWritten
  <2>3. QED
    BY <2>1, <2>2
<1>8. OkHasRun'
  <2>1. \A a \in Answers : a.req.id \in Ids /\ a.req.thread \in Threads
    BY InPipeAnswers DEF Response, Request
  <2>2. QED
    BY <1>3, <1>4, <1>5, <1>6, <1>7, <2>1 DEF PathInv, OkHasRun
<1>9. RunningIsOk'
  <2> SUFFICES ASSUME NEW t \in Threads, NEW i \in Ids, childTurn'[t] = i
               PROVE  /\ i \notin terminal
                      /\ \A u \in Threads : ~Ended(u, i)'
                      /\ \A a \in Answers : a.req.id = i => a.result = "ok" /\ WorkStart(a.req)
    BY <1>3, <1>6 DEF RunningIsOk, Ended
  <2>1. childTurn[t] = i /\ i \in Turns
    BY <1>4, <1>5
  <2>2. \A u \in Threads : ~Ended(u, i)'
    BY <1>7, <2>1 DEF PathInv, RunningIsOk
  <2>3. QED
    BY <2>1, <2>2 DEF PathInv, RunningIsOk
<1>10. RanIsAnswered'
  <2>1. \A i \in Ids : Ran(i)' => Ran(i)
    BY <1>3, <1>4, <1>5, <1>7 DEF Ran
  <2>2. QED
    BY <1>3, <1>6, <2>1 DEF PathInv, RanIsAnswered
<1>11. QED
  BY <1>6, <1>8, <1>9, <1>10 DEF PathInv

(* Before a start in the child's stdin stands no other start of its thread. *)
LEMMA StartsAreAlone ==
  ASSUME TypeOK, PathInv
  PROVE  OneStartAtATime
<1> SUFFICES ASSUME NEW t \in Threads
             PROVE  /\ Cardinality(StartsWaiting(t)) <= 1
                    /\ StartsWaiting(t) # {} => childTurn[t] \notin Ids
  BY DEF OneStartAtATime
<1>1. toChild \in Seq(Request) /\ DOMAIN toChild = 1..Len(toChild) /\ Len(toChild) \in Nat
  BY DEF TypeOK
<1>2. \A n, k \in 1..Len(toChild) : n = k \/ n < k \/ k < n
  BY <1>1
<1>3. \A n, k \in StartsWaiting(t) : n = k
  <2> SUFFICES ASSUME NEW n \in StartsWaiting(t), NEW k \in StartsWaiting(t), n # k
               PROVE  FALSE
    OBVIOUS
  <2>1. /\ n \in 1..Len(toChild) /\ toChild[n].thread = t /\ toChild[n].kind = "start"
        /\ k \in 1..Len(toChild) /\ toChild[k].thread = t /\ toChild[k].kind = "start"
    BY <1>1 DEF StartsWaiting
  <2>2. WorkStart(toChild[n]) /\ WorkStart(toChild[k])
    BY <2>1 DEF WorkStart
  <2>3. QED
    BY <1>2, <2>1, <2>2 DEF PathInv, StartsAlone
<1>4. StartsWaiting(t) # {} => childTurn[t] \notin Ids
  BY <1>1 DEF StartsWaiting, PathInv, StartsAlone
<1>5. CASE StartsWaiting(t) = {}
  <2>1. Cardinality(StartsWaiting(t)) = 0
    BY <1>5, FS_EmptySet
  <2>2. QED
    BY <1>4, <2>1
<1>6. CASE StartsWaiting(t) # {}
  <2>1. PICK n : StartsWaiting(t) = {n}
    BY <1>3, <1>6
  <2>2. Cardinality(StartsWaiting(t)) = 1
    BY <2>1, FS_Singleton
  <2>3. QED
    BY <1>4, <2>2
<1>7. QED
  BY <1>5, <1>6

LEMMA PathStep ==
  ASSUME TypeOK, PlacesInv, NamesInv, PathInv, [Next]_vars
  PROVE  PathInv'
BY RequestPath, FlushPath, BarrierPath, ResponsePath, NotificationPath, ChildTakePath,
   ChildAnswerPath, ChildFinishPath, GoalTurnPath DEF Next, Read

LEMMA PathInit ==
  ASSUME Init
  PROVE  PathInv
<1>1. /\ \A t \in Threads : Lines(fromChild[t]) = {} /\ Lines(queue[t]) = {}
      /\ Lines(toChild) = {} /\ Len(toChild) = 0
  BY DEF Init, Lines
<1>2. Answers = {}
  BY <1>1 DEF Init, Answers
<1>3. 0 \notin Ids /\ \A t \in Threads : childTurn[t] = 0
  BY SessionQueueAssumption DEF Init, Ids
<1>4. \A i \in Ids : ~Ran(i)
  BY <1>1, <1>3 DEF Init, Ran, Ended
<1>5. QED
  BY <1>1, <1>2, <1>3, <1>4
     DEF Init, PathInv, OwnQueue, OwnPipe, SubmittedIn, AllWork, AnswerTrails, OkHasRun,
         RunningIsOk, RanIsAnswered, RunKnown, StartsAlone

(* The child never has two managed starts of a thread before it, and never  *)
(* one while it runs a turn of the client's on that thread: not when a turn *)
(* ends before its own start is answered, not when a drained start finds    *)
(* the tables still busy, not when a deferred start or the rescue of a      *)
(* steer comes between.                                                     *)
THEOREM StartsWaitTheirTurn == Spec => []OneStartAtATime
<1>1. Init => PlacesInv /\ NamesInv
  BY PlacesInit, NamesInit
<1>2. Init => PathInv
  BY PathInit
<1>3. TypeOK /\ PlacesInv /\ NamesInv /\ PathInv /\ [Next]_vars
        => (PlacesInv /\ NamesInv /\ PathInv)'
  BY PlacesStep, NamesStep, PathStep
<1>4. TypeOK /\ PathInv => OneStartAtATime
  BY StartsAreAlone
<1>5. QED
  BY <1>1, <1>2, <1>3, <1>4, TypeCorrect, PTL DEF Spec

-----------------------------------------------------------------------------
(* What wakes a thread: whatever keeps it busy or its queue filled has      *)
(* something ahead of it.  For clients that send no unmanaged work.         *)

(* Busy is a thread that runs a turn or has a start pending.                *)
BusySaysWhy == \A t \in Threads : busy[t] => activeTurnId[t] # 0 \/ pendingStart[t] # 0

(* A pending start is submitted, or is a fallback behind the barrier.       *)
PendingIsComing ==
  \A t \in Threads : pendingStart[t] # 0 =>
    \/ \E r \in submitted : r.id = pendingStart[t] /\ r.thread = t
    \/ \E r \in Lines(deferred) :
         r.id = pendingStart[t] /\ r.thread = t /\ r.kind = "fallback"

(* What is submitted lies before the child or has its answer on the way.    *)
SubmittedComes == \A r \in submitted : r \in Lines(toChild) \/ \E a \in Answers : a.req = r

(* The answer to what is submitted will settle its thread.                  *)
WillSettle(r) ==
  \/ r.kind = "start" /\ r \in pending /\ pendingStart[r.thread] \in {0, r.id}
  \/ r.kind = "fallback" /\ r \in fallbacks
DeferredIsManaged ==
  /\ \A r \in fallbacks : r.kind = "fallback"
  /\ \A r \in Lines(deferred) :
       r.kind = "start" \/ (r.kind = "fallback" /\ r \in fallbacks)

(* A turn in the tables runs, or its end is in the pipe.                    *)
RunsOrEnds(t, i) == childTurn[t] = i \/ Ended(t, i)
TablesAreTrue ==
  \A t \in Threads :
    /\ activeTurns[t] # 0 => RunsOrEnds(t, activeTurns[t])
    /\ activeTurnId[t] # 0 => RunsOrEnds(t, activeTurnId[t])
StartedIsTrue ==
  \A t \in Threads, i \in Turns : [type |-> "started", turn |-> i] \in Lines(fromChild[t]) =>
    RunsOrEnds(t, i) \/ i \in terminal

(* A queued start is behind something that will wake it.                    *)
Wakes(t) ==
  \/ activeTurns[t] # 0 \/ activeTurnId[t] # 0
  \/ \E r \in submitted : r.thread = t
  \/ \E r \in Lines(deferred) : r.thread = t
QueueIsWoken == \A t \in Threads : queue[t] # <<>> => Wakes(t)

ShimQuiet ==
  /\ BusySaysWhy /\ PendingIsComing /\ (\A r \in submitted : WillSettle(r))
  /\ DeferredIsManaged /\ QueueIsWoken
QuietInv == ShimQuiet /\ SubmittedComes /\ TablesAreTrue /\ StartedIsTrue

LEMMA ShimQuietKept ==
  ASSUME ShimQuiet, UNCHANGED <<queueVars, submitted, activeTurns, deferred>>
  PROVE  ShimQuiet'
BY DEF ShimQuiet, BusySaysWhy, PendingIsComing, WillSettle, DeferredIsManaged, QueueIsWoken,
       Wakes, queueVars

(* A thread that counts as busy has something that will wake its queue, and *)
(* this is no start that waits behind the barrier.                          *)
LEMMA BusyIsWoken ==
  ASSUME TypeOK, ShimQuiet, NEW t \in Threads, IsBusy(t)
  PROVE  \/ activeTurns[t] # 0 \/ activeTurnId[t] # 0
         \/ \E x \in submitted : x.thread = t
         \/ \E x \in Lines(deferred) : x.thread = t /\ x.kind = "fallback"
BY DEF IsBusy, RuntimeBusy, ShimQuiet, BusySaysWhy, PendingIsComing

LEMMA AdmitQuiet ==
  ASSUME TypeOK, ShimQuiet, SubmittedComes, NEW r \in Request, Admit(r),
         UNCHANGED <<owed, fromChild>>,
         Lines(deferred') \subseteq Lines(deferred), Lines(deferred) \subseteq Lines(deferred') \cup {r},
         r.kind \in {"start", "steer"} \/ (r.kind = "fallback" /\ r \in fallbacks)
  PROVE  ShimQuiet' /\ SubmittedComes'
<1>1. r.thread \in Threads /\ r.id # 0
  BY SessionQueueAssumption DEF Request, Ids
<1>2. UNCHANGED <<activeTurnId, fallbacks, activeTurns>> /\ submitted \subseteq submitted'
      /\ pending \subseteq pending' /\ submitted' \subseteq submitted \cup {r}
  BY DEF Admit, Enqueue, RejectFull, ForwardStart, ForwardOther
<1>3. \/ ForwardStart(r) \/ UNCHANGED <<busy, pendingStart>>
  BY DEF Admit, Enqueue, RejectFull, ForwardOther
<1>4. r.kind = "fallback" => r \in submitted'
  BY DEF Admit, Enqueue, RejectFull, ForwardStart, ForwardOther, WorkStart
<1>5. BusySaysWhy'
  BY <1>1, <1>2, <1>3 DEF ShimQuiet, BusySaysWhy, ForwardStart, TypeOK
<1>6. PendingIsComing'
  <2> SUFFICES ASSUME NEW t \in Threads, pendingStart'[t] # 0
               PROVE  \/ \E x \in submitted' : x.id = pendingStart'[t] /\ x.thread = t
                      \/ \E x \in Lines(deferred') :
                           x.id = pendingStart'[t] /\ x.thread = t /\ x.kind = "fallback"
    BY DEF PendingIsComing
  <2>1. CASE pendingStart'[t] = pendingStart[t]
    BY <1>2, <1>4, <2>1 DEF ShimQuiet, PendingIsComing
  <2>2. CASE pendingStart'[t] # pendingStart[t]
    <3>1. ForwardStart(r)
      BY <1>3, <2>2
    <3>2. t = r.thread /\ pendingStart'[t] = r.id /\ r \in submitted'
      BY <1>1, <2>2, <3>1 DEF ForwardStart, TypeOK
    <3>3. QED
      BY <3>2
  <2>3. QED
    BY <2>1, <2>2
<1>7. ASSUME NEW x \in submitted'
      PROVE  WillSettle(x)'
  <2>1. x \in Request
    BY <1>2, <1>7 DEF TypeOK
  <2>2. CASE x \in submitted /\ UNCHANGED pendingStart
    BY <1>2, <2>2 DEF ShimQuiet, WillSettle
  <2>3. CASE x \in submitted /\ ForwardStart(r)
    <3>1. x.thread # r.thread /\ x.thread \in Threads
      BY <2>1, <2>3 DEF ForwardStart, IsBusy, RuntimeBusy, Request
    <3>2. pendingStart'[x.thread] = pendingStart[x.thread]
      BY <2>3, <3>1 DEF ForwardStart, TypeOK
    <3>3. QED
      BY <1>2, <2>3, <3>2 DEF ShimQuiet, WillSettle
  <2>4. CASE x = r /\ x \notin submitted
    <3>1. CASE ForwardStart(r)
      BY <1>1, <2>4, <3>1 DEF ForwardStart, WillSettle, TypeOK
    <3>2. CASE ForwardOther(r)
      <4>1. r.kind = "fallback" /\ r \in fallbacks
        BY <1>7, <2>4, <3>2 DEF ForwardOther, WorkStart
      <4>2. QED
        BY <1>2, <2>4, <4>1 DEF WillSettle
    <3>3. CASE Enqueue(r) \/ RejectFull(r)
      BY <1>7, <2>4, <3>3 DEF Enqueue, RejectFull
    <3>4. QED
      BY <3>1, <3>2, <3>3 DEF Admit
  <2>5. QED
    BY <1>2, <1>3, <1>7, <2>2, <2>3, <2>4
<1>8. DeferredIsManaged'
  BY <1>2 DEF ShimQuiet, DeferredIsManaged
<1>9. QueueIsWoken'
  <2> SUFFICES ASSUME NEW t \in Threads, queue'[t] # <<>>
               PROVE  Wakes(t)'
    BY DEF QueueIsWoken
  <2>1. CASE r \in submitted' /\ t = r.thread
    BY <2>1 DEF Wakes
  <2>2. CASE t = r.thread /\ r \notin submitted' /\ r.kind = "start"
    <3>1. IsBusy(t)
      BY <2>2 DEF Admit, Enqueue, RejectFull, ForwardStart, ForwardOther
    <3>2. QED
      BY <1>2, <2>2, <3>1, BusyIsWoken DEF Wakes
  <2>3. CASE t # r.thread \/ r.kind = "steer"
    <3>1. queue'[t] = queue[t]
      BY <1>1, <2>3 DEF Admit, Enqueue, RejectFull, ForwardStart, ForwardOther, TypeOK
    <3>2. Wakes(t)
      BY <3>1 DEF ShimQuiet, QueueIsWoken
    <3>3. \A x \in Lines(deferred) : x.thread = t => x \in Lines(deferred')
      BY <2>3 DEF ShimQuiet, DeferredIsManaged
    <3>4. QED
      BY <1>2, <3>2, <3>3 DEF Wakes
  <2>4. QED
    BY <1>4, <2>1, <2>2, <2>3
<1>10. SubmittedComes'
  <2>1. Answers' = Answers
    BY DEF Answers
  <2>2. CASE toChild' = Append(toChild, r)
    <3>1. Lines(toChild') = Lines(toChild) \cup {r}
      BY <2>2, LinesAppend DEF TypeOK
    <3>2. QED
      BY <1>2, <2>1, <3>1 DEF SubmittedComes
  <2>3. CASE UNCHANGED <<toChild, submitted>>
    BY <2>1, <2>3 DEF SubmittedComes
  <2>4. QED
    BY <2>2, <2>3 DEF Admit, Enqueue, RejectFull, ForwardStart, ForwardOther
<1>11. QED
  BY <1>5, <1>6, <1>7, <1>8, <1>9, <1>10 DEF ShimQuiet

(* What a handler leaves in the tables before it settles thread t: sub and  *)
(* pend are what is then submitted and pending.                             *)
BeforeSettling(t, sub, pend) ==
  /\ \A x \in sub : x \in submitted
  /\ \A x \in submitted : x.thread # t => x \in sub
  /\ \A x \in sub : \/ /\ x.kind = "start" /\ x \in pend
                       /\ x.thread # t => pendingStart[x.thread] \in {0, x.id}
                    \/ x.kind = "fallback" /\ x \in fallbacks'
  /\ \A x \in fallbacks' : x.kind = "fallback"
  /\ \A x \in Lines(deferred) :
       x.kind = "start" \/ (x.kind = "fallback" /\ x \in fallbacks')

(* The drain of a thread whose answer or whose turn's end has been read.    *)
LEMMA DrainQuiet ==
  ASSUME TypeOK, ShimQuiet, OwnQueue, NEW t \in Threads, NEW sub, NEW act, NEW pend,
         BeforeSettling(t, sub, pend), Drain(t, sub, act, pend), activeTurns' = act,
         \A u \in Threads : u # t => act[u] = activeTurns[u]
  PROVE  /\ ShimQuiet'
         /\ \A x \in submitted' : x \in sub \/ x \in Lines(toChild')
         /\ Lines(toChild) \subseteq Lines(toChild')
<1>1. activeTurnId'[t] = 0 /\ \A u \in Threads : u # t => activeTurnId'[u] = activeTurnId[u]
  BY DEF Drain, TypeOK
<1>2. \A u \in Threads : u # t =>
        queue'[u] = queue[u] /\ busy'[u] = busy[u] /\ pendingStart'[u] = pendingStart[u]
  BY DEF Drain, DrainNone, DrainToDeferred, DrainToQueue, DrainToChild, TypeOK
<1>3. sub \subseteq submitted' /\ pend \subseteq pending'
  BY DEF Drain, DrainNone, DrainToDeferred, DrainToQueue, DrainToChild
<1>4. /\ busy'[t] => pendingStart'[t] # 0
      /\ pendingStart'[t] # 0 => \E x \in submitted' : x.id = pendingStart'[t] /\ x.thread = t
      /\ \A x \in submitted' :
           x \in sub \/ (x \in pending' /\ pendingStart'[t] = x.id /\ x.kind = "start"
                         /\ x.thread = t /\ x \in Lines(toChild'))
      /\ \A x \in sub : x.thread = t => pendingStart'[t] = 0
      /\ Lines(toChild) \subseteq Lines(toChild')
      /\ queue'[t] # <<>> => \/ \E x \in Lines(deferred') : x.thread = t
                             \/ \E x \in submitted' : x.thread = t
                             \/ act[t] # 0
      /\ Lines(deferred) \subseteq Lines(deferred')
      /\ \A x \in Lines(deferred') : x \in Lines(deferred) \/ x.kind = "start"
  <2>1. CASE DrainNone(t, sub, pend)
    BY <2>1 DEF DrainNone, TypeOK
  <2>2. CASE queue[t] # <<>>
    <3>1. PICK m \in Request : m = Head(queue[t])
      BY <2>2, HeadTailType DEF TypeOK
    <3>2. Lines(queue[t]) = {m} \cup Lines(Tail(queue[t]))
      BY <2>2, <3>1, LinesTail DEF TypeOK
    <3>3. m.thread = t /\ m.kind = "start" /\ m.id # 0
      BY <3>2, SessionQueueAssumption DEF OwnQueue, Request, Ids
    <3>4. CASE DrainToDeferred(t, sub, pend)
      <4>1. Lines(deferred') = Lines(deferred) \cup {m}
        BY <3>1, <3>4, LinesAppend DEF DrainToDeferred, TypeOK
      <4>2. UNCHANGED toChild /\ submitted' = sub /\ ~busy'[t] /\ pendingStart'[t] = 0
        BY <3>4 DEF DrainToDeferred, TypeOK
      <4>3. QED
        BY <3>3, <4>1, <4>2
    <3>5. CASE DrainToQueue(t, sub, act, pend)
      <4>1. /\ UNCHANGED <<toChild, deferred>> /\ submitted' = sub /\ ~busy'[t]
            /\ pendingStart'[t] = 0 /\ RuntimeBusy(t, sub, act)
        BY <3>5 DEF DrainToQueue, TypeOK
      <4>2. QED
        BY <4>1 DEF RuntimeBusy
    <3>6. CASE DrainToChild(t, sub, act, pend)
      <4>1. /\ UNCHANGED deferred /\ submitted' = sub \cup {m} /\ pendingStart'[t] = m.id
            /\ pending' = pend \cup {m} /\ ~RuntimeBusy(t, sub, act)
            /\ toChild' = Append(toChild, m)
        BY <3>1, <3>6 DEF DrainToChild, TypeOK
      <4>2. Lines(toChild') = Lines(toChild) \cup {m}
        BY <4>1, LinesAppend DEF TypeOK
      <4>3. \A x \in sub : x.thread # t
        BY <4>1 DEF RuntimeBusy
      <4>4. QED
        BY <3>3, <4>1, <4>2, <4>3
    <3>7. QED
      BY <2>2, <3>4, <3>5, <3>6 DEF Drain, DrainNone
  <2>3. QED
    BY <2>1, <2>2 DEF Drain, DrainToDeferred, DrainToQueue, DrainToChild
<1>5. BusySaysWhy'
  BY <1>1, <1>2, <1>4 DEF ShimQuiet, BusySaysWhy
<1>6. PendingIsComing'
  <2> SUFFICES ASSUME NEW u \in Threads, pendingStart'[u] # 0, u # t
               PROVE  \/ \E x \in submitted' : x.id = pendingStart'[u] /\ x.thread = u
                      \/ \E x \in Lines(deferred') :
                           x.id = pendingStart'[u] /\ x.thread = u /\ x.kind = "fallback"
    BY <1>4 DEF PendingIsComing
  <2>1. QED
    BY <1>2, <1>3, <1>4 DEF ShimQuiet, PendingIsComing, BeforeSettling
<1>7. ASSUME NEW x \in submitted'
      PROVE  WillSettle(x)'
  <2>1. CASE x \in sub
    <3>1. x.thread \in Threads
      BY <2>1 DEF BeforeSettling, TypeOK, Request
    <3>2. QED
      BY <1>2, <1>3, <1>4, <2>1, <3>1 DEF BeforeSettling, WillSettle
  <2>2. CASE x \notin sub
    BY <1>4, <1>7, <2>2 DEF WillSettle
  <2>3. QED
    BY <2>1, <2>2
<1>8. DeferredIsManaged'
  BY <1>4 DEF DeferredIsManaged, BeforeSettling
<1>9. QueueIsWoken'
  <2> SUFFICES ASSUME NEW u \in Threads, queue'[u] # <<>>
               PROVE  Wakes(u)'
    BY DEF QueueIsWoken
  <2>1. CASE u = t
    BY <1>4, <2>1 DEF Wakes
  <2>2. CASE u # t
    <3>1. Wakes(u)
      BY <1>2, <2>2 DEF ShimQuiet, QueueIsWoken
    <3>2. QED
      BY <1>1, <1>3, <1>4, <2>2, <3>1 DEF Wakes, BeforeSettling
  <2>3. QED
    BY <2>1, <2>2
<1>10. QED
  BY <1>4, <1>5, <1>6, <1>7, <1>8, <1>9 DEF ShimQuiet

(* A thread whose turn turns out to run.                                    *)
LEMMA LiveQuiet ==
  ASSUME TypeOK, ShimQuiet, NEW t \in Threads, NEW sub, NEW pend, NEW i, i # 0,
         BeforeSettling(t, sub, pend),
         busy' = [busy EXCEPT ![t] = TRUE], activeTurnId' = [activeTurnId EXCEPT ![t] = i],
         pendingStart' = [pendingStart EXCEPT ![t] = 0], pending' = pend, submitted' = sub,
         UNCHANGED <<queue, deferred>>,
         \A u \in Threads : u # t => activeTurns'[u] = activeTurns[u]
  PROVE  ShimQuiet'
<1>1. /\ \A u \in Threads : u # t => /\ activeTurnId'[u] = activeTurnId[u] /\ busy'[u] = busy[u]
                                     /\ pendingStart'[u] = pendingStart[u]
      /\ activeTurnId'[t] = i /\ pendingStart'[t] = 0
  BY DEF TypeOK
<1>2. BusySaysWhy'
  BY <1>1 DEF ShimQuiet, BusySaysWhy
<1>3. PendingIsComing'
  BY <1>1 DEF ShimQuiet, PendingIsComing, BeforeSettling
<1>4. ASSUME NEW x \in submitted'
      PROVE  WillSettle(x)'
  <2>1. x.thread \in Threads
    BY <1>4 DEF BeforeSettling, TypeOK, Request
  <2>2. QED
    BY <1>1, <1>4, <2>1 DEF BeforeSettling, WillSettle
<1>5. DeferredIsManaged'
  BY DEF DeferredIsManaged, BeforeSettling
<1>6. QueueIsWoken'
  BY <1>1 DEF ShimQuiet, QueueIsWoken, Wakes, BeforeSettling
<1>7. QED
  BY <1>2, <1>3, <1>4, <1>5, <1>6 DEF ShimQuiet

(* What the pipes say of turns once a line of one of them has been read.    *)
LEMMA PipeReadQuiet ==
  ASSUME TypeOK, StartedIsTrue, NEW v \in Threads, fromChild[v] # <<>>,
         fromChild' = [fromChild EXCEPT ![v] = Tail(fromChild[v])],
         UNCHANGED <<owed, childTurn>>, terminal \subseteq terminal',
         \A i \in Turns : Head(fromChild[v]) = [type |-> "completed", turn |-> i] => i \in terminal'
  PROVE  StartedIsTrue'
<1>1. /\ \A t \in Threads : Lines(fromChild'[t]) \subseteq Lines(fromChild[t])
      /\ \A t \in Threads, i \in Turns : Ended(t, i) =>
           Ended(t, i)' \/ Head(fromChild[v]) = [type |-> "completed", turn |-> i]
  BY PipeRead
<1>2. SUFFICES ASSUME NEW t \in Threads, NEW i \in Turns,
                      [type |-> "started", turn |-> i] \in Lines(fromChild'[t])
               PROVE  RunsOrEnds(t, i)' \/ i \in terminal'
  BY DEF StartedIsTrue
<1>3. RunsOrEnds(t, i) \/ i \in terminal
  BY <1>1, <1>2 DEF StartedIsTrue
<1>4. QED
  BY <1>1, <1>3 DEF RunsOrEnds

LEMMA ResponseQuiet ==
  ASSUME TypeOK, PlacesInv, PathInv, QuietInv, NEW v \in Threads, ReadResponse(v)
  PROVE  QuietInv'
<1>1. PICK m : m = Head(fromChild[v])
  OBVIOUS
<1>2. fromChild[v] # <<>> /\ m.type = "response" /\ fromChild' = [fromChild EXCEPT ![v] = Tail(@)]
      /\ UNCHANGED <<nextId, terminal, owed, childTurn>>
  BY <1>1 DEF ReadResponse, childVars
<1>3. /\ Answers' \subseteq Answers /\ m \in Lines(fromChild[v])
      /\ \A a \in Answers : a \in Answers' \/ a = m
      /\ \A t \in Threads, i \in Turns : Ended(t, i) =>
           Ended(t, i)' \/ m = [type |-> "completed", turn |-> i]
  BY <1>1, <1>2, PipeRead
<1>4. m \in Response /\ m \in Answers
  <2>1. m \in Response \cup Notification
    BY <1>1, <1>2, HeadTailType DEF TypeOK
  <2>2. m \in Response
    BY <1>2, <2>1 DEF Response, Notification
  <2>3. QED
    BY <1>3, <2>2 DEF Answers
<1>5. PICK r \in Request : r = m.req
  BY <1>4 DEF Response
<1>6. r.id \in Ids /\ r.thread = v /\ r.id # 0 /\ r.id \in Turns
  <2>1. r.id \in Ids /\ r.thread = v
    BY <1>2, <1>3, <1>5 DEF PathInv, OwnPipe, Request
  <2>2. QED
    BY <2>1, SessionQueueAssumption DEF Ids, Turns
<1>7. \A x \in Lines(deferred) : x # r
  <2>1. InPipe(r.id)
    BY <1>1, <1>2, <1>5, <1>6, PipeLoses DEF PlacesInv, EachOnce
  <2>2. ~InDeferred(r.id)
    BY <1>6, <2>1 DEF PlacesInv, OnePlace, Nowhere
  <2>3. QED
    BY <2>2 DEF InDeferred, Held, Lines
<1>8. \A t \in Threads, i \in Turns : Ended(t, i) => Ended(t, i)'
  <2>1. \A i \in Turns : m # [type |-> "completed", turn |-> i]
    BY <1>2
  <2>2. QED
    BY <1>3, <2>1
<1>9. StartedIsTrue'
  <2>1. \A i \in Turns : m # [type |-> "completed", turn |-> i]
    BY <1>2
  <2>2. QED
    BY <1>1, <1>2, <2>1, PipeReadQuiet DEF QuietInv
<1>10. PICK ok : ok = (m.result = "ok")
  OBVIOUS
<1>11. PICK act : act = ActiveAfter(r, ok)
  OBVIOUS
<1>12. activeTurns' = act
  BY <1>1, <1>5, <1>10, <1>11 DEF ReadResponse
<1>13. \A t \in Threads : t # v => act[t] = activeTurns[t]
  BY <1>6, <1>11 DEF ActiveAfter, TypeOK
<1>14. ASSUME StillLive(r, ok), r \in submitted
       PROVE  RunsOrEnds(v, r.id)
  <2>1. WorkStart(r)
    BY <1>14 DEF PathInv, AllWork
  <2>2. QED
    BY <1>4, <1>5, <1>6, <1>10, <1>14, <2>1 DEF PathInv, OkHasRun, StillLive, RunsOrEnds
<1>15. \A t \in Threads, i \in Turns : RunsOrEnds(t, i) => RunsOrEnds(t, i)'
  BY <1>2, <1>8 DEF RunsOrEnds
<1>16. /\ \A t \in Threads : activeTurns[t] \in Turns \cup {0} /\ activeTurnId[t] \in Turns \cup {0}
       /\ 0 \notin Turns
  BY SessionQueueAssumption DEF TypeOK, Turns
<1>17. ASSUME NEW t \in Threads, NEW i, i = activeTurns'[t], i # 0
       PROVE  RunsOrEnds(t, i)'
  <2>1. CASE activeTurns'[t] = activeTurns[t]
    BY <1>15, <1>16, <1>17, <2>1 DEF QuietInv, TablesAreTrue
  <2>2. CASE activeTurns'[t] # activeTurns[t]
    <3>1. t = v /\ r \in submitted /\ StillLive(r, ok) /\ activeTurns'[t] = r.id
      BY <1>6, <1>11, <1>12, <2>2 DEF ActiveAfter, TypeOK
    <3>2. QED
      BY <1>6, <1>14, <1>15, <1>17, <3>1
  <2>3. QED
    BY <2>1, <2>2
<1>18. CASE SteerToStart(r)
  <2>1. PICK fb \in Request : fb = FallbackOf(r)
    BY DEF FallbackOf, Request
  <2>2. fb.kind = "fallback" /\ fb.thread = v /\ fb.id = r.id
    BY <1>6, <2>1 DEF FallbackOf, Request
  <2>3. r.kind = "steer" /\ ~IsBusy(v) /\ queue[v] = <<>> /\ r \notin submitted
    BY <1>6, <1>18 DEF SteerToStart, CanFallback, PathInv, AllWork, WorkStart
  <2>4. /\ UNCHANGED <<queue, activeTurnId>> /\ activeTurns' = activeTurns
        /\ pending' = pending \ {r} /\ fallbacks' = fallbacks \cup {fb}
        /\ \A t \in Threads : t # v => busy'[t] = busy[t] /\ pendingStart'[t] = pendingStart[t]
        /\ pendingStart'[v] = r.id
    BY <1>6, <1>11, <1>12, <1>18, <2>1, <2>3 DEF SteerToStart, ActiveAfter, TypeOK
  <2>5. \/ UNCHANGED <<submitted, toChild>> /\ Lines(deferred') = Lines(deferred) \cup {fb}
        \/ /\ UNCHANGED deferred /\ submitted' = submitted \cup {fb}
           /\ Lines(toChild') = Lines(toChild) \cup {fb}
    <3>1. /\ Lines(Append(deferred, fb)) = Lines(deferred) \cup {fb}
          /\ Lines(Append(toChild, fb)) = Lines(toChild) \cup {fb}
      BY LinesAppend DEF TypeOK
    <3>2. QED
      BY <1>18, <2>1, <3>1 DEF SteerToStart
  <2>6. \A x \in submitted : x.thread # v
    BY <2>3 DEF IsBusy, RuntimeBusy
  <2>7. BusySaysWhy'
    BY <1>6, <2>4 DEF QuietInv, ShimQuiet, BusySaysWhy
  <2>8. PendingIsComing'
    <3>1. \A t \in Threads : t # v /\ pendingStart'[t] # 0 =>
            \/ \E x \in submitted : x.id = pendingStart'[t] /\ x.thread = t
            \/ \E x \in Lines(deferred) :
                 x.id = pendingStart'[t] /\ x.thread = t /\ x.kind = "fallback"
      BY <2>4 DEF QuietInv, ShimQuiet, PendingIsComing
    <3>2. submitted \subseteq submitted' /\ Lines(deferred) \subseteq Lines(deferred')
          /\ (fb \in submitted' \/ fb \in Lines(deferred'))
      BY <2>5
    <3>3. QED
      BY <2>2, <2>4, <3>1, <3>2 DEF PendingIsComing
  <2>9. ASSUME NEW x \in submitted'
        PROVE  WillSettle(x)'
    <3>1. CASE x \in submitted
      <4>1. x.thread \in Threads /\ x.thread # v
        BY <2>6, <3>1 DEF TypeOK, Request
      <4>2. x # r
        BY <2>3, <3>1
      <4>3. QED
        BY <2>4, <3>1, <4>1, <4>2 DEF QuietInv, ShimQuiet, WillSettle
    <3>2. CASE x = fb
      BY <2>2, <2>4, <3>2 DEF WillSettle
    <3>3. QED
      BY <2>5, <2>9, <3>1, <3>2
  <2>10. DeferredIsManaged'
    BY <2>2, <2>4, <2>5 DEF QuietInv, ShimQuiet, DeferredIsManaged
  <2>11. QueueIsWoken'
    BY <2>4, <2>5 DEF QuietInv, ShimQuiet, QueueIsWoken, Wakes
  <2>12. SubmittedComes'
    <3>1. \A x \in submitted : x \in Lines(toChild) \/ \E a \in Answers' : a.req = x
      BY <1>3, <1>5, <2>3 DEF QuietInv, SubmittedComes
    <3>2. QED
      BY <2>5, <3>1 DEF SubmittedComes
  <2>13. TablesAreTrue'
    BY <1>15, <1>16, <1>17, <2>4 DEF QuietInv, TablesAreTrue
  <2>14. QED
    BY <1>9, <2>7, <2>8, <2>9, <2>10, <2>11, <2>12, <2>13 DEF QuietInv, ShimQuiet
<1>19. CASE ReadOtherAnswer(r)
  <2>1. r \notin submitted
    BY <1>6, <1>19 DEF ReadOtherAnswer, QuietInv, ShimQuiet, WillSettle
  <2>2. UNCHANGED <<queue, busy, activeTurnId, pendingStart, fallbacks, deferred, toChild>>
        /\ submitted' = submitted /\ activeTurns' = activeTurns /\ pending' = pending \ {r}
    BY <1>11, <1>12, <1>19, <2>1 DEF ReadOtherAnswer, SubmittedAfter, ActiveAfter
  <2>3. ASSUME NEW x \in submitted
        PROVE  WillSettle(x)'
    BY <2>1, <2>2, <2>3 DEF QuietInv, ShimQuiet, WillSettle
  <2>4. /\ BusySaysWhy' /\ PendingIsComing' /\ DeferredIsManaged' /\ QueueIsWoken'
    BY <2>2 DEF QuietInv, ShimQuiet, BusySaysWhy, PendingIsComing, DeferredIsManaged,
                QueueIsWoken, Wakes
  <2>5. SubmittedComes'
    BY <1>3, <1>5, <2>1, <2>2 DEF QuietInv, SubmittedComes
  <2>6. TablesAreTrue'
    BY <1>15, <1>16, <1>17, <2>2 DEF QuietInv, TablesAreTrue
  <2>7. QED
    BY <1>9, <2>2, <2>3, <2>4, <2>5, <2>6 DEF QuietInv, ShimQuiet
<1>20. CASE ReadFallbackAnswer(r, ok) \/ ReadStartAnswer(r, ok)
  <2>1. PICK sub : sub = submitted \ {r}
    OBVIOUS
  <2>2. PICK pend : SettleStart(r, ok, pend)
                    /\ (ReadFallbackAnswer(r, ok) => pend = pending /\ fallbacks' = fallbacks \ {r})
                    /\ (~ReadFallbackAnswer(r, ok) =>
                          pend = pending \ {r} /\ UNCHANGED fallbacks)
    BY <1>20 DEF ReadFallbackAnswer, ReadStartAnswer
  <2>3. BeforeSettling(v, sub, pend)
    <3>1. /\ \A x \in sub : x \in submitted /\ x # r
          /\ \A x \in submitted : x.thread # v => x \in sub
      BY <1>6, <2>1
    <3>2. /\ \A x \in pending : x # r => x \in pend
          /\ \A x \in fallbacks : x # r => x \in fallbacks'
      BY <2>2
    <3>3. \A x \in Lines(deferred) :
            x.kind = "start" \/ (x.kind = "fallback" /\ x \in fallbacks')
      BY <1>7, <3>2 DEF QuietInv, ShimQuiet, DeferredIsManaged
    <3>4. \A x \in fallbacks' : x.kind = "fallback"
      BY <2>2 DEF QuietInv, ShimQuiet, DeferredIsManaged
    <3>5. QED
      BY <3>1, <3>2, <3>3, <3>4 DEF BeforeSettling, QuietInv, ShimQuiet, WillSettle
  <2>4. \A x \in sub : x \in Lines(toChild) \/ \E a \in Answers' : a.req = x
    BY <1>3, <1>5, <2>1 DEF QuietInv, SubmittedComes
  <2>5. CASE Drain(v, sub, act, pend)
    <3>1. /\ ShimQuiet'
          /\ \A x \in submitted' : x \in sub \/ x \in Lines(toChild')
          /\ Lines(toChild) \subseteq Lines(toChild')
      BY <1>12, <1>13, <2>3, <2>5, DrainQuiet DEF QuietInv, PathInv
    <3>2. SubmittedComes'
      BY <2>4, <3>1 DEF SubmittedComes
    <3>3. \A t \in Threads : activeTurnId'[t] = 0 \/ activeTurnId'[t] = activeTurnId[t]
      BY <2>5 DEF Drain, TypeOK
    <3>4. TablesAreTrue'
      BY <1>15, <1>16, <1>17, <3>3 DEF QuietInv, TablesAreTrue
    <3>5. QED
      BY <1>9, <3>1, <3>2, <3>4 DEF QuietInv
  <2>6. CASE ~Drain(v, sub, act, pend)
    <3>1. /\ StillLive(r, ok)
          /\ busy' = [busy EXCEPT ![v] = TRUE]
          /\ activeTurnId' = [activeTurnId EXCEPT ![v] = r.id]
          /\ pendingStart' = [pendingStart EXCEPT ![v] = 0]
          /\ pending' = pend
          /\ submitted' = sub
          /\ UNCHANGED <<queue, deferred, toChild>>
      BY <1>6, <1>11, <2>1, <2>2, <2>6 DEF SettleStart, SubmittedAfter
    <3>2. ShimQuiet'
      BY <1>6, <1>12, <1>13, <2>3, <3>1, LiveQuiet DEF QuietInv
    <3>3. SubmittedComes'
      BY <2>4, <3>1 DEF SubmittedComes
    <3>4. RunsOrEnds(v, r.id)'
      <4>1. WorkStart(r)
        BY <1>20 DEF ReadStartAnswer, ReadFallbackAnswer, WorkStart, QuietInv, ShimQuiet,
                     DeferredIsManaged
      <4>2. QED
        BY <1>4, <1>5, <1>6, <1>10, <1>15, <3>1, <4>1 DEF PathInv, OkHasRun, StillLive, RunsOrEnds
    <3>5. TablesAreTrue'
      BY <1>6, <1>15, <1>16, <1>17, <3>1, <3>4 DEF QuietInv, TablesAreTrue, TypeOK
    <3>6. QED
      BY <1>9, <3>2, <3>3, <3>5 DEF QuietInv
  <2>7. QED
    BY <2>5, <2>6
<1>21. QED
  BY <1>1, <1>5, <1>10, <1>18, <1>19, <1>20 DEF ReadResponse

LEMMA StartedQuiet ==
  ASSUME TypeOK, PathInv, QuietInv, NEW v \in Threads, ReadStarted(v)
  PROVE  QuietInv'
<1>1. PICK m : m = Head(fromChild[v])
  OBVIOUS
<1>2. /\ fromChild[v] # <<>> /\ m.type = "started"
      /\ fromChild' = [fromChild EXCEPT ![v] = Tail(@)]
      /\ UNCHANGED <<queue, pendingStart, pending, fallbacks, submitted, terminal, deferred,
                     toChild, owed, childTurn>>
  BY <1>1 DEF ReadStarted, childVars
<1>3. /\ \A a \in Answers : a \in Answers' \/ a = m
      /\ m \in Lines(fromChild[v])
      /\ \A t \in Threads, i \in Turns : Ended(t, i) =>
           Ended(t, i)' \/ m = [type |-> "completed", turn |-> i]
  BY <1>1, <1>2, PipeRead
<1>4. m \notin Answers
  BY <1>2, InPipeAnswers DEF Response
<1>5. \A i \in Turns : m # [type |-> "completed", turn |-> i]
  BY <1>2
<1>6. StartedIsTrue'
  BY <1>1, <1>2, <1>5, PipeReadQuiet DEF QuietInv
<1>7. SubmittedComes'
  BY <1>2, <1>3, <1>4 DEF QuietInv, SubmittedComes
<1>8. \A t \in Threads, i \in Turns : RunsOrEnds(t, i) => RunsOrEnds(t, i)'
  BY <1>2, <1>3, <1>5 DEF RunsOrEnds
<1>9. /\ \A t \in Threads : activeTurns[t] \in Turns \cup {0} /\ activeTurnId[t] \in Turns \cup {0}
      /\ 0 \notin Turns
  BY SessionQueueAssumption DEF TypeOK, Turns
<1>10. m.turn \in Turns /\ m = [type |-> "started", turn |-> m.turn]
  <2>1. m \in Response \cup Notification
    BY <1>1, <1>2, HeadTailType DEF TypeOK
  <2>2. m \in Notification
    BY <1>2, <2>1 DEF Response, Notification
  <2>3. QED
    BY <1>2, <2>2 DEF Notification
<1>11. CASE m.turn \in terminal
  <2>1. UNCHANGED <<queueVars, submitted, activeTurns, deferred>>
    BY <1>1, <1>2, <1>11 DEF ReadStarted, queueVars
  <2>2. TablesAreTrue'
    BY <1>8, <1>9, <2>1 DEF QuietInv, TablesAreTrue, queueVars
  <2>3. QED
    BY <1>6, <1>7, <2>1, <2>2, ShimQuietKept DEF QuietInv
<1>12. CASE m.turn \notin terminal
  <2>1. /\ busy' = [busy EXCEPT ![v] = TRUE]
        /\ activeTurnId' = [activeTurnId EXCEPT ![v] = m.turn]
        /\ activeTurns' = [activeTurns EXCEPT ![v] = m.turn]
    BY <1>1, <1>12 DEF ReadStarted
  <2>2. PICK i \in Turns : i = m.turn
    BY <1>10
  <2>3. RunsOrEnds(v, i)
    BY <1>3, <1>10, <1>12, <2>2 DEF QuietInv, StartedIsTrue
  <2>4. TablesAreTrue'
    BY <1>8, <1>9, <2>1, <2>2, <2>3 DEF QuietInv, TablesAreTrue, TypeOK
  <2>5. /\ \A t \in Threads : t # v => /\ activeTurnId'[t] = activeTurnId[t] /\ busy'[t] = busy[t]
                                       /\ activeTurns'[t] = activeTurns[t]
        /\ activeTurnId'[v] # 0
    BY <1>9, <1>10, <2>1 DEF TypeOK
  <2>6. BusySaysWhy'
    BY <1>2, <2>5 DEF QuietInv, ShimQuiet, BusySaysWhy
  <2>7. PendingIsComing' /\ (\A x \in submitted' : WillSettle(x)') /\ DeferredIsManaged'
    BY <1>2 DEF QuietInv, ShimQuiet, PendingIsComing, WillSettle, DeferredIsManaged
  <2>8. QueueIsWoken'
    BY <1>2, <2>5 DEF QuietInv, ShimQuiet, QueueIsWoken, Wakes
  <2>9. QED
    BY <1>6, <1>7, <2>4, <2>6, <2>7, <2>8 DEF QuietInv, ShimQuiet
<1>13. QED
  BY <1>11, <1>12

LEMMA CompletedQuiet ==
  ASSUME TypeOK, PathInv, QuietInv, NEW v \in Threads, ReadCompleted(v)
  PROVE  QuietInv'
<1>1. PICK m : m = Head(fromChild[v])
  OBVIOUS
<1>2. /\ fromChild[v] # <<>> /\ m.type = "completed"
      /\ fromChild' = [fromChild EXCEPT ![v] = Tail(@)]
      /\ terminal' = terminal \cup {m.turn}
      /\ UNCHANGED <<fallbacks, owed, childTurn>>
  BY <1>1 DEF ReadCompleted, childVars
<1>3. /\ \A a \in Answers : a \in Answers' \/ a = m
      /\ \A t \in Threads, i \in Turns : Ended(t, i) =>
           Ended(t, i)' \/ m = [type |-> "completed", turn |-> i]
  BY <1>1, <1>2, PipeRead
<1>4. \A a \in Answers : a \in Answers'
  BY <1>2, <1>3, InPipeAnswers DEF Response
<1>5. PICK i \in Turns : i = m.turn
  <2>1. m \in Response \cup Notification
    BY <1>1, <1>2, HeadTailType DEF TypeOK
  <2>2. QED
    BY <1>2, <2>1 DEF Response, Notification
<1>6. StartedIsTrue'
  <2>1. \A j \in Turns : m = [type |-> "completed", turn |-> j] => j \in terminal'
    BY <1>2
  <2>2. QED
    BY <1>1, <1>2, <2>1, PipeReadQuiet DEF QuietInv
<1>7. \A t \in Threads, j \in Turns :
        RunsOrEnds(t, j) /\ (t # v \/ j # i) => RunsOrEnds(t, j)'
  <2>1. ASSUME NEW t \in Threads, NEW j \in Turns, Ended(t, j), t # v
        PROVE  Ended(t, j)'
    <3>1. fromChild'[t] = fromChild[t]
      BY <1>2, <2>1 DEF TypeOK
    <3>2. QED
      BY <2>1, <3>1 DEF Ended
  <2>2. ASSUME NEW t \in Threads, NEW j \in Turns, Ended(t, j), j # i
        PROVE  Ended(t, j)'
    BY <1>3, <1>5, <2>2
  <2>3. QED
    BY <1>2, <2>1, <2>2 DEF RunsOrEnds
<1>8. /\ \A t \in Threads : activeTurns[t] \in Turns \cup {0} /\ activeTurnId[t] \in Turns \cup {0}
      /\ 0 \notin Turns
  BY SessionQueueAssumption DEF TypeOK, Turns
<1>9. PICK act : act = ActiveAfterEnd(v, i)
  OBVIOUS
<1>10. /\ activeTurns' = act
       /\ \A t \in Threads : t # v => act[t] = activeTurns[t]
       /\ act[v] # i /\ (act[v] = activeTurns[v] \/ act[v] = 0)
       /\ act[v] # activeTurns[v] => activeTurns[v] = i
  BY <1>1, <1>5, <1>8, <1>9 DEF ReadCompleted, ActiveAfterEnd, TypeOK
<1>11. CASE activeTurnId[v] \notin {0, i}
  <2>1. UNCHANGED <<queue, busy, activeTurnId, pendingStart, pending, submitted, deferred, toChild>>
    BY <1>1, <1>5, <1>11 DEF ReadCompleted
  <2>2. BusySaysWhy' /\ PendingIsComing' /\ (\A x \in submitted' : WillSettle(x)')
        /\ DeferredIsManaged'
    BY <1>2, <2>1 DEF QuietInv, ShimQuiet, BusySaysWhy, PendingIsComing, WillSettle,
                      DeferredIsManaged
  <2>3. QueueIsWoken'
    BY <1>10, <1>11, <2>1 DEF QuietInv, ShimQuiet, QueueIsWoken, Wakes
  <2>4. SubmittedComes'
    BY <1>4, <2>1 DEF QuietInv, SubmittedComes
  <2>5. TablesAreTrue'
    BY <1>7, <1>8, <1>10, <1>11, <2>1 DEF QuietInv, TablesAreTrue
  <2>6. QED
    BY <1>6, <2>2, <2>3, <2>4, <2>5 DEF QuietInv, ShimQuiet
<1>12. CASE activeTurnId[v] \in {0, i}
  <2>1. Drain(v, submitted, act, pending)
    BY <1>1, <1>5, <1>9, <1>12 DEF ReadCompleted
  <2>2. BeforeSettling(v, submitted, pending)
    BY <1>2 DEF BeforeSettling, QuietInv, ShimQuiet, WillSettle, DeferredIsManaged
  <2>3. /\ ShimQuiet'
        /\ \A x \in submitted' : x \in submitted \/ x \in Lines(toChild')
        /\ Lines(toChild) \subseteq Lines(toChild')
    BY <1>10, <2>1, <2>2, DrainQuiet DEF QuietInv, PathInv
  <2>4. SubmittedComes'
    BY <1>4, <2>3 DEF QuietInv, SubmittedComes
  <2>5. activeTurnId'[v] = 0 /\ \A t \in Threads : t # v => activeTurnId'[t] = activeTurnId[t]
    BY <2>1 DEF Drain, TypeOK
  <2>6. TablesAreTrue'
    BY <1>7, <1>8, <1>10, <2>5 DEF QuietInv, TablesAreTrue
  <2>7. QED
    BY <1>6, <2>3, <2>4, <2>6 DEF QuietInv
<1>13. QED
  BY <1>11, <1>12

LEMMA RequestQuiet ==
  ASSUME "review" \notin Kinds, TypeOK, PathInv, QuietInv, NEW v \in Threads, NEW k \in Kinds,
         ClientRequest(v, k)
  PROVE  QuietInv'
<1>1. PICK r : r = [id |-> nextId, thread |-> v, kind |-> k]
  OBVIOUS
<1>2. r \in Request /\ r.kind \in {"start", "steer"}
  BY <1>1, SessionQueueAssumption DEF ClientRequest, Request, Ids, TypeOK, AllKinds
<1>3. UNCHANGED <<owed, fromChild, childTurn, terminal, activeTurns, activeTurnId>>
  BY DEF ClientRequest, childVars, queueVars, Admit
<1>4. TablesAreTrue' /\ StartedIsTrue'
  BY <1>3 DEF QuietInv, TablesAreTrue, StartedIsTrue, RunsOrEnds, Ended
<1>5. CASE Admit(r) /\ UNCHANGED deferred
  BY <1>2, <1>3, <1>4, <1>5, AdmitQuiet DEF QuietInv
<1>6. CASE Blocked(r) /\ deferred' = Append(deferred, r) /\ UNCHANGED <<queueVars, submitted, toChild>>
  <2>1. Lines(deferred') = Lines(deferred) \cup {r} /\ r.kind = "start"
    BY <1>2, <1>6, LinesAppend DEF TypeOK, Blocked, WorkStart
  <2>2. ShimQuiet'
    <3>1. PendingIsComing'
      BY <1>6, <2>1 DEF QuietInv, ShimQuiet, PendingIsComing, queueVars
    <3>2. BusySaysWhy' /\ (\A x \in submitted' : WillSettle(x)') /\ DeferredIsManaged'
      BY <1>6, <2>1 DEF QuietInv, ShimQuiet, BusySaysWhy, WillSettle, DeferredIsManaged, queueVars
    <3>3. QueueIsWoken'
      BY <1>3, <1>6, <2>1 DEF QuietInv, ShimQuiet, QueueIsWoken, Wakes, queueVars
    <3>4. QED
      BY <3>1, <3>2, <3>3 DEF ShimQuiet
  <2>3. SubmittedComes'
    BY <1>3, <1>6 DEF QuietInv, SubmittedComes, Answers
  <2>4. QED
    BY <1>4, <2>2, <2>3 DEF QuietInv
<1>7. QED
  BY <1>1, <1>5, <1>6 DEF ClientRequest

LEMMA FlushQuiet ==
  ASSUME TypeOK, QuietInv, FlushDeferred
  PROVE  QuietInv'
<1>1. deferred \in Seq(Request) /\ deferred # <<>>
  BY DEF FlushDeferred, TypeOK
<1>2. PICK r \in Request : r = Head(deferred)
  BY <1>1, HeadTailType
<1>3. Lines(deferred) = {r} \cup Lines(deferred')
  BY <1>1, <1>2, LinesTail DEF FlushDeferred
<1>4. Admit(r) /\ UNCHANGED <<owed, fromChild, childTurn, terminal, activeTurns, activeTurnId>>
  BY <1>2 DEF FlushDeferred, childVars, Admit
<1>5. TablesAreTrue' /\ StartedIsTrue'
  BY <1>4 DEF QuietInv, TablesAreTrue, StartedIsTrue, RunsOrEnds, Ended
<1>6. r.kind = "start" \/ (r.kind = "fallback" /\ r \in fallbacks)
  BY <1>3 DEF QuietInv, ShimQuiet, DeferredIsManaged
<1>7. QED
  BY <1>3, <1>4, <1>5, <1>6, AdmitQuiet DEF QuietInv

LEMMA BarrierQuiet ==
  ASSUME QuietInv, RaiseBarrier \/ LowerBarrier \/ UNCHANGED vars
  PROVE  QuietInv'
<1>1. UNCHANGED <<queueVars, submitted, activeTurns, deferred, terminal, toChild, owed, fromChild,
                  childTurn>>
  BY DEF RaiseBarrier, LowerBarrier, vars, tableVars, childVars
<1>2. SubmittedComes' /\ TablesAreTrue' /\ StartedIsTrue'
  BY <1>1 DEF QuietInv, SubmittedComes, TablesAreTrue, StartedIsTrue, RunsOrEnds, Ended, Answers,
              queueVars
<1>3. QED
  BY <1>1, <1>2, ShimQuietKept DEF QuietInv

LEMMA ChildTakeQuiet ==
  ASSUME TypeOK, PlacesInv, PathInv, QuietInv, ChildTake
  PROVE  QuietInv'
<1>1. PICK r : r = Head(toChild)
  OBVIOUS
<1>2. /\ toChild # <<>> /\ toChild' = Tail(toChild)
      /\ UNCHANGED <<queueVars, submitted, activeTurns, deferred, terminal>>
  BY DEF ChildTake, ChildAccept, ChildRefuse, ChildSteer, tableVars
<1>3. /\ r \in Request /\ r.id \in Ids /\ r.thread \in Threads /\ r.id \in Turns
  <2>1. r \in Request /\ r.id \in Ids /\ r.thread \in Threads
    BY <1>1, <1>2, TakenIsNew
  <2>2. QED
    BY <2>1, SessionQueueAssumption DEF Ids, Turns
<1>4. PICK a : a.req = r /\ owed' = owed \cup {a}
  <2>1. \A result : Answer(r, result).req = r
    BY DEF Answer
  <2>2. QED
    BY <1>1, <2>1 DEF ChildTake, ChildAccept, ChildRefuse, ChildSteer
<1>5. /\ \A t \in Threads : Lines(fromChild[t]) \subseteq Lines(fromChild'[t])
      /\ \A t \in Threads, i \in Turns : childTurn[t] = i => childTurn'[t] = i
      /\ \A t \in Threads, i \in Turns :
           [type |-> "started", turn |-> i] \in Lines(fromChild'[t]) =>
             [type |-> "started", turn |-> i] \in Lines(fromChild[t]) \/ childTurn'[t] = i
  <2>1. CASE ChildAccept
    <3>1. PICK x \in Notification : x = [type |-> "started", turn |-> r.id]
      BY <1>3 DEF Notification
    <3>2. fromChild' = [fromChild EXCEPT ![r.thread] = Append(fromChild[r.thread], x)]
      BY <1>1, <2>1, <3>1 DEF ChildAccept
    <3>3. \A t \in Threads : Lines(fromChild'[t]) =
            IF t = r.thread THEN Lines(fromChild[r.thread]) \cup {x} ELSE Lines(fromChild[t])
      <4>1. x \in Messages
        BY <3>1 DEF Messages
      <4>2. QED
        BY <1>3, <3>2, <4>1, PipeWritten
    <3>4. /\ childTurn[r.thread] = 0 /\ childTurn'[r.thread] = r.id
          /\ \A t \in Threads : t # r.thread => childTurn'[t] = childTurn[t]
      BY <1>1, <1>3, <2>1 DEF ChildAccept, TypeOK
    <3>5. 0 \notin Turns
      BY SessionQueueAssumption DEF Turns
    <3>6. \A i \in Turns : [type |-> "started", turn |-> i] = x => i = r.id
      <4>1. \A i \in Turns : [type |-> "started", turn |-> i].turn = i
        OBVIOUS
      <4>2. x.turn = r.id
        BY <3>1
      <4>3. QED
        BY <4>1, <4>2
    <3>7. QED
      BY <3>3, <3>4, <3>5, <3>6
  <2>2. CASE UNCHANGED <<fromChild, childTurn>>
    BY <2>2
  <2>3. QED
    BY <2>1, <2>2 DEF ChildTake, ChildRefuse, ChildSteer
<1>6. \A t \in Threads, i \in Turns : RunsOrEnds(t, i) => RunsOrEnds(t, i)'
  BY <1>5 DEF RunsOrEnds, Ended
<1>7. TablesAreTrue'
  <2>1. /\ \A t \in Threads : activeTurns[t] \in Turns \cup {0} /\ activeTurnId[t] \in Turns \cup {0}
        /\ 0 \notin Turns
    BY SessionQueueAssumption DEF TypeOK, Turns
  <2>2. QED
    BY <1>2, <1>6, <2>1 DEF QuietInv, TablesAreTrue, queueVars
<1>8. StartedIsTrue'
  BY <1>2, <1>5, <1>6 DEF QuietInv, StartedIsTrue, RunsOrEnds
<1>9. SubmittedComes'
  <2>1. Lines(toChild) = {r} \cup Lines(toChild')
    BY <1>1, <1>2, LinesTail DEF TypeOK
  <2>2. Answers \subseteq Answers' /\ a \in Answers'
    BY <1>4, <1>5 DEF Answers
  <2>3. QED
    BY <1>2, <1>4, <2>1, <2>2 DEF QuietInv, SubmittedComes
<1>10. QED
  BY <1>2, <1>7, <1>8, <1>9, ShimQuietKept DEF QuietInv

(* A line more in a pipe, and a turn that ends with it or does not begin.   *)
LEMMA ToldQuiet ==
  ASSUME TypeOK, QuietInv, NEW v \in Threads, NEW x \in Messages,
         UNCHANGED <<queueVars, submitted, activeTurns, deferred, terminal, toChild>>,
         fromChild' = [fromChild EXCEPT ![v] = Append(fromChild[v], x)],
         owed' = owed \/ (owed' = owed \ {x} /\ x \in Response),
         \A t \in Threads, i \in Turns : childTurn[t] = i =>
           childTurn'[t] = i \/ (t = v /\ x = [type |-> "completed", turn |-> i]),
         \A i \in Turns : x = [type |-> "started", turn |-> i] => childTurn'[v] = i
  PROVE  QuietInv'
<1>1. /\ \A t \in Threads :
           Lines(fromChild'[t]) = IF t = v THEN Lines(fromChild[v]) \cup {x} ELSE Lines(fromChild[t])
      /\ \A t \in Threads, i \in Turns : Ended(t, i)' <=>
           Ended(t, i) \/ (t = v /\ x = [type |-> "completed", turn |-> i])
  BY PipeWritten
<1>2. \A t \in Threads, i \in Turns : RunsOrEnds(t, i) => RunsOrEnds(t, i)'
  BY <1>1 DEF RunsOrEnds
<1>3. TablesAreTrue'
  <2>1. /\ \A t \in Threads : activeTurns[t] \in Turns \cup {0} /\ activeTurnId[t] \in Turns \cup {0}
        /\ 0 \notin Turns
    BY SessionQueueAssumption DEF TypeOK, Turns
  <2>2. QED
    BY <1>2, <2>1 DEF QuietInv, TablesAreTrue, queueVars
<1>4. StartedIsTrue'
  BY <1>1, <1>2 DEF QuietInv, StartedIsTrue, RunsOrEnds
<1>5. SubmittedComes'
  <2>1. Answers \subseteq Answers'
    BY <1>1 DEF Answers
  <2>2. QED
    BY <2>1 DEF QuietInv, SubmittedComes
<1>6. QED
  BY <1>3, <1>4, <1>5, ShimQuietKept DEF QuietInv

LEMMA ChildTellsQuiet ==
  ASSUME TypeOK, QuietInv,
         \/ \E a \in owed : ChildAnswer(a)
         \/ \E t \in Threads : ChildFinish(t) \/ ChildGoalTurn(t)
  PROVE  QuietInv'
<1>1. ASSUME NEW a \in owed, ChildAnswer(a)
      PROVE  QuietInv'
  <2>1. /\ a \in Response /\ a \in Messages /\ a.type = "response" /\ a.req.thread \in Threads
    BY DEF TypeOK, Messages, Response, Request
  <2>2. /\ UNCHANGED <<queueVars, submitted, activeTurns, deferred, terminal, toChild, childTurn>>
        /\ fromChild' = [fromChild EXCEPT ![a.req.thread] = Append(fromChild[a.req.thread], a)]
        /\ owed' = owed \ {a}
    BY <1>1 DEF ChildAnswer, tableVars
  <2>3. \A i \in Turns : a # [type |-> "started", turn |-> i]
    BY <2>1
  <2>4. PICK u \in Threads : u = a.req.thread
    BY <2>1
  <2>5. QED
    BY <2>1, <2>2, <2>3, <2>4, ToldQuiet
<1>2. ASSUME NEW v \in Threads, ChildFinish(v)
      PROVE  QuietInv'
  <2>1. PICK j \in Turns : j = childTurn[v]
    BY <1>2 DEF ChildFinish, TypeOK
  <2>2. PICK x \in Messages : x = [type |-> "completed", turn |-> j]
    BY DEF Messages, Notification
  <2>3. /\ UNCHANGED <<queueVars, submitted, activeTurns, deferred, terminal, toChild, owed>>
        /\ fromChild' = [fromChild EXCEPT ![v] = Append(fromChild[v], x)]
        /\ \A t \in Threads : t # v => childTurn'[t] = childTurn[t]
    BY <1>2, <2>1, <2>2 DEF ChildFinish, tableVars, TypeOK
  <2>4. \A i \in Turns : x # [type |-> "started", turn |-> i]
    BY <2>2
  <2>5. \A t \in Threads, i \in Turns : childTurn[t] = i =>
          childTurn'[t] = i \/ (t = v /\ x = [type |-> "completed", turn |-> i])
    BY <2>1, <2>2, <2>3
  <2>6. \A i \in Turns : x = [type |-> "started", turn |-> i] => childTurn'[v] = i
    BY <2>4
  <2>7. owed' = owed
    BY <2>3
  <2>8. QED
    BY <2>3, <2>5, <2>6, <2>7, ToldQuiet
<1>3. ASSUME NEW v \in Threads, ChildGoalTurn(v)
      PROVE  QuietInv'
  <2>1. PICK j \in Turns : j = MaxReq + goalTurns + 1
    BY <1>3, SessionQueueAssumption DEF ChildGoalTurn, Turns, TypeOK
  <2>2. PICK x \in Messages : x = [type |-> "started", turn |-> j]
    BY DEF Messages, Notification
  <2>3. /\ UNCHANGED <<queueVars, submitted, activeTurns, deferred, terminal, toChild, owed>>
        /\ fromChild' = [fromChild EXCEPT ![v] = Append(fromChild[v], x)]
        /\ \A t \in Threads : t # v => childTurn'[t] = childTurn[t]
        /\ childTurn[v] = 0 /\ childTurn'[v] = j
    BY <1>3, <2>1, <2>2 DEF ChildGoalTurn, tableVars, TypeOK
  <2>4. \A i \in Turns : x = [type |-> "started", turn |-> i] => i = j
    <3>1. x.turn = j
      BY <2>2
    <3>2. QED
      BY <3>1
  <2>5. \A t \in Threads, i \in Turns : childTurn[t] = i => childTurn'[t] = i
    <3>1. 0 \notin Turns
      BY SessionQueueAssumption DEF Turns
    <3>2. QED
      BY <2>3, <3>1
  <2>6. \A i \in Turns : x = [type |-> "started", turn |-> i] => childTurn'[v] = i
    BY <2>3, <2>4
  <2>7. owed' = owed
    BY <2>3
  <2>8. \A t \in Threads, i \in Turns : childTurn[t] = i =>
          childTurn'[t] = i \/ (t = v /\ x = [type |-> "completed", turn |-> i])
    BY <2>5
  <2>9. QED
    BY <2>3, <2>6, <2>7, <2>8, ToldQuiet
<1>4. QED
  BY <1>1, <1>2, <1>3

LEMMA QuietStep ==
  ASSUME "review" \notin Kinds, TypeOK, PlacesInv, PathInv, QuietInv, [Next]_vars
  PROVE  QuietInv'
BY RequestQuiet, FlushQuiet, BarrierQuiet, ResponseQuiet, StartedQuiet, CompletedQuiet,
   ChildTakeQuiet, ChildTellsQuiet DEF Next, Read

(* When nothing of a thread is before, at or on its way from the child, and *)
(* nothing of it waits behind the barrier, the shim is not busy with it and *)
(* holds no start of it: whatever sets a thread busy or queues a start has  *)
(* something ahead of it that clears it.  The assumption is that a client   *)
(* sends no work the coordinator does not manage; the answer to such work   *)
(* wakes nobody (queue 168), and with it the property is false.             *)
THEOREM QuietThreads ==
  ASSUME "review" \notin Kinds
  PROVE  Spec => []QuietThreadIsIdle
<1>1. Init => PlacesInv /\ NamesInv /\ PathInv
  BY PlacesInit, NamesInit, PathInit
<1>2. Init => QuietInv
  <2> SUFFICES ASSUME Init
               PROVE  QuietInv
    OBVIOUS
  <2>1. /\ \A t \in Threads : Lines(fromChild[t]) = {}
        /\ Lines(deferred) = {}
    BY DEF Init, Lines
  <2>2. QED
    BY <2>1 DEF Init, QuietInv, ShimQuiet, BusySaysWhy, PendingIsComing, DeferredIsManaged,
                QueueIsWoken, SubmittedComes, TablesAreTrue, StartedIsTrue
<1>3. TypeOK /\ PlacesInv /\ NamesInv /\ PathInv /\ QuietInv /\ [Next]_vars
        => (PlacesInv /\ NamesInv /\ PathInv /\ QuietInv)'
  BY PlacesStep, NamesStep, PathStep, QuietStep
<1>4. TypeOK /\ PathInv /\ QuietInv => QuietThreadIsIdle
  <2> SUFFICES ASSUME TypeOK, PathInv, QuietInv, NEW t \in Threads, Quiet(t)
               PROVE  /\ ~busy[t] /\ activeTurns[t] = 0 /\ activeTurnId[t] = 0
                      /\ pendingStart[t] = 0 /\ queue[t] = <<>>
    BY DEF QuietThreadIsIdle
  <2>1. /\ \A x \in Lines(deferred) : x.thread # t
        /\ \A x \in Lines(toChild) : x.thread # t
    <3>1. DOMAIN deferred = 1..Len(deferred) /\ DOMAIN toChild = 1..Len(toChild)
      BY DEF TypeOK
    <3>2. QED
      BY <3>1 DEF Quiet, Lines
  <2>2. Lines(fromChild[t]) = {} /\ childTurn[t] = 0
    BY DEF Quiet, Lines
  <2>3. \A a \in Answers : a.req.thread # t
    <3>1. \A a \in owed : a.req.thread # t
      BY DEF Quiet
    <3>2. ASSUME NEW a \in Response, NEW u \in Threads, a \in Lines(fromChild[u])
          PROVE  a.req.thread # t
      BY <2>2, <3>2 DEF PathInv, OwnPipe, Response
    <3>3. QED
      BY <3>1, <3>2 DEF Answers
  <2>4. \A x \in submitted : x.thread # t
    BY <2>1, <2>3 DEF QuietInv, SubmittedComes
  <2>5. \A i : i # 0 => ~RunsOrEnds(t, i)
    BY <2>2 DEF RunsOrEnds, Ended
  <2>6. activeTurns[t] = 0 /\ activeTurnId[t] = 0
    BY <2>5 DEF QuietInv, TablesAreTrue
  <2>7. pendingStart[t] = 0
    BY <2>1, <2>4 DEF QuietInv, ShimQuiet, PendingIsComing
  <2>8. QED
    BY <2>1, <2>4, <2>6, <2>7 DEF QuietInv, ShimQuiet, BusySaysWhy, QueueIsWoken, Wakes
<1>5. QED
  BY <1>1, <1>2, <1>3, <1>4, TypeCorrect, PTL DEF Spec
=============================================================================
