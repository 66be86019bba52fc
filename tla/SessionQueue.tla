---------------------------- MODULE SessionQueue ----------------------------
(***************************************************************************)
(* The request queue that the Codex runtime shim keeps between a client    *)
(* and its Codex app-server child (runtime/codex-session-queue.cjs), with  *)
(* the parts of the shim it works against: the table of submitted starts,  *)
(* the table of active turns, the terminal-turn set and the lines that a   *)
(* switch barrier defers (runtime/codex-app-server-shim.cjs).              *)
(*                                                                         *)
(* The shim is one thread: each of its actions is one handler run to its   *)
(* end.  The client and the child are separate processes joined to it by   *)
(* ordered pipes.  The child (external) accepts or refuses a start, may    *)
(* answer a request long after the turn it began has ended, and may begin  *)
(* turns of its own (Goal mode).                                           *)
(***************************************************************************)
EXTENDS Integers, Sequences, FiniteSets, Functions

CONSTANTS
  Threads,            \* conversations
  Kinds,              \* request kinds the client may send, see AllKinds
  MaxReq,             \* bound: requests the client sends
  MaxGoalTurns,       \* bound: turns the child begins by itself
  MaxQueuePerThread,  \* MAX_QUEUE_PER_THREAD
  MaxTotalQueue       \* MAX_TOTAL_QUEUE

(* "start": a managed turn/start.  "review": any other work start (review/  *)
(* start, thread/compact/start, an ephemeral turn/start).  "steer":         *)
(* turn/steer.                                                              *)
AllKinds == {"start", "review", "steer"}

ASSUME SessionQueueAssumption ==
  /\ IsFiniteSet(Threads)
  /\ Kinds \subseteq AllKinds
  /\ MaxReq \in Nat
  /\ MaxGoalTurns \in Nat
  /\ MaxQueuePerThread \in Nat
  /\ MaxTotalQueue \in Nat

VARIABLES
  nextId,        \* id of the client's next request; ids grow in issue order
  queue,         \* state.queue, per thread
  busy,          \* state.busy
  activeTurnId,  \* state.activeTurnId, 0 when undefined
  pendingStart,  \* state.pendingStartId, 0 when undefined
  pending,       \* SessionQueueCoordinator.pending
  fallbacks,     \* SessionQueueCoordinator.fallbacks
  submitted,     \* submittedTurnStarts
  activeTurns,   \* activeTurns: the one live turn of a thread, 0 when none
  terminal,      \* terminalTurnIds (both tables; never near their limits here)
  deferred,      \* deferredOfficialLines
  barrier,       \* isSwitchBarrierActive()
  toChild,       \* the child's stdin
  owed,          \* answers the child has decided on and not yet written
  fromChild,     \* the child's stdout, one pipe per thread
  childTurn,     \* the turn the child runs on a thread, 0 when idle
  goalTurns,     \* number of turns the child began by itself
  answers        \* number of answers written to the client, per request

queueVars == <<queue, busy, activeTurnId, pendingStart, pending, fallbacks>>
tableVars == <<submitted, activeTurns, terminal, deferred, barrier>>
childVars == <<owed, childTurn, goalTurns>>
vars == <<nextId, queueVars, tableVars, toChild, fromChild, childVars, answers>>

-----------------------------------------------------------------------------
Ids == 1..MaxReq
Request == [id : Ids, thread : Threads, kind : AllKinds \cup {"fallback"}]

(* A turn carries the id of the request that began it; the child's own      *)
(* turns are numbered after all of those.                                   *)
Turns == 1..(MaxReq + MaxGoalTurns)

Response == [type : {"response"}, req : Request, result : {"ok", "error", "noActiveTurn"}]
Notification == [type : {"started", "completed"}, turn : Turns]

WorkStart(r) == r.kind # "steer"

(* The internal turn/start that replaces a steer: same text, internal id.   *)
FallbackOf(r) == [r EXCEPT !.kind = "fallback"]

Slots(q) == UNION {{t} \X (1..Len(q[t])) : t \in Threads}
TotalQueued == Cardinality(Slots(queue))

(* Faulty: a start whose answer is outstanding does not count.              *)
RuntimeBusyActiveOnly(t, sub, act) == act[t] # 0

RuntimeBusy(t, sub, act) == act[t] # 0 \/ \E r \in sub : r.thread = t

IsBusy(t) == busy[t] \/ pendingStart[t] # 0 \/ RuntimeBusy(t, submitted, activeTurns)

(* Faulty: both limits off by one.                                          *)
HasRoomLate(t) == Len(queue[t]) <= MaxQueuePerThread /\ TotalQueued <= MaxTotalQueue

HasRoom(t) == Len(queue[t]) < MaxQueuePerThread /\ TotalQueued < MaxTotalQueue

CanFallback(t) == ~IsBusy(t) /\ queue[t] = <<>>

(* The flush of deferred lines is a loop that nothing interrupts: once the  *)
(* barrier is down, the shim does nothing else until it has ended.          *)
Ready == barrier \/ deferred = <<>>

-----------------------------------------------------------------------------
Init ==
  /\ nextId = 1
  /\ queue = [t \in Threads |-> <<>>]
  /\ busy = [t \in Threads |-> FALSE]
  /\ activeTurnId = [t \in Threads |-> 0]
  /\ pendingStart = [t \in Threads |-> 0]
  /\ pending = {}
  /\ fallbacks = {}
  /\ submitted = {}
  /\ activeTurns = [t \in Threads |-> 0]
  /\ terminal = {}
  /\ deferred = <<>>
  /\ barrier = FALSE
  /\ toChild = <<>>
  /\ owed = {}
  /\ fromChild = [t \in Threads |-> <<>>]
  /\ childTurn = [t \in Threads |-> 0]
  /\ goalTurns = 0
  /\ answers = [i \in Ids |-> 0]

-----------------------------------------------------------------------------
(* handleOfficialLine, once the barrier has let the line through.           *)

Enqueue(r) ==
  /\ r.kind = "start" /\ IsBusy(r.thread) /\ HasRoom(r.thread)
  /\ queue' = [queue EXCEPT ![r.thread] = Append(@, r)]
  /\ UNCHANGED <<busy, pendingStart, pending, submitted, toChild, answers>>

RejectFull(r) ==
  /\ r.kind = "start" /\ IsBusy(r.thread) /\ ~HasRoom(r.thread)
  /\ answers' = [answers EXCEPT ![r.id] = @ + 1]
  /\ UNCHANGED <<queue, busy, pendingStart, pending, submitted, toChild>>

ForwardStart(r) ==
  /\ r.kind = "start" /\ ~IsBusy(r.thread)
  /\ busy' = [busy EXCEPT ![r.thread] = TRUE]
  /\ pendingStart' = [pendingStart EXCEPT ![r.thread] = r.id]
  /\ pending' = pending \cup {r}
  /\ submitted' = submitted \cup {r}
  /\ toChild' = Append(toChild, r)
  /\ UNCHANGED <<queue, answers>>

ForwardOther(r) ==
  /\ r.kind # "start"
  /\ pending' = IF r.kind = "steer" THEN pending \cup {r} ELSE pending
  /\ submitted' = IF WorkStart(r) THEN submitted \cup {r} ELSE submitted
  /\ toChild' = Append(toChild, r)
  /\ UNCHANGED <<queue, busy, pendingStart, answers>>

Admit(r) ==
  /\ Enqueue(r) \/ RejectFull(r) \/ ForwardStart(r) \/ ForwardOther(r)
  /\ UNCHANGED <<activeTurnId, fallbacks, activeTurns, terminal>>

(* Faulty: the barrier holds only the work the coordinator does not manage. *)
BlockedUnmanaged(r) == barrier /\ r.kind = "review"

Blocked(r) == barrier /\ WorkStart(r)

ClientRequest(t, k) ==
  LET r == [id |-> nextId, thread |-> t, kind |-> k] IN
  /\ Ready /\ nextId <= MaxReq
  /\ nextId' = nextId + 1
  /\ \/ /\ Blocked(r)
        /\ deferred' = Append(deferred, r)
        /\ UNCHANGED <<queueVars, submitted, activeTurns, terminal, toChild, answers>>
     \/ /\ ~Blocked(r)
        /\ Admit(r)
        /\ UNCHANGED deferred
  /\ UNCHANGED <<barrier, fromChild, childVars>>

(* One turn of the loop in flushDeferredOfficialLines.                      *)
FlushDeferred ==
  /\ ~barrier /\ deferred # <<>>
  /\ deferred' = Tail(deferred)
  /\ Admit(Head(deferred))
  /\ UNCHANGED <<nextId, barrier, fromChild, childVars>>

(* The switch transaction (module SwitchBarrier) raises and lowers it.      *)
RaiseBarrier ==
  /\ Ready /\ ~barrier
  /\ barrier' = TRUE
  /\ UNCHANGED <<nextId, queueVars, submitted, activeTurns, terminal, deferred,
                 toChild, fromChild, childVars, answers>>

LowerBarrier ==
  /\ barrier
  /\ barrier' = FALSE
  /\ UNCHANGED <<nextId, queueVars, submitted, activeTurns, terminal, deferred,
                 toChild, fromChild, childVars, answers>>

-----------------------------------------------------------------------------
(* drain(t, true), and what handleOfficialLine does with the request that   *)
(* drain hands back: it is deferred, queued again at the back when the      *)
(* runtime tables still show work on the thread, or forwarded.  sub, act    *)
(* and pend are the tables as the calling handler leaves them.              *)

DrainNone(t, sub, pend) ==
  /\ queue[t] = <<>>
  /\ busy' = [busy EXCEPT ![t] = FALSE]
  /\ pendingStart' = [pendingStart EXCEPT ![t] = 0]
  /\ pending' = pend
  /\ submitted' = sub
  /\ UNCHANGED <<queue, deferred, toChild>>

DrainToDeferred(t, sub, pend) ==
  /\ queue[t] # <<>> /\ barrier
  /\ queue' = [queue EXCEPT ![t] = Tail(@)]
  /\ deferred' = Append(deferred, Head(queue[t]))
  /\ busy' = [busy EXCEPT ![t] = FALSE]
  /\ pendingStart' = [pendingStart EXCEPT ![t] = 0]
  /\ pending' = pend
  /\ submitted' = sub
  /\ UNCHANGED toChild

DrainToQueue(t, sub, act, pend) ==
  /\ queue[t] # <<>> /\ ~barrier /\ RuntimeBusy(t, sub, act)
  /\ queue' = [queue EXCEPT ![t] = Append(Tail(@), Head(@))]
  /\ busy' = [busy EXCEPT ![t] = FALSE]
  /\ pendingStart' = [pendingStart EXCEPT ![t] = 0]
  /\ pending' = pend
  /\ submitted' = sub
  /\ UNCHANGED <<deferred, toChild>>

(* Faulty: the request is read from the queue and not removed.              *)
DrainToChildPeek(t, sub, act, pend) ==
  LET m == Head(queue[t]) IN
  /\ queue[t] # <<>> /\ ~barrier /\ ~RuntimeBusy(t, sub, act)
  /\ busy' = [busy EXCEPT ![t] = TRUE]
  /\ pendingStart' = [pendingStart EXCEPT ![t] = m.id]
  /\ pending' = pend \cup {m}
  /\ submitted' = sub \cup {m}
  /\ toChild' = Append(toChild, m)
  /\ UNCHANGED <<queue, deferred>>

DrainToChild(t, sub, act, pend) ==
  LET m == Head(queue[t]) IN
  /\ queue[t] # <<>> /\ ~barrier /\ ~RuntimeBusy(t, sub, act)
  /\ queue' = [queue EXCEPT ![t] = Tail(@)]
  /\ busy' = [busy EXCEPT ![t] = TRUE]
  /\ pendingStart' = [pendingStart EXCEPT ![t] = m.id]
  /\ pending' = pend \cup {m}
  /\ submitted' = sub \cup {m}
  /\ toChild' = Append(toChild, m)
  /\ UNCHANGED deferred

Drain(t, sub, act, pend) ==
  /\ activeTurnId' = [activeTurnId EXCEPT ![t] = 0]
  /\ \/ DrainNone(t, sub, pend)
     \/ DrainToDeferred(t, sub, pend)
     \/ DrainToQueue(t, sub, act, pend)
     \/ DrainToChild(t, sub, act, pend)

-----------------------------------------------------------------------------
(* handleCodexLine on a response.                                           *)

(* submittedTurnStarts and activeTurns once the answer of r has been read.  *)
SubmittedAfter(r) == submitted \ {r}

(* Faulty: a late answer revives a turn that has already ended.             *)
StillLiveLate(r, ok) == ok

(* Faulty: a refused start counts as running.                               *)
StillLiveRefused(r, ok) == r.id \notin terminal

StillLive(r, ok) == ok /\ r.id \notin terminal

ActiveAfter(r, ok) ==
  IF r \in submitted /\ StillLive(r, ok)
  THEN [activeTurns EXCEPT ![r.thread] = r.id]
  ELSE activeTurns

(* The answer of a managed start or of a fallback settles the thread.       *)
SettleStart(r, ok, pend) ==
  LET t == r.thread IN
     \/ /\ StillLive(r, ok)
        /\ busy' = [busy EXCEPT ![t] = TRUE]
        /\ activeTurnId' = [activeTurnId EXCEPT ![t] = r.id]
        /\ pendingStart' = [pendingStart EXCEPT ![t] = 0]
        /\ pending' = pend
        /\ submitted' = SubmittedAfter(r)
        /\ UNCHANGED <<queue, deferred, toChild>>
     \/ /\ ~StillLive(r, ok)
        /\ Drain(t, SubmittedAfter(r), ActiveAfter(r, ok), pend)

ReadFallbackAnswer(r, ok) ==
  /\ r \in fallbacks
  /\ fallbacks' = fallbacks \ {r}
  /\ SettleStart(r, ok, pending)
  /\ answers' = [answers EXCEPT ![r.id] = @ + 1]

ReadStartAnswer(r, ok) ==
  /\ r.kind = "start" /\ r \in pending
  /\ pendingStart[r.thread] \in {0, r.id}
  /\ SettleStart(r, ok, pending \ {r})
  /\ answers' = [answers EXCEPT ![r.id] = @ + 1]
  /\ UNCHANGED fallbacks

(* The coordinator leaves the thread alone: a start another start has       *)
(* displaced, an answer to a steer, or work it does not manage.             *)
ReadOtherAnswer(r) ==
  /\ r \notin fallbacks
  /\ ~(r.kind = "start" /\ r \in pending /\ pendingStart[r.thread] \in {0, r.id})
  /\ pending' = pending \ {r}
  /\ submitted' = SubmittedAfter(r)
  /\ answers' = [answers EXCEPT ![r.id] = @ + 1]
  /\ UNCHANGED <<queue, busy, activeTurnId, pendingStart, fallbacks, deferred, toChild>>

(* A steer that found no turn becomes, once, an internal start.             *)
SteerToStart(r) ==
  LET fb == FallbackOf(r) IN
  /\ r.kind = "steer" /\ r \in pending /\ CanFallback(r.thread)
  /\ pending' = pending \ {r}
  /\ fallbacks' = fallbacks \cup {fb}
  /\ busy' = [busy EXCEPT ![r.thread] = TRUE]
  /\ pendingStart' = [pendingStart EXCEPT ![r.thread] = r.id]
  /\ \/ /\ barrier
        /\ deferred' = Append(deferred, fb)
        /\ UNCHANGED <<submitted, toChild>>
     \/ /\ ~barrier
        /\ submitted' = submitted \cup {fb}
        /\ toChild' = Append(toChild, fb)
        /\ UNCHANGED deferred
  /\ UNCHANGED <<queue, activeTurnId, answers>>

ReadResponse(t) ==
  LET m == Head(fromChild[t])
      r == m.req
      retry == r.kind = "steer" /\ m.result = "noActiveTurn" /\ CanFallback(t)
  IN /\ Ready /\ fromChild[t] # <<>> /\ m.type = "response"
     /\ fromChild' = [fromChild EXCEPT ![t] = Tail(@)]
     /\ activeTurns' = ActiveAfter(r, m.result = "ok")
     /\ \/ retry /\ SteerToStart(r)
        \/ /\ ~retry
           /\ \/ ReadFallbackAnswer(r, m.result = "ok")
              \/ ReadStartAnswer(r, m.result = "ok")
              \/ ReadOtherAnswer(r)
     /\ UNCHANGED <<nextId, terminal, barrier, childVars>>

-----------------------------------------------------------------------------
(* handleCodexLine on turn/started and turn/completed.                      *)

ReadStarted(t) ==
  LET m == Head(fromChild[t]) IN
  /\ Ready /\ fromChild[t] # <<>> /\ m.type = "started"
  /\ fromChild' = [fromChild EXCEPT ![t] = Tail(@)]
  /\ IF m.turn \in terminal
     THEN UNCHANGED <<busy, activeTurnId, activeTurns>>
     ELSE /\ busy' = [busy EXCEPT ![t] = TRUE]
          /\ activeTurnId' = [activeTurnId EXCEPT ![t] = m.turn]
          /\ activeTurns' = [activeTurns EXCEPT ![t] = m.turn]
  /\ UNCHANGED <<nextId, queue, pendingStart, pending, fallbacks, submitted, terminal,
                 deferred, barrier, toChild, childVars, answers>>

ActiveAfterEnd(t, turn) ==
  [activeTurns EXCEPT ![t] = IF @ = turn THEN 0 ELSE @]

ReadCompleted(t) ==
  LET m == Head(fromChild[t]) IN
  /\ Ready /\ fromChild[t] # <<>> /\ m.type = "completed"
  /\ fromChild' = [fromChild EXCEPT ![t] = Tail(@)]
  /\ terminal' = terminal \cup {m.turn}
  /\ activeTurns' = ActiveAfterEnd(t, m.turn)
  /\ IF activeTurnId[t] \notin {0, m.turn}
     THEN UNCHANGED <<queue, busy, activeTurnId, pendingStart, pending, submitted,
                      deferred, toChild>>
     ELSE Drain(t, submitted, ActiveAfterEnd(t, m.turn), pending)
  /\ UNCHANGED <<nextId, fallbacks, barrier, childVars, answers>>

-----------------------------------------------------------------------------
(* The child (external).                                                    *)

Answer(r, result) == [type |-> "response", req |-> r, result |-> result]

ChildAccept ==
  LET r == Head(toChild) IN
  /\ toChild # <<>> /\ WorkStart(r) /\ childTurn[r.thread] = 0
  /\ toChild' = Tail(toChild)
  /\ childTurn' = [childTurn EXCEPT ![r.thread] = r.id]
  /\ fromChild' = [fromChild EXCEPT ![r.thread] =
                     Append(@, [type |-> "started", turn |-> r.id])]
  /\ owed' = owed \cup {Answer(r, "ok")}
  /\ UNCHANGED <<nextId, queueVars, tableVars, goalTurns, answers>>

ChildRefuse ==
  LET r == Head(toChild) IN
  /\ toChild # <<>>
  /\ toChild' = Tail(toChild)
  /\ owed' = owed \cup {Answer(r, "error")}
  /\ UNCHANGED <<nextId, queueVars, tableVars, fromChild, childTurn, goalTurns, answers>>

ChildSteer ==
  LET r == Head(toChild) IN
  /\ toChild # <<>> /\ ~WorkStart(r)
  /\ toChild' = Tail(toChild)
  /\ owed' = owed \cup
       {Answer(r, IF childTurn[r.thread] # 0 THEN "ok" ELSE "noActiveTurn")}
  /\ UNCHANGED <<nextId, queueVars, tableVars, fromChild, childTurn, goalTurns, answers>>

ChildAnswer(a) ==
  /\ a \in owed
  /\ owed' = owed \ {a}
  /\ fromChild' = [fromChild EXCEPT ![a.req.thread] = Append(@, a)]
  /\ UNCHANGED <<nextId, queueVars, tableVars, toChild, childTurn, goalTurns, answers>>

ChildFinish(t) ==
  /\ childTurn[t] # 0
  /\ childTurn' = [childTurn EXCEPT ![t] = 0]
  /\ fromChild' = [fromChild EXCEPT ![t] =
                     Append(@, [type |-> "completed", turn |-> childTurn[t]])]
  /\ UNCHANGED <<nextId, queueVars, tableVars, toChild, owed, goalTurns, answers>>

ChildGoalTurn(t) ==
  LET turn == MaxReq + goalTurns + 1 IN
  /\ childTurn[t] = 0 /\ goalTurns < MaxGoalTurns
  /\ goalTurns' = goalTurns + 1
  /\ childTurn' = [childTurn EXCEPT ![t] = turn]
  /\ fromChild' = [fromChild EXCEPT ![t] =
                     Append(@, [type |-> "started", turn |-> turn])]
  /\ UNCHANGED <<nextId, queueVars, tableVars, toChild, owed, answers>>

-----------------------------------------------------------------------------
Read(t) == ReadResponse(t) \/ ReadStarted(t) \/ ReadCompleted(t)

ChildTake == ChildAccept \/ ChildRefuse \/ ChildSteer

Next ==
  \/ \E t \in Threads, k \in Kinds : ClientRequest(t, k)
  \/ FlushDeferred
  \/ RaiseBarrier
  \/ LowerBarrier
  \/ \E t \in Threads : Read(t)
  \/ ChildTake
  \/ \E a \in owed : ChildAnswer(a)
  \/ \E t \in Threads : ChildFinish(t) \/ ChildGoalTurn(t)

(* The event loop runs every handler that has input; a switch ends; a       *)
(* healthy child takes its input, answers each request and ends each turn.  *)
Fairness ==
  /\ WF_vars(FlushDeferred)
  /\ WF_vars(LowerBarrier)
  /\ WF_vars(ChildTake)
  /\ WF_vars(\E a \in owed : ChildAnswer(a))
  /\ \A t \in Threads : WF_vars(Read(t)) /\ WF_vars(ChildFinish(t))

Spec == Init /\ [][Next]_vars
FairSpec == Spec /\ Fairness

-----------------------------------------------------------------------------
(* Properties.                                                              *)

(* Every variable stays in its type.                                        *)
TypeOK ==
  /\ nextId \in 1..(MaxReq + 1)
  /\ queue \in [Threads -> Seq(Request)]
  /\ busy \in [Threads -> BOOLEAN]
  /\ activeTurnId \in [Threads -> Turns \cup {0}]
  /\ pendingStart \in [Threads -> Ids \cup {0}]
  /\ pending \subseteq Request
  /\ fallbacks \subseteq Request
  /\ submitted \subseteq Request
  /\ activeTurns \in [Threads -> Turns \cup {0}]
  /\ terminal \subseteq Turns
  /\ deferred \in Seq(Request)
  /\ barrier \in BOOLEAN
  /\ toChild \in Seq(Request)
  /\ owed \subseteq Response
  /\ fromChild \in [Threads -> Seq(Response \cup Notification)]
  /\ childTurn \in [Threads -> Turns \cup {0}]
  /\ goalTurns \in 0..MaxGoalTurns
  /\ answers \in [Ids -> Nat]

(* Where a request is: a slot of the session queue, of the deferred lines,  *)
(* of the child's stdin, an answer decided on, or an answer in the pipe.    *)
Places(i) ==
  UNION {
    UNION {{<<"queue", t, n>> : n \in
       {m \in DOMAIN queue[t] : queue[t][m].id = i}} : t \in Threads},
    {<<"deferred", n>> : n \in {m \in DOMAIN deferred : deferred[m].id = i}},
    {<<"toChild", n>> : n \in {m \in DOMAIN toChild : toChild[m].id = i}},
    {<<"owed", a>> : a \in {b \in owed : b.req.id = i}},
    UNION {{<<"fromChild", t, n>> : n \in
       {m \in DOMAIN fromChild[t] : fromChild[t][m].type = "response"
                                    /\ fromChild[t][m].req.id = i}} : t \in Threads}}

(* Each request the client has sent is in exactly one place: held in the   *)
(* session queue, held behind the barrier, on its way to the child, being   *)
(* answered, or answered once.  No handler loses a request, sends it twice  *)
(* or answers it twice, whatever the order of answers and notifications.    *)
EachRequestInOnePlace ==
  \A i \in 1..(nextId - 1) : Cardinality(Places(i)) + answers[i] = 1

(* A start waiting in the child's stdin is alone: no other managed start of *)
(* its thread waits beside it, and the child runs no turn of the client's   *)
(* on that thread.  This is what queueing a second turn/start is for.       *)
StartsWaiting(t) ==
  {n \in DOMAIN toChild : toChild[n].thread = t /\ toChild[n].kind = "start"}
OneStartAtATime ==
  \A t \in Threads :
    /\ Cardinality(StartsWaiting(t)) <= 1
    /\ StartsWaiting(t) # {} => childTurn[t] \notin Ids

(* The queue stays within both limits, also when a drained request is put   *)
(* back because the runtime tables still show work on its thread.           *)
QueueWithinLimits ==
  /\ \A t \in Threads : Len(queue[t]) <= MaxQueuePerThread
  /\ TotalQueued <= MaxTotalQueue

(* A turn whose completion has been read is never live again, although its  *)
(* start's answer and its turn/started may be read afterwards.              *)
NoResurrection ==
  \A t \in Threads : activeTurns[t] \notin terminal /\ activeTurnId[t] \notin terminal

(* A thread with nothing on its way to, at, or from the child and nothing   *)
(* behind the barrier is not busy and holds no queued start: the shim       *)
(* neither forgets to wake a queued start nor stays busy for ever.          *)
Quiet(t) ==
  /\ \A n \in DOMAIN deferred : deferred[n].thread # t
  /\ \A n \in DOMAIN toChild : toChild[n].thread # t
  /\ \A a \in owed : a.req.thread # t
  /\ fromChild[t] = <<>> /\ childTurn[t] = 0
QuietThreadIsIdle ==
  \A t \in Threads : Quiet(t) =>
    /\ ~busy[t] /\ activeTurns[t] = 0 /\ activeTurnId[t] = 0 /\ pendingStart[t] = 0
    /\ queue[t] = <<>>

(* While the barrier is up no step gives the child new work, by any of the  *)
(* four ways a start can reach it.                                          *)
WorkOnTheWay == {r \in Range(toChild) : WorkStart(r)}
BarrierHoldsWork == [][barrier => WorkOnTheWay' \subseteq WorkOnTheWay]_vars

(* docs/HOT_SWITCH.md:51: a held turn/start is sent once its thread's turn  *)
(* has ended.  Over the first two requests of a thread: when the child has  *)
(* ended a turn and owes nothing, no start is still queued.                 *)
HeldStartSentAfterTurn ==
  \A t \in Threads : Quiet(t) /\ terminal # {} => queue[t] = <<>>

(* Every request of the client is answered: no start waits for ever in the   *)
(* queue or behind the barrier, and no answer is swallowed.  (Answers stay,  *)
(* so this says of each request what nextId > i ~> answers[i] = 1 says.)    *)
AllAnswered == \A i \in Ids : nextId > i => answers[i] = 1
EveryRequestAnswered == []<>AllAnswered
=============================================================================
