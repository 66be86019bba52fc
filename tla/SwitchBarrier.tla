---------------------------- MODULE SwitchBarrier ----------------------------
(***************************************************************************)
(* The account switch transaction of the Codex runtime shim                *)
(* (runtime/codex-app-server-shim.cjs): a request raises a barrier against *)
(* new work, pauses the Goals of the busy threads, waits for the turns to  *)
(* end or interrupts them when the grace period is over, moves the child's *)
(* login and the manager's account together, and then resumes Goals and    *)
(* continues interrupted threads; or it is canceled, deferred, or rolled   *)
(* back.                                                                   *)
(*                                                                         *)
(* The shim is one thread.  Each of its actions is one callback, or one    *)
(* stretch of an async function between two awaits; a stretch that follows *)
(* another without waiting runs before any other callback (EventLoopFree). *)
(* The child and the manager are other processes; every call to them has a *)
(* timer, and a call whose timer has fired may still be carried out.       *)
(***************************************************************************)
EXTENDS Integers, Sequences, FiniteSets

CONSTANTS
  Threads,        \* conversations
  Accounts,       \* accounts of the manager
  InitAccount,    \* the account everything starts on
  Policies,       \* hotSwitchLongTurnPolicy values used
  MaxSwitches,    \* bound: switch requests of the manager
  MaxTurns,       \* bound: turns the child begins on one thread
  MaxStarts,      \* bound: work starts of the client
  InitGoals,      \* Goal statuses the threads may begin with
  RecentSets,     \* sets a request may find in recentUsageLimitedThreads
  Timeouts        \* calls whose timer may fire, see TimedCalls

AllPolicies == {"defer", "interrupt", "interruptAndContinue"}

(* The steps of drainPendingSwitch, named for what they await.              *)
ForwardSteps == {"login", "identity", "activate", "resume", "continue"}
UndoSteps == {"undoLogin", "undoIdentity", "undoActivate", "undoResume"}
TimedCalls == {"goalGet", "pause", "recover", "interrupt"} \cup ForwardSteps \cup UndoSteps

ASSUME SwitchBarrierAssumption ==
  /\ IsFiniteSet(Threads)
  /\ InitAccount \in Accounts
  /\ Policies \subseteq AllPolicies
  /\ MaxSwitches \in Nat /\ MaxTurns \in Nat /\ MaxStarts \in Nat
  /\ InitGoals \subseteq [Threads -> {"none", "active", "limited"}]
  /\ RecentSets \subseteq SUBSET Threads
  /\ Timeouts \subseteq TimedCalls

VARIABLES
  (* the child (external) *)
  toChild,         \* requests the child has not taken, per thread
  pipe,            \* what the child has written and the shim not read, per thread
  owed,            \* answers to starts the child has not yet written, per thread
  run,             \* the turn the child runs on a thread, 0 when idle
  begun,           \* number of turns begun on a thread; turns are numbered so
  ordinary,        \* whether a start and not the Goal began the last turn of a thread
  goal,            \* Goal status of a thread
  childAccount,    \* the account the child is logged in with
  auth,            \* account requests the child has not taken
  (* the manager (external) *)
  mgr,             \* account/activate requests the manager has not taken
  managerAccount,  \* the manager's current account
  answer,          \* settled account call of the transaction: "none", "ok", "bad"
  (* tables of the shim *)
  submitted,       \* threads in submittedTurnStarts
  active,          \* activeTurns, per thread, 0 when none
  ended,           \* terminalTurnIds: the highest turn read as ended, per thread
  held,            \* threads with a work start in deferredOfficialLines
  shimAccount,     \* activeManagedAccount
  (* the switch *)
  op,              \* number of switch requests accepted so far
  opState,         \* recentSwitchOperations
  pending,         \* pendingSwitch is set
  req,             \* the request object
  prep,            \* prepareGoalsForSwitch: position, thread, threads left
  recQ,            \* recoverPausedGoals calls outstanding, by caller, oldest first
  rec,             \* the oldest of them: position, thread, threads left
  intWait,         \* threads whose turn/interrupt is unanswered
  timer,           \* the grace timer is armed
  drain,           \* drainPendingSwitch has been called in this callback
  tx,              \* drainPendingSwitch past its guard: step, position, flags
  starts,          \* work starts of the client so far
  cut,             \* observation: threads without a Goal to go on with that the switch
                   \* cut off and did not ask to go on
  uncertain,       \* observation: a rollback step failed and no switch succeeded since
  unresumed        \* observation: the shim gave up on resuming a Goal

childVars == <<toChild, pipe, owed, run, begun, ordinary, goal, childAccount, auth>>
managerVars == <<mgr, managerAccount, answer>>
tableVars == <<submitted, active, ended, held, shimAccount>>
switchVars == <<op, opState, pending, req, prep, recQ, rec, intWait, timer, drain, tx>>
vars == <<childVars, managerVars, tableVars, switchVars, starts, cut, uncertain, unresumed>>
givenUp == <<uncertain, unresumed>>
observed == <<cut, givenUp>>

-----------------------------------------------------------------------------
Ops == 1..MaxSwitches
GoalStatus == {"none", "active", "paused", "limited"}
Final == {"switched", "deferred", "failed"}

Put(ch, t, m) == [ch EXCEPT ![t] = Append(@, m)]
Call(kind, by, n) == [kind |-> kind, by |-> by, n |-> n]
Reply(by, val, n) == [type |-> "reply", by |-> by, val |-> val, n |-> n]
Note(type, val, n) == [type |-> type, by |-> "stale", val |-> val, n |-> n]

Barrier == pending \/ tx.step # "off" \/ prep.at # "off" \/ recQ # <<>>

ActiveThreads == {t \in Threads : active[t] # 0}
(* Faulty: starts the child has not answered are not counted.               *)
NoTurnActive == ActiveThreads = {}
NoTurnCounted == submitted = {} /\ ActiveThreads = {}

(* No stretch of the callback that runs now is left to run.                 *)
EventLoopFree ==
  /\ ~drain
  /\ prep.at # "next"
  /\ recQ # <<>> => rec.at = "await"
  /\ tx.step # "off" => tx.at = "await"
  /\ Barrier \/ held = {}

(* Who waits for an answer.  The interrupts of a request that is canceled   *)
(* stay its own; after a timer fires, the answer to the call is ignored and *)
(* the call itself is still on its way.                                     *)
Waiters == {"client", "prep", "rec", "int", "again", "oldInt", "oldAgain", "main", "stale"}
Relabel(T, f) ==
  /\ toChild' = [t \in Threads |->
        IF t \in T THEN [i \in DOMAIN toChild[t] |-> [toChild[t][i] EXCEPT !.by = f[@]]]
        ELSE toChild[t]]
  /\ pipe' = [t \in Threads |->
        IF t \in T THEN [i \in DOMAIN pipe[t] |-> [pipe[t][i] EXCEPT !.by = f[@]]]
        ELSE pipe[t]]
  /\ owed' = [t \in Threads |->
        IF t \in T THEN {[o EXCEPT !.by = f[@]] : o \in owed[t]} ELSE owed[t]]
Abandon(T, B) == Relabel(T, [b \in Waiters |-> IF b \in B THEN "stale" ELSE b])
LeaveInterrupts ==
  Relabel(Threads, [b \in Waiters |-> IF b = "int" THEN "oldInt"
                                      ELSE IF b = "again" THEN "oldAgain" ELSE b])

NoRequest ==
  [canceled |-> TRUE, prepared |-> FALSE, policy |-> "defer", target |-> InitAccount,
   previous |-> InitAccount, recent |-> {}, limited |-> {}, paused |-> {},
   interrupted |-> [t \in Threads |-> 0], recovery |-> {}, intFailed |-> FALSE]
Idle == [at |-> "off", t |-> CHOOSE t \in Threads : TRUE, todo |-> {}]
NoTx == [step |-> "off", at |-> "await", t |-> CHOOSE t \in Threads : TRUE, todo |-> {},
         applied |-> FALSE, attempted |-> FALSE]

Init ==
  /\ toChild = [t \in Threads |-> <<>>]
  /\ pipe = [t \in Threads |-> <<>>]
  /\ owed = [t \in Threads |-> {}]
  /\ run = [t \in Threads |-> 0]
  /\ begun = [t \in Threads |-> 0]
  /\ ordinary = [t \in Threads |-> FALSE]
  /\ goal \in InitGoals
  /\ childAccount = InitAccount /\ managerAccount = InitAccount /\ shimAccount = InitAccount
  /\ auth = <<>> /\ mgr = <<>> /\ answer = "none"
  /\ submitted = {} /\ held = {}
  /\ active = [t \in Threads |-> 0]
  /\ ended = [t \in Threads |-> 0]
  /\ op = 0
  /\ opState = [o \in Ops |-> "unknown"]
  /\ pending = FALSE
  /\ req = NoRequest
  /\ prep = Idle /\ recQ = <<>> /\ rec = Idle
  /\ intWait = {} /\ timer = FALSE /\ drain = FALSE
  /\ tx = NoTx
  /\ starts = 0 /\ cut = {} /\ uncertain = FALSE /\ unresumed = FALSE

-----------------------------------------------------------------------------
(* Client work (turn/start, review/start, thread/compact/start).            *)

WorkStart(t) ==
  /\ EventLoopFree /\ starts < MaxStarts
  /\ t \notin submitted \cup held
  /\ starts' = starts + 1
  /\ IF Barrier
     THEN held' = held \cup {t} /\ UNCHANGED <<submitted, toChild>>
     ELSE /\ submitted' = submitted \cup {t}
          /\ toChild' = Put(toChild, t, Call("start", "client", 0))
          /\ UNCHANGED held
  /\ UNCHANGED <<pipe, owed, run, begun, ordinary, goal, childAccount, auth, managerVars,
                 active, ended, shimAccount, switchVars, observed>>

(* One turn of the loop in flushDeferredOfficialLines.                      *)
FlushHeld(t) ==
  /\ ~drain /\ ~Barrier /\ t \in held
  /\ held' = held \ {t}
  /\ submitted' = submitted \cup {t}
  /\ toChild' = Put(toChild, t, Call("start", "client", 0))
  /\ UNCHANGED <<pipe, owed, run, begun, ordinary, goal, childAccount, auth, managerVars,
                 active, ended, shimAccount, switchVars, starts, observed>>

-----------------------------------------------------------------------------
(* queueRuntimeSwitchRequest: accepted only when nothing is under way.      *)
SwitchRequest(policy, target, recent) ==
  /\ EventLoopFree /\ ~Barrier /\ op < MaxSwitches
  /\ target # managerAccount
  /\ op' = op + 1
  /\ opState' = [opState EXCEPT ![op + 1] = "pending"]
  /\ pending' = TRUE
  /\ req' = [NoRequest EXCEPT !.canceled = FALSE, !.policy = policy, !.target = target,
                              !.previous = managerAccount, !.recent = recent]
  /\ prep' = [prep EXCEPT !.at = "next", !.todo = submitted \cup ActiveThreads \cup recent]
  /\ intWait' = {} /\ cut' = {}
  /\ LeaveInterrupts
  /\ UNCHANGED <<run, begun, ordinary, goal, childAccount, auth, managerVars, tableVars,
                 recQ, rec, timer, drain, tx, starts, givenUp>>

-----------------------------------------------------------------------------
(* prepareGoalsForSwitch.                                                   *)

EndPrepare(r, p) ==
  /\ req' = r /\ timer' = p
  /\ prep' = [prep EXCEPT !.at = "off", !.todo = {}]
  /\ drain' = TRUE

PrepareNext ==
  /\ prep.at = "next"
  /\ \/ /\ req.canceled
        /\ EndPrepare(req, timer)
        /\ UNCHANGED toChild
     \/ /\ ~req.canceled /\ prep.todo = {}
        /\ EndPrepare([req EXCEPT !.prepared = TRUE], ~NoTurnCounted)
        /\ UNCHANGED toChild
     \/ /\ ~req.canceled
        /\ \E t \in prep.todo :
             /\ prep' = [at |-> "goalGet", t |-> t, todo |-> prep.todo \ {t}]
             /\ toChild' = Put(toChild, t, Call("goalGet", "prep", 0))
        /\ UNCHANGED <<req, timer, drain>>
  /\ UNCHANGED <<pipe, owed, run, begun, ordinary, goal, childAccount, auth, managerVars,
                 tableVars, op, opState, pending, recQ, rec, intWait, tx, starts, observed>>

(* A Goal is paused: it is this request's to resume.                        *)
GoalPaused(r, t) ==
  [r EXCEPT !.paused = @ \cup {t},
            !.limited = IF t \in r.recent THEN @ \cup {t} ELSE @,
            !.recovery = IF t \in r.recent THEN @ \ {t} ELSE @]

(* No active Goal: a thread the quota stopped is resumed or continued.      *)
NoActiveGoal(r, t, status) ==
  [r EXCEPT !.limited = IF t \in r.recent /\ status = "limited" THEN @ \cup {t} ELSE @,
            !.recovery = IF t \notin r.recent THEN @
                         ELSE IF status = "limited" THEN @ \ {t} ELSE @ \cup {t}]

(* reconcileMissingThreadForSwitch                                          *)
ThreadGone(r, t) ==
  [r EXCEPT !.paused = @ \ {t}, !.recovery = @ \ {t}, !.recent = @ \ {t}, !.limited = @ \ {t},
            !.interrupted = [@ EXCEPT ![t] = 0]]

(* Faulty: the recovery of paused Goals is not queued.                      *)
PrepareFailsOnly ==
  /\ req' = [req EXCEPT !.canceled = TRUE]
  /\ pending' = FALSE
  /\ prep' = [prep EXCEPT !.at = "recover"]
  /\ UNCHANGED <<recQ, active, ended>>

PrepareFails ==
  /\ req' = [req EXCEPT !.canceled = TRUE]
  /\ pending' = FALSE
  /\ recQ' = Append(recQ, "prep")
  /\ prep' = [prep EXCEPT !.at = "recover"]
  /\ UNCHANGED <<active, ended>>

PrepareContinues(r) ==
  /\ req' = r
  /\ prep' = [prep EXCEPT !.at = "next"]
  /\ UNCHANGED <<pending, recQ, active, ended>>

PrepareMissing(t) ==
  /\ req' = ThreadGone(req, t)
  /\ active' = [active EXCEPT ![t] = 0]
  /\ ended' = [ended EXCEPT ![t] = IF active[t] > @ THEN active[t] ELSE @]
  /\ prep' = [prep EXCEPT !.at = "next"]
  /\ UNCHANGED <<pending, recQ>>

PrepareAsksPause(t) ==
  /\ prep' = [prep EXCEPT !.at = "pause"]
  /\ toChild' = Put(toChild, t, Call("pause", "prep", 0))
  /\ UNCHANGED <<req, pending, recQ, active, ended>>

(* Faulty: a Goal paused after the cancellation is not recovered.           *)
PreparePausedLate(t) ==
  /\ req' = GoalPaused(req, t)
  /\ prep' = [prep EXCEPT !.at = "next"]
  /\ UNCHANGED <<pending, recQ, active, ended>>

PreparePaused(t) ==
  /\ req' = GoalPaused(req, t)
  /\ prep' = [prep EXCEPT !.at = IF req.canceled THEN "late" ELSE "next"]
  /\ recQ' = IF req.canceled THEN Append(recQ, "prep") ELSE recQ
  /\ UNCHANGED <<pending, active, ended>>

(* The thread/goal/get or thread/goal/set of prep.t settles with val.       *)
PrepareReply(val) ==
  LET t == prep.t IN
  /\ prep.at \in {"goalGet", "pause"}
  /\ \/ /\ val = "error"
        /\ PrepareFails
        /\ UNCHANGED toChild
     \/ /\ val = "missing"
        /\ PrepareMissing(t)
        /\ UNCHANGED toChild
     \/ /\ prep.at = "goalGet" /\ val = "active" /\ ~req.canceled
        /\ PrepareAsksPause(t)
     \/ /\ prep.at = "goalGet" /\ val \in GoalStatus /\ (val # "active" \/ req.canceled)
        /\ PrepareContinues(IF req.canceled THEN req ELSE NoActiveGoal(req, t, val))
        /\ UNCHANGED toChild
     \/ /\ prep.at = "pause" /\ val = "paused"
        /\ PreparePaused(t)
        /\ UNCHANGED toChild

-----------------------------------------------------------------------------
(* recoverPausedGoals: the calls queue up behind each other.  When the one    *)
(* for a Goal paused too late fails, the preparation fails and makes another. *)

RecoveredOutcome(caller, ok) == IF caller = "defer" /\ ok THEN "deferred" ELSE "failed"

Again == rec.at = "failed" /\ Head(recQ) = "prep" /\ prep.at = "late"

RecoverNext ==
  /\ recQ # <<>> /\ rec.at # "await"
  /\ LET todo == IF rec.at = "off" THEN req.paused ELSE rec.todo IN
     \/ \E t \in todo :
          /\ rec' = [at |-> "await", t |-> t, todo |-> todo \ {t}]
          /\ toChild' = Put(toChild, t, Call("resume", "rec", 0))
          /\ UNCHANGED <<recQ, prep, drain, opState>>
     \/ /\ Again
        /\ rec' = [rec EXCEPT !.at = "off", !.todo = {}]
        /\ recQ' = Append(Tail(recQ), "prep")
        /\ prep' = [prep EXCEPT !.at = "recover"]
        /\ UNCHANGED <<toChild, drain, opState>>
     \/ /\ (todo = {} \/ rec.at = "failed") /\ ~Again
        /\ rec' = [rec EXCEPT !.at = "off", !.todo = {}]
        /\ recQ' = Tail(recQ)
        /\ prep' = IF Head(recQ) = "prep" THEN [prep EXCEPT !.at = "off", !.todo = {}] ELSE prep
        /\ drain' = (drain \/ Head(recQ) = "prep")
        /\ opState' = [opState EXCEPT ![op] = RecoveredOutcome(Head(recQ), rec.at # "failed")]
        /\ UNCHANGED toChild
  /\ UNCHANGED <<pipe, owed, run, begun, ordinary, goal, childAccount, auth, managerVars,
                 tableVars, op, pending, req, intWait, timer, tx, starts, observed>>

(* thread/goal/set active settles for a recovery.                           *)
RecoverReply(val) ==
  IF val = "active"
  THEN /\ req' = [req EXCEPT !.paused = @ \ {rec.t}]
       /\ rec' = [rec EXCEPT !.at = "next"]
       /\ UNCHANGED unresumed
  ELSE /\ unresumed' = TRUE
       /\ UNCHANGED req
       /\ rec' = [rec EXCEPT !.at = "failed", !.todo = {}]

-----------------------------------------------------------------------------
(* runtime/cancel, and the manager's socket closing.                        *)
Cancel ==
  /\ EventLoopFree /\ pending
  /\ pending' = FALSE
  /\ req' = [req EXCEPT !.canceled = TRUE]
  /\ timer' = FALSE
  /\ opState' = [opState EXCEPT ![op] = "failed"]
  /\ recQ' = Append(recQ, "cancel")
  /\ intWait' = {}
  /\ LeaveInterrupts
  /\ UNCHANGED <<run, begun, ordinary, goal, childAccount, auth, managerVars, tableVars, op,
                 prep, rec, drain, tx, starts, observed>>

(* deferPendingSwitch, up to its wait for the recovery.                     *)
(* Faulty: the request stays pending.                                       *)
DeferLater ==
  /\ timer' = FALSE
  /\ recQ' = Append(recQ, "defer")
  /\ UNCHANGED pending

Defer ==
  /\ pending' = FALSE
  /\ timer' = FALSE
  /\ recQ' = Append(recQ, "defer")

(* handleSwitchGraceExpired                                                 *)
GraceExpired ==
  /\ EventLoopFree /\ timer
  /\ \/ /\ NoTurnCounted
        /\ drain' = TRUE /\ timer' = FALSE
        /\ UNCHANGED <<toChild, pending, req, recQ, intWait>>
     \/ /\ \/ submitted # {}
           \/ req.policy = "defer" /\ ActiveThreads \ req.paused # {}
        /\ Defer
        /\ req' = [req EXCEPT !.canceled = TRUE]
        /\ UNCHANGED <<toChild, intWait, drain>>
     \/ /\ submitted = {} /\ ActiveThreads # {}
        /\ req.policy = "defer" => ActiveThreads \subseteq req.paused
        /\ timer' = FALSE
        /\ intWait' = ActiveThreads
        /\ req' = [req EXCEPT !.interrupted = [t \in Threads |->
                                 IF active[t] # 0 THEN active[t] ELSE @[t]]]
        /\ toChild' = [t \in Threads |->
             IF active[t] # 0 THEN Append(toChild[t], Call("interrupt", "int", active[t]))
             ELSE toChild[t]]
        /\ UNCHANGED <<pending, recQ, drain>>
  /\ UNCHANGED <<pipe, owed, run, begun, ordinary, goal, childAccount, auth, managerVars,
                 tableVars, op, opState, prep, rec, tx, starts, observed>>

(* The interrupt of t is over; when it was the last one the switch is       *)
(* deferred if any failed, and drained otherwise.                           *)
InterruptDone(t, r) ==
  /\ intWait' = intWait \ {t}
  /\ IF intWait # {t}
     THEN req' = r /\ UNCHANGED <<pending, timer, recQ, drain>>
     ELSE IF r.intFailed /\ pending
     THEN Defer /\ req' = [r EXCEPT !.canceled = TRUE] /\ UNCHANGED drain
     ELSE req' = r /\ drain' = (drain \/ ~r.intFailed) /\ UNCHANGED <<pending, timer, recQ>>

(* interruptActiveTurn: turn/interrupt settles for thread t.  n: the turn   *)
(* the child runs instead of the one named, interrupted in its place, once.  *)
(* The last interrupt of an older request to settle drains as well, and what  *)
(* it drains is the request of now, unless one of them failed.               *)
OlderSettled == drain' \in {drain, TRUE} /\ UNCHANGED <<intWait, req, pending, timer, recQ>>
InterruptReply(t, by, val, n) ==
  LET mine == by \in {"int", "again"}
      Unheard(r) == IF mine THEN [r EXCEPT !.interrupted = [@ EXCEPT ![t] = 0]] ELSE r IN
  \/ /\ val = "ok"
     /\ IF mine THEN InterruptDone(t, req)
        ELSE OlderSettled
     /\ UNCHANGED <<toChild, active, ended>>
  \/ /\ val = "inactive"
     /\ active' = [active EXCEPT ![t] = IF @ = n THEN 0 ELSE @]
     /\ ended' = [ended EXCEPT ![t] = IF n > @ THEN n ELSE @]
     /\ IF mine THEN InterruptDone(t, Unheard(req))
        ELSE OlderSettled
     /\ UNCHANGED toChild
  \/ /\ val = "replaced" /\ by \in {"int", "oldInt"}
     /\ active' = [active EXCEPT ![t] = n]
     /\ ended' = [ended EXCEPT ![t] = IF n - 1 > @ THEN n - 1 ELSE @]
     /\ req' = IF mine THEN [req EXCEPT !.interrupted = [@ EXCEPT ![t] = n]] ELSE req
     /\ toChild' = Put(toChild, t, Call("interrupt", IF mine THEN "again" ELSE "oldAgain", n))
     /\ UNCHANGED <<intWait, pending, timer, recQ, drain>>
  \/ /\ val = "error" \/ (val = "replaced" /\ by \in {"again", "oldAgain"})
     /\ IF mine THEN InterruptDone(t, [Unheard(req) EXCEPT !.intFailed = TRUE])
        ELSE OlderSettled
     /\ UNCHANGED <<toChild, active, ended>>

-----------------------------------------------------------------------------
(* drainPendingSwitch.                                                      *)

Enter(x, step, todo) == [x EXCEPT !.step = step, !.at = "next", !.todo = todo]

DrainPending ==
  /\ drain /\ drain' = FALSE
  /\ IF pending /\ req.prepared /\ tx.step = "off" /\ NoTurnCounted
     THEN /\ pending' = FALSE /\ timer' = FALSE
          /\ opState' = [opState EXCEPT ![op] = "switching"]
          /\ tx' = Enter(NoTx, "login", {})
     ELSE UNCHANGED <<pending, timer, opState, tx>>
  /\ UNCHANGED <<childVars, managerVars, tableVars, op, req, prep, recQ, rec, intWait, starts, observed>>

AuthCall(kind, account) == [kind |-> kind, account |-> account, by |-> "main"]

ChildStep(kind, account) == auth' = Append(auth, AuthCall(kind, account)) /\ UNCHANGED <<mgr, answer, toChild>>
ManagerStep(account) ==
  mgr' = Append(mgr, [account |-> account, by |-> "main"]) /\ UNCHANGED <<auth, answer, toChild>>

(* The transaction makes the call of its step.                              *)
TxCall ==
  /\ tx.step # "off" /\ tx.at = "next"
  /\ \/ tx.step = "login" /\ ChildStep("login", req.target)
     \/ tx.step = "undoLogin" /\ ChildStep("login", req.previous)
     \/ tx.step \in {"identity", "undoIdentity"} /\ ChildStep("read", InitAccount)
     \/ tx.step = "activate" /\ ManagerStep(req.target)
     \/ tx.step = "undoActivate" /\ ManagerStep(req.previous)
  /\ tx' = [tx EXCEPT !.at = "await", !.attempted = @ \/ tx.step = "activate"]
  /\ UNCHANGED <<pipe, owed, run, begun, ordinary, goal, childAccount, managerAccount,
                 tableVars, op, opState, pending, req, prep, recQ, rec, intWait, timer, drain,
                 starts, observed>>

(* The manager has no credentials for the previous account.                 *)
TxNoCredentials ==
  /\ tx.step = "undoLogin" /\ tx.at = "next"
  /\ tx' = [tx EXCEPT !.at = "await"]
  /\ answer' = "bad"
  /\ UNCHANGED <<childVars, mgr, managerAccount, tableVars, op, opState, pending, req, prep, recQ,
                 rec, intWait, timer, drain, starts, observed>>

ThreadStepKind == [resume |-> "resume", undoResume |-> "resume", continue |-> "continue"]

(* A step over threads: resumePausedGoals with the Goals the quota stopped, *)
(* startRecoveryTurns, and resumePausedGoals of a rollback.                 *)
TxNextThread ==
  /\ tx.step \in DOMAIN ThreadStepKind /\ tx.at = "next"
  /\ \/ \E t \in tx.todo :
          /\ tx' = [tx EXCEPT !.at = "await", !.t = t, !.todo = @ \ {t}]
          /\ toChild' = Put(toChild, t, Call(ThreadStepKind[tx.step], "main", 0))
          /\ UNCHANGED <<opState, uncertain>>
     \/ /\ tx.todo = {} /\ tx.step = "resume"
        /\ tx' = Enter(tx, "continue", req.recovery)
        /\ UNCHANGED <<toChild, opState, uncertain>>
     \/ /\ tx.todo = {} /\ tx.step # "resume"
        /\ tx' = NoTx
        /\ opState' = [opState EXCEPT ![op] = IF tx.step = "continue" THEN "switched" ELSE "failed"]
        /\ uncertain' = (uncertain /\ tx.step # "continue")
        /\ UNCHANGED toChild
  /\ UNCHANGED <<pipe, owed, run, begun, ordinary, goal, childAccount, auth, managerVars,
                 tableVars, op, pending, req, prep, recQ, rec, intWait, timer, drain, starts, cut, unresumed>>

(* Faulty: the manager's account is not rolled back.                        *)
UndoForgetsManager(x) == Enter(x, "undoResume", req.paused)
UndoAfterLogin(x) == IF x.attempted THEN Enter(x, "undoActivate", {}) ELSE Enter(x, "undoResume", req.paused)
(* Faulty: the login is rolled back only after the manager was asked.       *)
UndoFromAttempted(x) == IF x.attempted THEN Enter(x, "undoLogin", {}) ELSE UndoAfterLogin(x)
UndoFrom(x) == IF x.applied THEN Enter(x, "undoLogin", {}) ELSE UndoAfterLogin(x)

(* The call of an account step settles.                                     *)
AccountStepSettles(ok) ==
  \/ /\ ok
     /\ \/ /\ tx.step = "login"
           /\ tx' = Enter([tx EXCEPT !.applied = TRUE], "identity", {})
           /\ UNCHANGED shimAccount
        \/ /\ tx.step = "identity"
           /\ tx' = Enter(tx, "activate", {})
           /\ UNCHANGED shimAccount
        \/ /\ tx.step = "activate"
           /\ tx' = Enter(tx, "resume", req.paused \cup req.limited)
           /\ shimAccount' = req.target
        \/ /\ tx.step = "undoLogin"
           /\ tx' = Enter(tx, "undoIdentity", {})
           /\ UNCHANGED shimAccount
        \/ /\ tx.step = "undoIdentity"
           /\ tx' = UndoAfterLogin(tx)
           /\ shimAccount' = req.previous
        \/ /\ tx.step = "undoActivate"
           /\ tx' = Enter(tx, "undoResume", req.paused)
           /\ UNCHANGED shimAccount
     /\ UNCHANGED uncertain
  \/ /\ ~ok /\ tx.step \in {"login", "identity", "activate"}
     /\ tx' = UndoFrom(tx)
     /\ UNCHANGED <<uncertain, shimAccount>>
  \/ /\ ~ok /\ tx.step \in {"undoLogin", "undoIdentity", "undoActivate"}
     /\ tx' = IF tx.step = "undoActivate" THEN Enter(tx, "undoResume", req.paused)
              ELSE UndoAfterLogin(tx)
     /\ uncertain' = TRUE
     /\ UNCHANGED shimAccount

(* thread/goal/set active or the Continue turn/start of tx.t settles.       *)
(* n: the turn a Continue began.                                            *)
ThreadStepSettles(val, n) ==
  \/ /\ tx.step \in {"resume", "undoResume"} /\ val = "active"
     /\ tx' = [tx EXCEPT !.at = "next"]
     /\ req' = [req EXCEPT !.paused = @ \ {tx.t}]
     /\ UNCHANGED <<opState, active, unresumed>>
  \/ /\ tx.step = "resume" /\ val # "active"
     /\ tx' = UndoFrom(tx)
     /\ UNCHANGED <<req, opState, active, unresumed>>
  \/ /\ tx.step = "undoResume" /\ val # "active"
     /\ tx' = NoTx
     /\ opState' = [opState EXCEPT ![op] = "failed"]
     /\ unresumed' = TRUE
     /\ UNCHANGED <<req, active>>
  \/ /\ tx.step = "continue"
     /\ tx' = [tx EXCEPT !.at = "next"]
     /\ active' = [active EXCEPT ![tx.t] = IF val = "ok" THEN n ELSE @]
     /\ UNCHANGED <<req, opState, unresumed>>

-----------------------------------------------------------------------------
(* handleCodexLine: the shim reads the next line about thread t.            *)

Reads(t) ==
  /\ EventLoopFree /\ pipe[t] # <<>>
  /\ pipe' = [pipe EXCEPT ![t] = Tail(@)]

ReadStarted(t) == LET m == Head(pipe[t]) IN
  /\ Reads(t) /\ m.type = "started"
  /\ active' = [active EXCEPT ![t] = IF m.n > ended[t] THEN m.n ELSE @]
  /\ UNCHANGED <<toChild, owed, run, begun, ordinary, goal, childAccount, auth, managerVars,
                 submitted, ended, held, shimAccount, switchVars, starts, observed>>

(* Faulty: any paused Goal counts as the Goal of t.                         *)
GoesOnWithoutGoals(t) == req.policy = "interruptAndContinue" /\ req.paused = {}
GoesOnByContinue(t) == req.policy = "interruptAndContinue" /\ t \notin req.paused

ReadEnded(t) == LET m == Head(pipe[t]) IN
  /\ Reads(t) /\ m.type = "ended"
  /\ active' = [active EXCEPT ![t] = IF @ = m.n THEN 0 ELSE @]
  /\ ended' = [ended EXCEPT ![t] = IF m.n > @ THEN m.n ELSE @]
  /\ req' = IF pending /\ req.interrupted[t] = m.n
            THEN [req EXCEPT
                    !.interrupted = [@ EXCEPT ![t] = 0],
                    !.recovery = IF m.val = "cutOff" /\ GoesOnByContinue(t) THEN @ \cup {t} ELSE @]
            ELSE req
  /\ drain' = TRUE
  /\ UNCHANGED <<toChild, owed, run, begun, ordinary, goal, childAccount, auth, managerVars,
                 submitted, held, shimAccount, op, opState, pending, prep, recQ, rec, intWait,
                 timer, tx, starts, observed>>

ReadStartAnswer(t) == LET m == Head(pipe[t]) IN
  /\ Reads(t) /\ m.type = "reply" /\ m.by = "client"
  /\ submitted' = submitted \ {t}
  /\ active' = [active EXCEPT ![t] = IF m.val = "ok" /\ m.n > ended[t] THEN m.n ELSE @]
  /\ drain' = TRUE
  /\ UNCHANGED <<toChild, owed, run, begun, ordinary, goal, childAccount, auth, managerVars,
                 ended, held, shimAccount, op, opState, pending, req, prep, recQ, rec, intWait,
                 timer, tx, starts, observed>>

ReadInternalAnswer(t) == LET m == Head(pipe[t]) IN
  /\ Reads(t) /\ m.type = "reply" /\ m.by # "client"
  /\ \/ /\ m.by = "prep" /\ PrepareReply(m.val)
        /\ UNCHANGED <<opState, rec, intWait, timer, drain, tx, unresumed>>
     \/ /\ m.by = "rec" /\ RecoverReply(m.val)
        /\ UNCHANGED <<toChild, active, ended, opState, pending, prep, recQ, intWait, timer,
                       drain, tx>>
     \/ /\ m.by \in {"int", "again", "oldInt", "oldAgain"}
        /\ InterruptReply(t, m.by, m.val, m.n)
        /\ UNCHANGED <<opState, prep, rec, tx, unresumed>>
     \/ /\ m.by = "main" /\ ThreadStepSettles(m.val, m.n)
        /\ UNCHANGED <<toChild, ended, pending, prep, recQ, rec, intWait, timer, drain>>
     \/ /\ m.by = "stale"
        /\ UNCHANGED <<toChild, active, ended, opState, pending, req, prep, recQ, rec, intWait,
                       timer, drain, tx, unresumed>>
  /\ UNCHANGED <<owed, run, begun, ordinary, goal, childAccount, auth, managerVars, submitted,
                 held, shimAccount, op, starts, cut, uncertain>>

(* The login, account/read or account/activate of the transaction settles.  *)
(* An identity that does not match yet is read again for a while.           *)
ReadAccountAnswer ==
  /\ EventLoopFree /\ answer # "none" /\ answer' = "none"
  /\ \/ AccountStepSettles(answer = "ok")
     \/ /\ answer = "bad" /\ tx.step \in {"identity", "undoIdentity"}
        /\ tx' = [tx EXCEPT !.at = "next"]
        /\ UNCHANGED <<uncertain, shimAccount>>
  /\ UNCHANGED <<childVars, mgr, managerAccount, submitted, active, ended, held, op, opState,
                 pending, req, prep, recQ, rec, intWait, timer, drain, starts, cut, unresumed>>

-----------------------------------------------------------------------------
(* A timer of sendInternalRequest or sendControlRequest fires.              *)

PrepareTimer ==
  /\ EventLoopFree /\ prep.at \in {"goalGet", "pause"} \cap Timeouts
  /\ PrepareFails
  /\ Abandon({prep.t}, {"prep"})
  /\ UNCHANGED <<run, begun, ordinary, goal, childAccount, auth, managerVars, submitted, held,
                 shimAccount, op, opState, rec, intWait, timer, drain, tx, starts, observed>>

RecoverTimer ==
  /\ EventLoopFree /\ recQ # <<>> /\ "recover" \in Timeouts
  /\ RecoverReply("error")
  /\ Abandon({rec.t}, {"rec"})
  /\ UNCHANGED <<run, begun, ordinary, goal, childAccount, auth, managerVars, tableVars, op,
                 opState, pending, prep, recQ, intWait, timer, drain, tx, starts, cut, uncertain>>

InterruptTimer(t) ==
  /\ EventLoopFree /\ t \in intWait /\ "interrupt" \in Timeouts
  /\ InterruptDone(t, [req EXCEPT !.interrupted = [@ EXCEPT ![t] = 0], !.intFailed = TRUE])
  /\ Abandon({t}, {"int", "again"})
  /\ UNCHANGED <<run, begun, ordinary, goal, childAccount, auth, managerVars, tableVars, op,
                 opState, prep, rec, tx, starts, observed>>

ThreadStepTimer ==
  /\ EventLoopFree /\ tx.step \in DOMAIN ThreadStepKind \cap Timeouts
  /\ ThreadStepSettles("error", 0)
  /\ Abandon({tx.t}, {"main"})
  /\ UNCHANGED <<run, begun, ordinary, goal, childAccount, auth, managerVars, submitted, ended,
                 held, shimAccount, op, pending, prep, recQ, rec, intWait, timer, drain, starts,
                 cut, uncertain>>

Disown(s) == [i \in DOMAIN s |-> [s[i] EXCEPT !.by = "stale"]]

AccountStepTimer ==
  /\ EventLoopFree
  /\ tx.step \in Timeouts /\ tx.step \notin {"off"} \cup DOMAIN ThreadStepKind
  /\ AccountStepSettles(FALSE)
  /\ auth' = Disown(auth) /\ mgr' = Disown(mgr) /\ answer' = "none"
  /\ UNCHANGED <<toChild, pipe, owed, run, begun, ordinary, goal, childAccount, managerAccount,
                 submitted, active, ended, held, op, opState, pending, req, prep, recQ, rec, intWait,
                 timer, drain, starts, cut, unresumed>>

-----------------------------------------------------------------------------
(* The child (external).  It takes the requests of a thread in order, but a *)
(* call about the Goal does not wait for the starts before it; the answer   *)
(* to a start may be written after the notifications of its turn.           *)

Takes(t, kinds) ==
  /\ toChild[t] # <<>> /\ Head(toChild[t]).kind \in kinds
  /\ toChild' = [toChild EXCEPT ![t] = Tail(@)]

TakesGoalCall(t, i) ==
  /\ i \in DOMAIN toChild[t] /\ toChild[t][i].kind \in {"goalGet", "pause", "resume"}
  /\ \A j \in 1..(i - 1) : toChild[t][j].kind \in {"start", "continue"}
  /\ toChild' = [toChild EXCEPT ![t] = SubSeq(@, 1, i - 1) \o SubSeq(@, i + 1, Len(@))]

ChildStart(t) == LET c == Head(toChild[t]) IN
  /\ Takes(t, {"start", "continue"})
  /\ \/ /\ run[t] = 0 /\ begun[t] < MaxTurns
        /\ run' = [run EXCEPT ![t] = begun[t] + 1]
        /\ begun' = [begun EXCEPT ![t] = begun[t] + 1]
        /\ ordinary' = [ordinary EXCEPT ![t] = TRUE]
        /\ pipe' = Put(pipe, t, Note("started", "", begun[t] + 1))
        /\ owed' = [owed EXCEPT ![t] = @ \cup {[by |-> c.by, n |-> begun[t] + 1]}]
     \/ /\ pipe' = Put(pipe, t, Reply(c.by, "refused", 0))
        /\ UNCHANGED <<run, begun, ordinary, owed>>
  /\ cut' = IF c.kind = "continue" THEN cut \ {t} ELSE cut
  /\ UNCHANGED <<goal, childAccount, auth, managerVars, tableVars, switchVars, starts, givenUp>>

ChildAnswer(t) ==
  /\ \E o \in owed[t] :
       /\ owed' = [owed EXCEPT ![t] = @ \ {o}]
       /\ pipe' = Put(pipe, t, Reply(o.by, "ok", o.n))
  /\ UNCHANGED <<toChild, run, begun, ordinary, goal, childAccount, auth, managerVars, tableVars,
                 switchVars, starts, observed>>

(* A turn ends; a Goal turn may have reached the Goal.                      *)
ChildFinish(t) ==
  /\ run[t] # 0
  /\ run' = [run EXCEPT ![t] = 0]
  /\ pipe' = Put(pipe, t, Note("ended", "done", run[t]))
  /\ goal' \in {goal, [goal EXCEPT ![t] = IF @ = "active" /\ ~ordinary[t] THEN "none" ELSE @]}
  /\ UNCHANGED <<toChild, owed, begun, ordinary, childAccount, auth, managerVars, tableVars,
                 switchVars, starts, observed>>

(* A thread with an active Goal goes on by itself.                          *)
ChildGoalTurn(t) ==
  /\ goal[t] = "active" /\ run[t] = 0 /\ begun[t] < MaxTurns
  /\ run' = [run EXCEPT ![t] = begun[t] + 1]
  /\ begun' = [begun EXCEPT ![t] = begun[t] + 1]
  /\ ordinary' = [ordinary EXCEPT ![t] = FALSE]
  /\ pipe' = Put(pipe, t, Note("started", "", begun[t] + 1))
  /\ UNCHANGED <<toChild, owed, goal, childAccount, auth, managerVars, tableVars, switchVars,
                 starts, observed>>

(* thread/goal/get and thread/goal/set; an idle thread may be unloaded.     *)
ChildGoalCall(t) == \E i \in 1..Len(toChild[t]) : LET c == toChild[t][i] IN
  /\ TakesGoalCall(t, i)
  /\ \/ /\ c.kind = "goalGet"
        /\ pipe' = Put(pipe, t, Reply(c.by, goal[t], 0))
        /\ UNCHANGED goal
     \/ /\ c.kind = "pause" /\ goal[t] = "active"
        /\ goal' = [goal EXCEPT ![t] = "paused"]
        /\ pipe' = Put(pipe, t, Reply(c.by, "paused", 0))
     \/ /\ c.kind = "resume" /\ goal[t] # "none"
        /\ goal' = [goal EXCEPT ![t] = "active"]
        /\ pipe' = Put(pipe, t, Reply(c.by, "active", 0))
     \/ /\ pipe' = Put(pipe, t, Reply(c.by, "error", 0))
        /\ UNCHANGED goal
     \/ /\ c.kind # "resume" /\ run[t] = 0
        /\ pipe' = Put(pipe, t, Reply(c.by, "missing", 0))
        /\ UNCHANGED goal
  /\ UNCHANGED <<owed, run, begun, ordinary, childAccount, auth, managerVars, tableVars,
                 switchVars, starts, observed>>

(* turn/interrupt: the end of the turn may be reported before or after it.  *)
ChildInterrupt(t) == LET c == Head(toChild[t]) IN
  /\ Takes(t, {"interrupt"})
  /\ \/ /\ run[t] = c.n
        /\ run' = [run EXCEPT ![t] = 0]
        /\ \E both \in {<<Note("ended", "cutOff", c.n), Reply(c.by, "ok", c.n)>>,
                        <<Reply(c.by, "ok", c.n), Note("ended", "cutOff", c.n)>>} :
             pipe' = [pipe EXCEPT ![t] = @ \o both]
        /\ cut' = IF /\ c.by \in {"int", "again"} /\ goal[t] \in {"none", "limited"}
                     /\ req.policy = "interruptAndContinue"
                  THEN cut \cup {t} ELSE cut
     \/ /\ run[t] = 0
        /\ pipe' = Put(pipe, t, Reply(c.by, "inactive", c.n))
        /\ UNCHANGED <<run, cut>>
     \/ /\ run[t] \notin {0, c.n}
        /\ pipe' = Put(pipe, t, Reply(c.by, "replaced", run[t]))
        /\ UNCHANGED <<run, cut>>
     \/ /\ pipe' = Put(pipe, t, Reply(c.by, "error", 0))
        /\ UNCHANGED <<run, cut>>
  /\ UNCHANGED <<owed, begun, ordinary, goal, childAccount, auth, managerVars, tableVars,
                 switchVars, starts, givenUp>>

(* account/login/start with its account/login/completed, and account/read.  *)
ChildAccountCall ==
  /\ auth # <<>> /\ auth' = Tail(auth)
  /\ \E done \in BOOLEAN :
       LET c == Head(auth) IN
       /\ childAccount' = IF c.kind = "login" /\ done THEN c.account ELSE childAccount
       /\ answer' = IF c.by = "stale" THEN answer
                    ELSE IF c.kind = "login" THEN IF done THEN "ok" ELSE "bad"
                    ELSE IF done /\ childAccount =
                              (IF tx.step = "identity" THEN req.target ELSE req.previous)
                    THEN "ok" ELSE "bad"
  /\ UNCHANGED <<toChild, pipe, owed, run, begun, ordinary, goal, mgr, managerAccount, tableVars,
                 switchVars, starts, observed>>

(* account/activate in the manager; a failed one may have taken effect.     *)
ManagerActivate ==
  /\ mgr # <<>> /\ mgr' = Tail(mgr)
  /\ \E done, ok \in BOOLEAN :
       /\ ok => done
       /\ managerAccount' = IF done THEN Head(mgr).account ELSE managerAccount
       /\ answer' = IF Head(mgr).by = "stale" THEN answer ELSE IF ok THEN "ok" ELSE "bad"
  /\ UNCHANGED <<childVars, tableVars, switchVars, starts, observed>>

-----------------------------------------------------------------------------
ShimStep ==
  \/ PrepareNext \/ RecoverNext \/ DrainPending \/ TxCall \/ TxNextThread \/ TxNoCredentials
  \/ \E t \in Threads : FlushHeld(t)

TimerStep ==
  \/ PrepareTimer \/ RecoverTimer \/ ThreadStepTimer \/ AccountStepTimer
  \/ GraceExpired \/ \E t \in Threads : InterruptTimer(t)

ReadStep ==
  \/ ReadAccountAnswer
  \/ \E t \in Threads :
       ReadStarted(t) \/ ReadEnded(t) \/ ReadStartAnswer(t) \/ ReadInternalAnswer(t)

Next ==
  \/ \E t \in Threads : WorkStart(t)
  \/ \E policy \in Policies, target \in Accounts, recent \in RecentSets :
       SwitchRequest(policy, target, recent)
  \/ Cancel \/ ShimStep \/ TimerStep \/ ReadStep
  \/ ChildAccountCall \/ ManagerActivate
  \/ \E t \in Threads :
       \/ ChildAnswer(t) \/ ChildFinish(t) \/ ChildGoalTurn(t)
       \/ ChildStart(t) \/ ChildGoalCall(t) \/ ChildInterrupt(t)

Spec == Init /\ [][Next]_vars

(* The event loop runs what is ready and services its timers; the manager   *)
(* cancels a switch that takes too long.  Nothing is assumed of the child.  *)
FairSpec ==
  Spec /\ WF_vars(ShimStep) /\ SF_vars(Cancel) /\ SF_vars(PrepareTimer) /\ SF_vars(RecoverTimer)
       /\ SF_vars(ThreadStepTimer) /\ SF_vars(AccountStepTimer)

-----------------------------------------------------------------------------
CallType == [kind : {"start", "continue", "goalGet", "pause", "resume", "interrupt"},
             by : Waiters, n : 0..MaxTurns]
LineType == [type : {"reply", "started", "ended"}, by : Waiters, n : 0..MaxTurns,
             val : GoalStatus \cup {"", "ok", "refused", "error", "missing", "inactive",
                                    "replaced", "done", "cutOff"}]
RequestType ==
  [canceled : BOOLEAN, prepared : BOOLEAN, policy : AllPolicies, target : Accounts,
   previous : Accounts, recent : SUBSET Threads, limited : SUBSET Threads,
   paused : SUBSET Threads, interrupted : [Threads -> 0..MaxTurns], recovery : SUBSET Threads,
   intFailed : BOOLEAN]

(* Every variable has its type.                                             *)
TypeOK ==
  /\ toChild \in [Threads -> Seq(CallType)]
  /\ pipe \in [Threads -> Seq(LineType)]
  /\ owed \in [Threads -> SUBSET [by : Waiters, n : 0..MaxTurns]]
  /\ run \in [Threads -> 0..MaxTurns] /\ begun \in [Threads -> 0..MaxTurns]
  /\ ordinary \in [Threads -> BOOLEAN]
  /\ goal \in [Threads -> GoalStatus]
  /\ childAccount \in Accounts /\ managerAccount \in Accounts /\ shimAccount \in Accounts
  /\ auth \in Seq([kind : {"login", "read"}, account : Accounts, by : {"main", "stale"}])
  /\ mgr \in Seq([account : Accounts, by : {"main", "stale"}])
  /\ answer \in {"none", "ok", "bad"}
  /\ submitted \subseteq Threads /\ held \subseteq Threads
  /\ active \in [Threads -> 0..MaxTurns] /\ ended \in [Threads -> 0..MaxTurns]
  /\ op \in 0..MaxSwitches
  /\ opState \in [Ops -> {"unknown", "pending", "switching"} \cup Final]
  /\ pending \in BOOLEAN /\ req \in RequestType
  /\ prep \in [at : {"off", "next", "goalGet", "pause", "late", "recover"}, t : Threads, todo : SUBSET Threads]
  /\ recQ \in Seq({"prep", "cancel", "defer"})
  /\ rec \in [at : {"off", "next", "await", "failed"}, t : Threads, todo : SUBSET Threads]
  /\ intWait \subseteq Threads /\ timer \in BOOLEAN /\ drain \in BOOLEAN
  /\ tx \in [step : {"off"} \cup ForwardSteps \cup UndoSteps, at : {"next", "await"}, t : Threads,
             todo : SUBSET Threads, applied : BOOLEAN, attempted : BOOLEAN]
  /\ starts \in 0..MaxStarts /\ cut \subseteq Threads
  /\ uncertain \in BOOLEAN /\ unresumed \in BOOLEAN

LoginInFlight == tx.step = "login" /\ tx.at = "await"

(* The login the child is asked to change never meets a turn the client or  *)
(* the shim asked for, running or on its way to the child.                  *)
CutoverMeetsNoOrdinaryTurn ==
  LoginInFlight =>
    \A t \in Threads :
      /\ run[t] # 0 => ~ordinary[t]
      /\ \A i \in DOMAIN toChild[t] : toChild[t][i].kind # "start"

Decided == tx.step = "off" /\ auth = <<>> /\ mgr = <<>>

(* Between switches the child, the manager and the shim have one account,   *)
(* that of the last successful switch, unless a rollback step failed.       *)
AccountsAgree ==
  Decided /\ ~uncertain => childAccount = managerAccount /\ shimAccount = managerAccount

(* What runtime/operation/status has once said is final stays so.           *)
OutcomeFinal == [][\A o \in Ops : opState[o] \in Final => opState'[o] = opState[o]]_vars

(* Seen from outside a switch is one step: the child, the manager and the   *)
(* shim move together when it succeeds, and stay where they are otherwise.  *)
Cutover == INSTANCE AccountCutover WITH
  outcome <- [o \in Ops |-> IF opState[o] \in {"pending", "switching"} THEN "open" ELSE opState[o]],
  target <- req.target,
  holds <- [p \in {"child", "manager", "shim"} |->
              IF uncertain THEN "untrusted"
              ELSE IF tx.step # "off" THEN req.previous
              ELSE IF p = "child" THEN childAccount
              ELSE IF p = "manager" THEN managerAccount ELSE shimAccount]
ImplementsCutover == Cutover!Spec

(* When everything has settled no Goal stays paused by a switch, unless a   *)
(* Goal could not be resumed.                                               *)
Settled ==
  /\ ~Barrier /\ ~drain
  /\ \A t \in Threads : toChild[t] = <<>> /\ pipe[t] = <<>>
NoGoalLeftPaused == Settled /\ ~unresumed => \A t \in Threads : goal[t] # "paused"

(* A switch that succeeds has asked every thread it cut off to go on.       *)
CutThreadsGoOn == op > 0 /\ opState[op] = "switched" => cut = {}

(* The barrier never stays up.                                              *)
BarrierLowers == Barrier ~> ~Barrier
=============================================================================
