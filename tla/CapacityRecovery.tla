-------------------------- MODULE CapacityRecovery --------------------------
(***************************************************************************)
(* The recovery of one thread whose work failed because the model was at    *)
(* capacity (runtime/codex-app-server-shim.cjs).  The shim keeps one entry   *)
(* for it, which after a delay asks the manager for another account and then *)
(* sends one Continue; an account switch claims the entry and sends the      *)
(* Continue itself.  The switch is SwitchBarrier seen from here.             *)
(***************************************************************************)
EXTENDS Naturals, Sequences, FiniteSets

CONSTANTS
  Runs,         \* bound: calls of runCapacityRecoveryTurn under way at a time
  NoEntry,
  MaxWork,      \* bound: official starts
  MaxTurns,     \* bound: turns
  MaxSwitched,  \* bound: switch requests
  MaxRefusals   \* bound: starts refused for lack of capacity

ASSUME CapacityRecoveryAssumption ==
  /\ MaxWork \in Nat /\ MaxTurns \in Nat /\ MaxSwitched \in Nat /\ MaxRefusals \in Nat
  /\ {"user", "switch", "nobody"} \cap Runs = {}
  /\ NoEntry \notin [id : Nat, gen : Nat, src : Nat, timer : BOOLEAN,
                     state : {"waiting", "claimedBySwitch", "running"}]

VARIABLES
  capacity,     \* the thread's entry in capacityRecoveryThreads
  entries,      \* entries made so far, the identity of the last one
  latestWork,   \* latestWorkGenerations of the thread
  switchedWork, \* capacityRecoverySwitchGenerations of the thread
  turnWork,     \* turnWorkGenerations
  run,          \* each call of runCapacityRecoveryTurn: its entry, where it awaits
  switchAt,     \* where the switch request stands
  claim,        \* the entry in request.capacityRecoveryEntries
  switches,     \* switch requests so far
  userStart,    \* an official start is submitted and not answered
  activeTurn,   \* the thread's turn in activeTurns, or 0
  endedTurns,   \* terminalTurnIds
  childIn,      \* starts written to the app-server
  childTurn,    \* the turn it runs, or 0
  turnsSoFar, refusals,
  childOut,     \* lines it has written
  subagent,     \* whether the thread is a subagent's
  owed,         \* the last failure has not been continued, nor superseded
  reported,     \* turns whose failure has been read
  continueLost  \* the answer to a Continue came too late once

childVars == <<childTurn, turnsSoFar, refusals, subagent>>
entryVars == <<capacity, entries, claim>>
switchVars == <<switchAt, switches>>
workVars == <<latestWork, switchedWork, turnWork>>
turnVars == <<userStart, activeTurn, endedTurns>>
capacityVars ==
  <<entryVars, workVars, run, switchVars, turnVars, childIn, childOut, childVars, owed, reported,
    continueLost>>

Kinds == {"capacity", "limit", "other"}
NoClaim == [id |-> 0, gen |-> 0]
NoRun == [id |-> 0, gen |-> 0, at |-> "off"]

CapacityInit ==
  /\ capacity = NoEntry /\ entries = 0 /\ claim = NoClaim
  /\ latestWork = 0 /\ switchedWork = 0 /\ turnWork = [t \in 1..MaxTurns |-> 0]
  /\ run = [r \in Runs |-> NoRun]
  /\ switchAt = "off" /\ switches = 0
  /\ userStart = FALSE /\ activeTurn = 0 /\ endedTurns = {}
  /\ childIn = <<>> /\ childTurn = 0 /\ turnsSoFar = 0 /\ refusals = 0 /\ childOut = <<>>
  /\ subagent \in BOOLEAN
  /\ owed = FALSE /\ reported = {} /\ continueLost = FALSE

-----------------------------------------------------------------------------
(* The entry.                                                                *)

IsEntry(id) == capacity # NoEntry /\ capacity.id = id
IsWaiting(id) == IsEntry(id) /\ capacity.state = "waiting"

(* clearCapacityRecoveryThread by force takes the entry from the request too. *)
ForceClear ==
  /\ capacity' = NoEntry
  /\ claim' = IF IsEntry(claim.id) THEN NoClaim ELSE claim
  /\ UNCHANGED entries

(* A later report of the same failure leaves a waiting entry alone; any other *)
(* entry is replaced, be it claimed by a switch.                             *)
SameFailure(gen, turn) ==
  /\ capacity # NoEntry /\ capacity.state = "waiting" /\ capacity.gen = gen
  /\ capacity.src = turn \/ capacity.src = 0 \/ turn = 0

ScheduleRecovery(gen, turn) ==
  IF gen # latestWork THEN UNCHANGED entryVars
  ELSE IF SameFailure(gen, turn)
    THEN capacity' = [capacity EXCEPT !.src = IF @ = 0 THEN turn ELSE @] /\ UNCHANGED <<entries, claim>>
  ELSE /\ entries' = entries + 1
       /\ capacity' = [id |-> entries + 1, gen |-> gen, src |-> turn, state |-> "waiting", timer |-> TRUE]
       /\ claim' = IF IsEntry(claim.id) THEN NoClaim ELSE claim

(* The end of a turn clears the entry it has made, unless that waits.         *)
ClearOfTurn(gen, turn) ==
  IF capacity # NoEntry /\ capacity.gen = gen /\ capacity.src = turn /\ capacity.state # "waiting"
    THEN ForceClear ELSE UNCHANGED entryVars

(* What the shim does with a failure, reported for a turn or for none (0).     *)
Failed(kind, gen, turn) ==
  /\ IF kind = "capacity" THEN ScheduleRecovery(gen, turn) ELSE ForceClear
  /\ owed' = IF kind # "capacity" THEN FALSE
             ELSE owed \/ (~subagent /\ gen = latestWork /\ turn \notin reported)
  /\ reported' = IF turn = 0 THEN reported ELSE reported \cup {turn}

SendStart(by, gen) == childIn' = Append(childIn, [by |-> by, gen |-> gen])

(* handleOfficialLine: new work, which the session queue and the barrier hold *)
(* back while the thread is busy or a switch is under way.                   *)
UserStart ==
  /\ switchAt = "off" /\ ~userStart /\ activeTurn = 0 /\ latestWork < MaxWork
  /\ ForceClear
  /\ latestWork' = latestWork + 1 /\ switchedWork' = 0
  /\ SendStart("user", latestWork + 1)
  /\ userStart' = TRUE /\ owed' = FALSE
  /\ UNCHANGED <<turnWork, run, switchVars, activeTurn, endedTurns, childOut, childVars, reported,
                 continueLost>>

-----------------------------------------------------------------------------
(* runCapacityRecoveryTurn.                                                  *)

(* The delay is five seconds at least, in which the failed turn has ended.    *)
DelayOver ==
  \A i \in DOMAIN childOut : childOut[i].type = "ended" => childOut[i].turn # capacity.src

RecoveryTimer ==
  /\ capacity # NoEntry /\ capacity.timer /\ DelayOver
  /\ capacity' = [capacity EXCEPT !.timer = FALSE]
  /\ \E r \in Runs :
       /\ run[r] = NoRun
       /\ run' = [run EXCEPT ![r] = [id |-> capacity.id, gen |-> capacity.gen, at |-> "read"]]
  /\ UNCHANGED <<entries, claim, workVars, switchVars, turnVars, childIn, childOut, childVars, owed,
                 reported, continueLost>>

EndRun(r) == run' = [run EXCEPT ![r] = NoRun]
RunAt(r, at) == run' = [run EXCEPT ![r].at = at]

(* Faulty: the Continue is sent though the entry may be gone meanwhile.        *)
FaultySendContinue(r) ==
  /\ capacity' = IF IsEntry(run[r].id) THEN [capacity EXCEPT !.state = "running"] ELSE capacity
  /\ SendStart(r, run[r].gen)
  /\ RunAt(r, "start") /\ owed' = FALSE
  /\ UNCHANGED <<entries, claim, switchedWork>>

(* The entry is looked at once more in the step that sends the Continue.       *)
SendContinue(r) ==
  /\ IF IsWaiting(run[r].id)
       THEN /\ capacity' = [capacity EXCEPT !.state = "running"]
            /\ SendStart(r, run[r].gen)
            /\ RunAt(r, "start") /\ owed' = FALSE
       ELSE EndRun(r) /\ UNCHANGED <<capacity, childIn, owed>>
  /\ UNCHANGED <<entries, claim, switchedWork>>

(* isSubagentThread has answered.                                            *)
RunRead(r) ==
  /\ run[r].at = "read"
  /\ IF subagent THEN ForceClear /\ EndRun(r) /\ UNCHANGED <<childIn, owed, switchedWork>>
     ELSE IF switchedWork = run[r].gen THEN SendContinue(r)
     ELSE RunAt(r, "manager") /\ UNCHANGED <<entryVars, childIn, owed, switchedWork>>
  /\ UNCHANGED <<latestWork, turnWork, switchVars, turnVars, childOut, childVars, reported, continueLost>>

(* Faulty: a manager that does not answer ends the recovery.                  *)
FaultyRunAnswered(r) ==
  /\ run[r].at \in {"manager", "covered", "switched"}
  /\ switchedWork' = IF run[r].at = "switched" THEN run[r].gen ELSE switchedWork
  /\ IF IsEntry(run[r].id) THEN ForceClear ELSE UNCHANGED entryVars
  /\ EndRun(r)
  /\ UNCHANGED <<childIn, owed, latestWork, turnWork, switchVars, turnVars, childOut, childVars,
                 reported, continueLost>>

(* runtime/capacity-recovery is answered, or fails: the manager reports a     *)
(* switch only if it asked for it after the question and it succeeded.        *)
RunAnswered(r) ==
  /\ run[r].at \in {"manager", "covered", "switched"}
  /\ \/ /\ run[r].at = "switched"
        /\ switchedWork' = run[r].gen
        /\ IF IsEntry(run[r].id) THEN ForceClear ELSE UNCHANGED entryVars
        /\ EndRun(r) /\ UNCHANGED <<childIn, owed>>
     \/ SendContinue(r)
  /\ UNCHANGED <<latestWork, turnWork, switchVars, turnVars, childOut, childVars, reported, continueLost>>

-----------------------------------------------------------------------------
(* The account switch.                                                       *)

Covered(from, to) ==
  run' = [r \in Runs |-> IF run[r].at = from THEN [run[r] EXCEPT !.at = to] ELSE run[r]]

(* claimCapacityRecoveryThreads.                                             *)
SwitchAsked ==
  /\ switchAt = "off" /\ switches < MaxSwitched
  /\ switches' = switches + 1 /\ switchAt' = "pending"
  /\ IF capacity # NoEntry /\ capacity.state = "waiting"
       THEN /\ capacity' = [capacity EXCEPT !.state = "claimedBySwitch", !.timer = FALSE]
            /\ claim' = [id |-> capacity.id, gen |-> capacity.gen]
       ELSE UNCHANGED <<capacity, claim>>
  /\ Covered("manager", "covered")
  /\ UNCHANGED <<entries, workVars, turnVars, childIn, childOut, childVars, owed, reported, continueLost>>

(* Faulty: what the request had claimed waits again, and no timer is set.      *)
FaultySwitchGivenUp ==
  /\ switchAt \in {"pending", "login"}
  /\ switchAt' = "off"
  /\ capacity' = IF IsEntry(claim.id) /\ capacity.state = "claimedBySwitch"
                   THEN [capacity EXCEPT !.state = "waiting"] ELSE capacity
  /\ claim' = NoClaim
  /\ Covered("covered", "manager")
  /\ UNCHANGED <<switches, entries, workVars, turnVars, childIn, childOut, childVars, owed, reported,
                 continueLost>>

(* restoreClaimedCapacityRecoveryEntries, on each way in which a request ends *)
(* without success.                                                          *)
SwitchGivenUp ==
  /\ switchAt \in {"pending", "login"}
  /\ switchAt' = "off"
  /\ capacity' = IF IsEntry(claim.id) /\ capacity.state = "claimedBySwitch"
                   THEN [capacity EXCEPT !.state = "waiting", !.timer = TRUE] ELSE capacity
  /\ claim' = NoClaim
  /\ Covered("covered", "manager")
  /\ UNCHANGED <<switches, entries, workVars, turnVars, childIn, childOut, childVars, owed, reported,
                 continueLost>>

SwitchDrains ==
  /\ switchAt = "pending" /\ ~userStart /\ activeTurn = 0
  /\ switchAt' = "login"
  /\ UNCHANGED <<switches, entryVars, workVars, run, turnVars, childIn, childOut, childVars, owed,
                 reported, continueLost>>

(* startRecoveryTurns has asked whether the thread is a subagent's; what it    *)
(* does then does not ask whether the entry is still there.  Its generation   *)
(* is the latest one, since the barrier holds new work back.                 *)
SwitchContinues ==
  /\ \/ switchAt = "login" /\ claim # NoClaim /\ switchAt' = "read"
        /\ UNCHANGED <<entryVars, childIn, owed, run>>
     \/ switchAt = "read" /\ ~subagent /\ switchAt' = "continue"
        /\ SendStart("switch", latestWork)
        /\ owed' = FALSE
        /\ UNCHANGED <<entryVars, run>>
     \/ /\ (switchAt = "login" /\ claim = NoClaim) \/ (switchAt = "read" /\ subagent)
        /\ switchAt' = "off"
        /\ IF IsEntry(claim.id) THEN capacity' = NoEntry ELSE UNCHANGED capacity
        /\ claim' = NoClaim
        /\ Covered("covered", "switched")
        /\ UNCHANGED <<entries, childIn, owed>>
  /\ UNCHANGED <<switches, workVars, turnVars, childOut, childVars, reported, continueLost>>

-----------------------------------------------------------------------------
(* Lines from the app-server.                                                *)

FirstLine(type) == childOut # <<>> /\ Head(childOut).type = type /\ childOut' = Tail(childOut)

(* Whoever awaited the answer to a Continue goes on: a run ends, a switch     *)
(* settles what it has claimed and commits.                                  *)
Resumes(by) ==
  IF by \in Runs THEN EndRun(by) /\ UNCHANGED switchVars
  ELSE IF by = "switch" THEN switchAt' = "off" /\ UNCHANGED switches /\ Covered("covered", "switched")
  ELSE UNCHANGED <<run, switchVars>>

ReadAccepted ==
  LET m == Head(childOut) IN
  /\ FirstLine("yes")
  /\ userStart' = (userStart /\ m.by # "user")
  /\ activeTurn' = IF m.by \in {"user", "nobody"} /\ m.turn \in endedTurns THEN activeTurn ELSE m.turn
  /\ turnWork' = [turnWork EXCEPT ![m.turn] = IF m.by = "nobody" THEN latestWork ELSE m.gen]
  /\ IF m.by \in Runs
       THEN IF IsEntry(run[m.by].id) THEN ForceClear ELSE UNCHANGED entryVars
       ELSE IF m.by = "switch"
         THEN /\ capacity' = IF IsEntry(claim.id) THEN NoEntry ELSE capacity
              /\ claim' = NoClaim /\ UNCHANGED entries
         ELSE UNCHANGED entryVars
  /\ Resumes(m.by)
  /\ UNCHANGED <<latestWork, switchedWork, switches, endedTurns, childIn, childVars, owed, reported, continueLost>>

(* A rejected official start, or observeRecoveryTurnFailure.                  *)
ReadRejected ==
  LET m == Head(childOut) IN
  /\ FirstLine("no")
  /\ userStart' = (userStart /\ m.by # "user")
  /\ IF m.by = "nobody" \/ (m.by = "user" /\ m.kind = "other")
       THEN UNCHANGED <<entryVars, owed, reported>> ELSE Failed(m.kind, m.gen, 0)
  /\ Resumes(m.by)
  /\ UNCHANGED <<workVars, activeTurn, endedTurns, childIn, childVars, continueLost>>

GenerationOf(turn) == IF turnWork[turn] # 0 THEN turnWork[turn] ELSE latestWork

ReadFailure ==
  LET m == Head(childOut) IN
  /\ FirstLine("error")
  /\ Failed(m.kind, GenerationOf(m.turn), m.turn)
  /\ UNCHANGED <<workVars, run, switchVars, turnVars, childIn, childVars, continueLost>>

ReadEnd ==
  LET m == Head(childOut) IN
  /\ FirstLine("ended")
  /\ endedTurns' = endedTurns \cup {m.turn}
  /\ activeTurn' = IF activeTurn = m.turn THEN 0 ELSE activeTurn
  /\ IF m.kind = "other"
       THEN ClearOfTurn(GenerationOf(m.turn), m.turn) /\ UNCHANGED <<owed, reported>>
       ELSE Failed(m.kind, GenerationOf(m.turn), m.turn)
  /\ UNCHANGED <<workVars, run, switchVars, userStart, childIn, childVars, continueLost>>

(* The timer of sendInternalRequest: the start may be carried out all the same. *)
ContinueTimesOut ==
  /\ \E by \in Runs \cup {"switch"} :
       /\ IF by = "switch" THEN switchAt = "continue" ELSE run[by].at = "start"
       /\ LET id == IF by = "switch" THEN claim.id ELSE run[by].id
              Disowned(s) == [i \in DOMAIN s |-> IF s[i].by = by THEN [s[i] EXCEPT !.by = "nobody"] ELSE s[i]]
          IN /\ childIn' = Disowned(childIn) /\ childOut' = Disowned(childOut)
             /\ capacity' = IF IsEntry(id) THEN NoEntry ELSE capacity
             /\ claim' = IF by = "switch" THEN NoClaim ELSE claim
       /\ Resumes(by)
  /\ continueLost' = TRUE
  /\ UNCHANGED <<entries, workVars, turnVars, childVars, owed, reported>>

-----------------------------------------------------------------------------
(* The app-server: one turn at a time.                                       *)

Line(type, by, gen, turn, kind) ==
  [type |-> type, by |-> by, gen |-> gen, turn |-> turn, kind |-> kind]

ChildTakesStart ==
  /\ childIn # <<>> /\ childTurn = 0
  /\ LET c == Head(childIn) IN
     \/ /\ turnsSoFar < MaxTurns
        /\ turnsSoFar' = turnsSoFar + 1 /\ childTurn' = turnsSoFar + 1
        /\ childOut' = Append(childOut, Line("yes", c.by, c.gen, turnsSoFar + 1, "other"))
        /\ UNCHANGED refusals
     \/ /\ \E k \in Kinds :
             /\ k = "capacity" => refusals < MaxRefusals
             /\ refusals' = IF k = "capacity" THEN refusals + 1 ELSE refusals
             /\ childOut' = Append(childOut, Line("no", c.by, c.gen, 0, k))
        /\ UNCHANGED <<turnsSoFar, childTurn>>
  /\ childIn' = Tail(childIn)
  /\ UNCHANGED <<entryVars, workVars, run, switchVars, turnVars, subagent, owed, reported, continueLost>>

(* The error may be announced before the end, or be in the end alone.         *)
ChildEndsTurn ==
  /\ childTurn # 0
  /\ childTurn' = 0
  /\ \E k \in Kinds, announced \in BOOLEAN :
       LET end == Line("ended", "user", 0, childTurn, k) IN
       childOut' = childOut \o
         IF announced /\ k # "other" THEN <<Line("error", "user", 0, childTurn, k), end>> ELSE <<end>>
  /\ UNCHANGED <<entryVars, workVars, run, switchVars, turnVars, turnsSoFar, refusals, subagent, childIn, owed,
                 reported, continueLost>>

ShimReads == ReadAccepted \/ ReadRejected \/ ReadFailure \/ ReadEnd
RunStep(r) == RunRead(r) \/ RunAnswered(r)
SwitchStep == SwitchDrains \/ SwitchContinues \/ SwitchGivenUp

CapacityNext ==
  \/ UserStart \/ RecoveryTimer \/ SwitchAsked \/ SwitchStep
  \/ ShimReads \/ ContinueTimesOut \/ ChildTakesStart \/ ChildEndsTurn
  \/ \E r \in Runs : RunStep(r)

CapacitySpec == CapacityInit /\ [][CapacityNext]_capacityVars

(* Timers fire, the shim reads its lines, the manager answers or the call      *)
(* fails, a request is carried out or given up, the app-server answers and its *)
(* turns end.                                                                *)
CapacityFairness ==
  /\ WF_capacityVars(RecoveryTimer) /\ WF_capacityVars(ShimReads) /\ WF_capacityVars(SwitchStep)
  /\ WF_capacityVars(ChildTakesStart) /\ WF_capacityVars(ChildEndsTurn)
  /\ \A r \in Runs : WF_capacityVars(RunStep(r))

-----------------------------------------------------------------------------

CapacityTypeOK ==
  /\ capacity # NoEntry =>
       /\ capacity.id \in 1..entries /\ capacity.gen \in 0..MaxWork /\ capacity.src \in 0..MaxTurns
       /\ capacity.state \in {"waiting", "claimedBySwitch", "running"}
  /\ switchAt \in {"off", "pending", "login", "read", "continue"}
  /\ activeTurn \in 0..MaxTurns /\ reported \subseteq 1..MaxTurns

(* Somebody looks after every entry: a waiting one has a timer or a call that *)
(* will send its Continue, a claimed one a request that holds it, a running   *)
(* one a Continue that is still unanswered.  An entry that fell between timer *)
(* and switch would leave its thread stopped for good.                       *)
EntryHasOwner ==
  capacity # NoEntry =>
    CASE capacity.state = "waiting" ->
           capacity.timer \/ \E r \in Runs : run[r].id = capacity.id /\ run[r].at # "start"
      [] capacity.state = "claimedBySwitch" -> switchAt # "off" /\ claim.id = capacity.id
      [] capacity.state = "running" -> \E r \in Runs : run[r].id = capacity.id /\ run[r].at = "start"

(* A Continue is sent only for a failure that nothing newer has superseded and *)
(* no Continue has answered yet, whether the timer, a call left over from an   *)
(* earlier timer of the same entry, or a switch sends it.  When an answer to a *)
(* Continue came too late the thread may get two.                            *)
SendsContinue == Len(childIn') > Len(childIn) /\ childIn'[Len(childIn')].by # "user"
ContinueOnlyWhenOwed == [][SendsContinue /\ ~continueLost => owed]_capacityVars

(* A thread that stopped for lack of capacity is continued, or gets new work,  *)
(* with whatever requests of a switch come and fail in between, unless a       *)
(* Continue has timed out.                                                   *)
FailureAnswered == owed ~> (~owed \/ continueLost)
=============================================================================
