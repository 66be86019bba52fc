----------------------- MODULE CapacityRecovery_proofs -----------------------
(***************************************************************************)
(* Theorems about CapacityRecovery, for any number of starts, turns and     *)
(* switch requests, and whatever Continues time out.                        *)
(***************************************************************************)
EXTENDS CapacityRecovery, SequenceTheorems, TLAPS

EntryStates == {"waiting", "claimedBySwitch", "running"}
RunPositions == {"off", "read", "manager", "covered", "switched", "start"}
Senders == Runs \cup {"user", "switch", "nobody"}
Works == 0..MaxWork
Turns == 1..MaxTurns
EntriesMade ==
  [id : 1..entries, gen : Works, src : 0..MaxTurns, timer : BOOLEAN, state : EntryStates]
Starts == [by : Senders, gen : Works]
Lines ==
  [type : {"yes", "no", "error", "ended"}, by : Senders, gen : Works, turn : 0..MaxTurns,
   kind : Kinds]

EntryTyped ==
  /\ entries \in Nat
  /\ capacity \in EntriesMade \cup {NoEntry}
  /\ run \in [Runs -> [id : 0..entries, gen : Works, at : RunPositions]]
CountersTyped ==
  /\ latestWork \in Works /\ turnWork \in [Turns -> Works]
  /\ switchAt \in {"off", "pending", "login", "read", "continue"}
  /\ activeTurn \in 0..MaxTurns /\ reported \subseteq Turns
  /\ childTurn \in 0..MaxTurns /\ turnsSoFar \in 0..MaxTurns
QueuesTyped ==
  /\ childIn \in Seq(Starts) /\ childOut \in Seq(Lines)
  /\ \A i \in 1..Len(childOut) : childOut[i].type # "no" => childOut[i].turn # 0
CapacityTyped == EntryTyped /\ CountersTyped /\ QueuesTyped

(* The entry is of the thread's latest work, and a call that was started    *)
(* for it knows it by the same generation.                                  *)
EntryIsLatest ==
  capacity # NoEntry =>
    /\ capacity.gen = latestWork
    /\ \A r \in Runs : run[r].id = capacity.id => run[r].gen = latestWork

(* A start or an answer of a call or of a switch is one that is awaited,    *)
(* and there is one of each.                                                *)
Awaited(m) ==
  /\ m.by \in Runs => run[m.by].at = "start" /\ run[m.by].gen = m.gen
  /\ m.by = "switch" => switchAt = "continue" /\ m.gen = latestWork
ForOne(m) == m.by \in Runs \cup {"switch"}
Answers ==
  /\ \A i \in 1..Len(childIn) : Awaited(childIn[i])
  /\ \A i \in 1..Len(childOut) : Awaited(childOut[i])
  /\ \A i, j \in 1..Len(childIn) :
       ForOne(childIn[i]) /\ childIn[i].by = childIn[j].by => i = j
  /\ \A i, j \in 1..Len(childOut) :
       ForOne(childOut[i]) /\ childOut[i].by = childOut[j].by => i = j
  /\ \A i \in 1..Len(childIn), j \in 1..Len(childOut) :
       ForOne(childIn[i]) => childIn[i].by # childOut[j].by

(* EntryHasOwner, state by state.                                           *)
WaitingOwned ==
  capacity # NoEntry /\ capacity.state = "waiting" =>
    capacity.timer \/ \E r \in Runs : run[r].id = capacity.id /\ run[r].at # "start"
ClaimedOwned ==
  capacity # NoEntry /\ capacity.state = "claimedBySwitch" =>
    switchAt # "off" /\ claim.id = capacity.id
RunningOwned ==
  capacity # NoEntry /\ capacity.state = "running" =>
    \E r \in Runs : run[r].id = capacity.id /\ run[r].at = "start"
Owned == WaitingOwned /\ ClaimedOwned /\ RunningOwned

CapacityInv == CapacityTyped /\ EntryIsLatest /\ Answers /\ Owned

-----------------------------------------------------------------------------
(* Sequences.                                                               *)
LEMMA TailOf ==
  ASSUME NEW S, NEW s \in Seq(S), s # <<>>
  PROVE  /\ Len(s) >= 1 /\ Head(s) = s[1] /\ s[1] \in S
         /\ Tail(s) \in Seq(S) /\ Len(Tail(s)) = Len(s) - 1
         /\ \A i \in 1..Len(Tail(s)) : Tail(s)[i] = s[i + 1] /\ i + 1 \in 1..Len(s)
OBVIOUS

LEMMA AppendOf ==
  ASSUME NEW S, NEW s \in Seq(S), NEW x \in S
  PROVE  /\ Append(s, x) \in Seq(S) /\ Len(Append(s, x)) = Len(s) + 1
         /\ Append(s, x)[Len(s) + 1] = x
         /\ \A i \in 1..Len(s) : Append(s, x)[i] = s[i]
         /\ \A i \in 1..Len(s) + 1 : i \in 1..Len(s) \/ i = Len(s) + 1
OBVIOUS

(* An entry is not the mark of its absence.                                 *)
LEMMA EntriesAreMade ==
  ASSUME EntryTyped
  PROVE  /\ NoEntry \notin EntriesMade
         /\ capacity # NoEntry => capacity \in EntriesMade
<1>1. EntriesMade \subseteq
        [id : Nat, gen : Nat, src : Nat, timer : BOOLEAN,
         state : {"waiting", "claimedBySwitch", "running"}]
  BY CapacityRecoveryAssumption DEF EntriesMade, EntryTyped, Works, EntryStates
<1>2. QED
  BY <1>1, CapacityRecoveryAssumption DEF EntryTyped

-----------------------------------------------------------------------------
(* What may happen to the entry.                                            *)
EntryCleared == capacity' = NoEntry /\ entries' = entries
EntryRenewed(gen) ==
  /\ entries' = entries + 1 /\ gen = latestWork
  /\ \E src \in 0..MaxTurns :
       capacity' = [id |-> entries + 1, gen |-> gen, src |-> src, state |-> "waiting", timer |-> TRUE]
EntryAdopted ==
  /\ entries' = entries /\ capacity # NoEntry /\ capacity.state = "waiting" /\ claim' = claim
  /\ \E src \in 0..MaxTurns : capacity' = [capacity EXCEPT !.src = src]
EntryUntouched == UNCHANGED entryVars

LEMMA FailedEffect ==
  ASSUME CapacityTyped, NEW kind, NEW gen, NEW turn \in 0..MaxTurns, Failed(kind, gen, turn)
  PROVE  \/ EntryCleared \/ EntryAdopted \/ EntryRenewed(gen)
         \/ EntryUntouched /\ kind = "capacity" /\ gen # latestWork
<1>1. CASE kind # "capacity"
  BY <1>1 DEF Failed, ForceClear, EntryCleared
<1>2. CASE kind = "capacity" /\ gen # latestWork
  BY <1>2 DEF Failed, ScheduleRecovery, EntryUntouched
<1>3. CASE kind = "capacity" /\ gen = latestWork /\ SameFailure(gen, turn)
  <2>1. capacity # NoEntry /\ capacity.state = "waiting" /\ capacity.src \in 0..MaxTurns
    BY <1>3, EntriesAreMade DEF SameFailure, CapacityTyped, EntriesMade
  <2>2. /\ capacity' = [capacity EXCEPT !.src = IF capacity.src = 0 THEN turn ELSE capacity.src]
        /\ UNCHANGED <<entries, claim>>
    BY <1>3 DEF Failed, ScheduleRecovery
  <2>3. QED
    BY <2>1, <2>2 DEF EntryAdopted
<1>4. CASE kind = "capacity" /\ gen = latestWork /\ ~SameFailure(gen, turn)
  BY <1>4 DEF Failed, ScheduleRecovery, EntryRenewed
<1>5. QED
  BY <1>1, <1>2, <1>3, <1>4

LEMMA FailedTypes ==
  ASSUME CapacityTyped, NEW kind, NEW gen \in Works, NEW turn \in 0..MaxTurns,
         Failed(kind, gen, turn)
  PROVE  /\ entries' \in Nat /\ entries <= entries'
         /\ capacity' \in EntriesMade' \cup {NoEntry} /\ reported' \subseteq Turns
<1>1. reported' \subseteq Turns
  BY DEF Failed, CapacityTyped, CountersTyped, Turns
<1>2. entries \in Nat
  BY DEF CapacityTyped, EntryTyped
<1>3. CASE EntryCleared
  BY <1>1, <1>2, <1>3 DEF EntryCleared
<1>4. CASE EntryUntouched
  BY <1>1, <1>2, <1>4 DEF EntryUntouched, entryVars, CapacityTyped, EntryTyped, EntriesMade
<1>5. CASE EntryAdopted
  <2>1. capacity \in EntriesMade /\ EntriesMade' = EntriesMade
    BY <1>5, EntriesAreMade DEF EntryAdopted, CapacityTyped, EntriesMade
  <2>2. PICK src \in 0..MaxTurns : capacity' = [capacity EXCEPT !.src = src]
    BY <1>5 DEF EntryAdopted
  <2>3. capacity' \in EntriesMade
    BY <2>1, <2>2 DEF EntriesMade
  <2>4. QED
    BY <1>1, <1>2, <1>5, <2>1, <2>3 DEF EntryAdopted
<1>6. CASE EntryRenewed(gen)
  <2>1. PICK src \in 0..MaxTurns :
          capacity' =
            [id |-> entries + 1, gen |-> gen, src |-> src, state |-> "waiting", timer |-> TRUE]
    BY <1>6 DEF EntryRenewed
  <2>2. entries' = entries + 1
    BY <1>6 DEF EntryRenewed
  <2>3. capacity' \in EntriesMade'
    BY <1>2, <2>1, <2>2 DEF EntriesMade, EntryStates
  <2>4. QED
    BY <1>1, <1>2, <2>2, <2>3
<1>7. QED
  BY <1>3, <1>4, <1>5, <1>6, FailedEffect

(* Calls known by more entries are still known.                             *)
LEMMA RunsGrow ==
  ASSUME CapacityTyped, entries' \in Nat, entries <= entries'
  PROVE  run \in [Runs -> [id : 0..entries', gen : Works, at : RunPositions]]
<1>1. entries \in Nat /\ 0..entries \subseteq 0..entries'
  BY DEF CapacityTyped, EntryTyped
<1>2. QED
  BY <1>1 DEF CapacityTyped, EntryTyped

RunTable == [Runs -> [id : 0..entries, gen : Works, at : RunPositions]]

(* What the steps do to the calls.                                          *)
LEMMA EndRunEffect ==
  ASSUME CapacityTyped, NEW r \in Runs, EndRun(r)
  PROVE  /\ run' \in RunTable /\ run'[r].at = "off" /\ run'[r].id = 0
         /\ \A q \in Runs : q # r => run'[q] = run[q]
<1>1. NoRun \in [id : 0..entries, gen : Works, at : RunPositions]
      /\ NoRun.at = "off" /\ NoRun.id = 0
  BY CapacityRecoveryAssumption DEF NoRun, Works, RunPositions, CapacityTyped, EntryTyped
<1>2. QED
  BY <1>1 DEF EndRun, CapacityTyped, EntryTyped, RunTable

LEMMA RunAtEffect ==
  ASSUME CapacityTyped, NEW r \in Runs, NEW at \in RunPositions, RunAt(r, at)
  PROVE  /\ run' \in RunTable
         /\ run'[r].at = at /\ run'[r].id = run[r].id /\ run'[r].gen = run[r].gen
         /\ \A q \in Runs : q # r => run'[q] = run[q]
<1>1. run' = [run EXCEPT ![r] = [run[r] EXCEPT !.at = at]]
  BY DEF RunAt
<1>2. run[r] \in [id : 0..entries, gen : Works, at : RunPositions]
  BY DEF CapacityTyped, EntryTyped
<1>3. QED
  BY <1>1, <1>2 DEF CapacityTyped, EntryTyped, RunTable

LEMMA CoveredEffect ==
  ASSUME CapacityTyped, NEW from \in RunPositions, NEW to \in RunPositions, Covered(from, to),
         from # "start", to # "start"
  PROVE  /\ run' \in RunTable
         /\ \A r \in Runs : /\ run'[r].id = run[r].id /\ run'[r].gen = run[r].gen
                            /\ (run'[r].at = "start") <=> (run[r].at = "start")
<1>1. \A r \in Runs : run[r] \in [id : 0..entries, gen : Works, at : RunPositions]
  BY DEF CapacityTyped, EntryTyped
<1>2. \A r \in Runs :
        /\ [run[r] EXCEPT !.at = to] \in [id : 0..entries, gen : Works, at : RunPositions]
        /\ [run[r] EXCEPT !.at = to].at = to /\ [run[r] EXCEPT !.at = to].id = run[r].id
        /\ [run[r] EXCEPT !.at = to].gen = run[r].gen
  BY <1>1
<1>3. \A r \in Runs :
        run'[r] = IF run[r].at = from THEN [run[r] EXCEPT !.at = to] ELSE run[r]
  BY DEF Covered
<1>4. run' \in RunTable
  BY <1>1, <1>2, <1>3 DEF Covered, RunTable
<1>5. QED
  BY <1>2, <1>3, <1>4

LEMMA ResumesEffect ==
  ASSUME CapacityTyped, NEW by \in Senders, Resumes(by)
  PROVE  /\ run' \in RunTable
         /\ by \in Runs => run'[by].at = "off" /\ run'[by].id = 0
         /\ \A r \in Runs : r # by =>
              /\ run'[r].id = run[r].id /\ run'[r].gen = run[r].gen
              /\ (run'[r].at = "start") <=> (run[r].at = "start")
         /\ switchAt' = IF by = "switch" THEN "off" ELSE switchAt
<1>1. CASE by \in Runs
  BY <1>1, EndRunEffect, CapacityRecoveryAssumption DEF Resumes, switchVars
<1>2. CASE by = "switch"
  <2>1. by \notin Runs
    BY <1>2, CapacityRecoveryAssumption
  <2>2. switchAt' = "off" /\ Covered("covered", "switched")
    BY <1>2, <2>1 DEF Resumes
  <2>3. QED
    BY <1>2, <2>1, <2>2, CoveredEffect DEF RunPositions
<1>3. CASE by \notin Runs /\ by # "switch"
  BY <1>3 DEF Resumes, switchVars, CapacityTyped, EntryTyped, RunTable
<1>4. QED
  BY <1>1, <1>2, <1>3

-----------------------------------------------------------------------------
(* The types, action by action.                                             *)

(* The entry is cleared or left.                                            *)
LEMMA ClearedTypes ==
  ASSUME CapacityTyped, ForceClear \/ UNCHANGED entryVars
  PROVE  entries' = entries /\ capacity' \in EntriesMade' \cup {NoEntry}
BY DEF ForceClear, entryVars, EntriesMade, CapacityTyped, EntryTyped

LEMMA RunStepTypes ==
  ASSUME CapacityTyped, NEW r \in Runs, RunStep(r)
  PROVE  CapacityTyped'
<1>0. run[r] \in [id : 0..entries, gen : Works, at : RunPositions]
  BY DEF CapacityTyped, EntryTyped
<1>1. ASSUME SendContinue(r)
      PROVE  /\ entries' = entries /\ capacity' \in EntriesMade' \cup {NoEntry}
             /\ run' \in RunTable /\ childIn' \in Seq(Starts)
  <2>1. CASE IsWaiting(run[r].id)
    <3>1. capacity \in EntriesMade /\ capacity' = [capacity EXCEPT !.state = "running"]
          /\ SendStart(r, run[r].gen) /\ RunAt(r, "start") /\ UNCHANGED entries
      BY <1>1, <2>1, EntriesAreMade DEF SendContinue, IsWaiting, IsEntry, CapacityTyped
    <3>2. capacity' \in EntriesMade'
      BY <3>1 DEF EntriesMade, EntryStates
    <3>3. [by |-> r, gen |-> run[r].gen] \in Starts
      BY <1>0 DEF Starts, Senders
    <3>4. childIn' \in Seq(Starts)
      BY <3>1, <3>3, AppendOf DEF SendStart, CapacityTyped, QueuesTyped
    <3>5. QED
      BY <3>1, <3>2, <3>4, RunAtEffect DEF RunPositions
  <2>2. CASE ~IsWaiting(run[r].id)
    <3>1. EndRun(r) /\ UNCHANGED <<capacity, childIn, entries>>
      BY <1>1, <2>2 DEF SendContinue
    <3>2. QED
      BY <3>1, EndRunEffect DEF CapacityTyped, EntryTyped, QueuesTyped, EntriesMade
  <2>3. QED
    BY <2>1, <2>2
<1>2. /\ entries' = entries /\ capacity' \in EntriesMade' \cup {NoEntry}
      /\ run' \in RunTable /\ childIn' \in Seq(Starts)
  <2>1. CASE RunRead(r)
    <3>1. CASE ForceClear /\ EndRun(r) /\ UNCHANGED <<childIn, owed, switchedWork>>
      BY <3>1, ClearedTypes, EndRunEffect DEF CapacityTyped, QueuesTyped
    <3>2. CASE SendContinue(r)
      BY <1>1, <3>2
    <3>3. CASE RunAt(r, "manager") /\ UNCHANGED <<entryVars, childIn, owed, switchedWork>>
      BY <3>3, ClearedTypes, RunAtEffect DEF CapacityTyped, QueuesTyped, RunPositions
    <3>4. QED
      BY <2>1, <3>1, <3>2, <3>3 DEF RunRead
  <2>2. CASE RunAnswered(r)
    <3>1. CASE (ForceClear \/ UNCHANGED entryVars) /\ EndRun(r) /\ UNCHANGED <<childIn, owed>>
      BY <3>1, ClearedTypes, EndRunEffect DEF CapacityTyped, QueuesTyped
    <3>2. CASE SendContinue(r)
      BY <1>1, <3>2
    <3>3. QED
      BY <2>2, <3>1, <3>2 DEF RunAnswered
  <2>3. QED
    BY <2>1, <2>2 DEF RunStep
<1>3. UNCHANGED <<latestWork, turnWork, switchAt, activeTurn, reported, childTurn, turnsSoFar,
                  childOut>>
  BY DEF RunStep, RunRead, RunAnswered, switchVars, turnVars, childVars
<1>4. QED
  BY <1>2, <1>3 DEF CapacityTyped, EntryTyped, CountersTyped, QueuesTyped, RunTable

LEMMA SwitchTypes ==
  ASSUME CapacityTyped, SwitchAsked \/ SwitchStep
  PROVE  CapacityTyped'
<1>1. /\ UNCHANGED <<latestWork, turnWork, activeTurn, reported, childTurn, turnsSoFar, childOut>>
      /\ entries' = entries
  BY DEF SwitchAsked, SwitchStep, SwitchDrains, SwitchContinues, SwitchGivenUp, workVars,
     turnVars, childVars, entryVars
<1>2. switchAt' \in {"off", "pending", "login", "read", "continue"}
  BY DEF SwitchAsked, SwitchStep, SwitchDrains, SwitchContinues, SwitchGivenUp
<1>3. run' \in RunTable
  <2>1. Covered("manager", "covered") \/ Covered("covered", "manager")
          \/ Covered("covered", "switched") \/ UNCHANGED run
    BY DEF SwitchAsked, SwitchStep, SwitchDrains, SwitchContinues, SwitchGivenUp
  <2>2. QED
    BY <2>1, CoveredEffect DEF RunPositions, CapacityTyped, EntryTyped, RunTable
<1>4. capacity' \in EntriesMade \cup {NoEntry}
  <2>1. capacity \in EntriesMade \cup {NoEntry}
    BY DEF CapacityTyped, EntryTyped
  <2>2. CASE SwitchAsked
    BY <2>1, <2>2 DEF SwitchAsked, EntriesMade, EntryStates
  <2>3. CASE SwitchGivenUp
    BY <2>1, <2>3 DEF SwitchGivenUp, IsEntry, EntriesMade, EntryStates
  <2>4. CASE SwitchDrains \/ SwitchContinues
    BY <2>1, <2>4 DEF SwitchDrains, SwitchContinues, entryVars
  <2>5. QED
    BY <2>2, <2>3, <2>4 DEF SwitchStep
<1>5. childIn' \in Seq(Starts)
  <2>1. UNCHANGED childIn \/ SendStart("switch", latestWork)
    BY DEF SwitchAsked, SwitchStep, SwitchDrains, SwitchContinues, SwitchGivenUp
  <2>2. [by |-> "switch", gen |-> latestWork] \in Starts
    BY DEF Starts, Senders, CapacityTyped, CountersTyped
  <2>3. QED
    BY <2>1, <2>2, AppendOf DEF SendStart, CapacityTyped, QueuesTyped
<1>6. EntriesMade' = EntriesMade
  BY <1>1 DEF EntriesMade
<1>7. QED
  BY <1>1, <1>2, <1>3, <1>4, <1>5, <1>6 DEF CapacityTyped, EntryTyped, CountersTyped, QueuesTyped,
     RunTable

LEMMA UserStartTypes ==
  ASSUME CapacityTyped, UserStart
  PROVE  CapacityTyped'
<1>1. latestWork' \in Works /\ latestWork' = latestWork + 1
  BY CapacityRecoveryAssumption DEF UserStart, CapacityTyped, CountersTyped, Works
<1>2. [by |-> "user", gen |-> latestWork + 1] \in Starts
  BY <1>1 DEF Starts, Senders
<1>3. childIn' \in Seq(Starts)
  BY <1>2, AppendOf DEF UserStart, SendStart, CapacityTyped, QueuesTyped
<1>4. entries' = entries /\ capacity' \in EntriesMade' \cup {NoEntry}
  BY ClearedTypes DEF UserStart
<1>5. QED
  BY <1>1, <1>3, <1>4 DEF UserStart, CapacityTyped, EntryTyped, CountersTyped, QueuesTyped,
     switchVars, childVars

LEMMA RecoveryTimerEffect ==
  ASSUME CapacityTyped, RecoveryTimer
  PROVE  /\ capacity # NoEntry /\ capacity' = [capacity EXCEPT !.timer = FALSE]
         /\ capacity \in EntriesMade /\ capacity' \in EntriesMade
         /\ \E r \in Runs :
              /\ run[r].at = "off" /\ run' \in RunTable
              /\ run'[r].id = capacity.id /\ run'[r].gen = capacity.gen /\ run'[r].at = "read"
              /\ \A q \in Runs : q # r => run'[q] = run[q]
<1>1. /\ capacity # NoEntry /\ capacity' = [capacity EXCEPT !.timer = FALSE]
      /\ capacity \in EntriesMade
  BY EntriesAreMade DEF RecoveryTimer, CapacityTyped
<1>2. PICK r \in Runs :
        /\ run[r] = NoRun
        /\ run' = [run EXCEPT ![r] = [id |-> capacity.id, gen |-> capacity.gen, at |-> "read"]]
  BY DEF RecoveryTimer
<1>3. [id |-> capacity.id, gen |-> capacity.gen, at |-> "read"]
        \in [id : 0..entries, gen : Works, at : RunPositions]
  BY <1>1 DEF EntriesMade, RunPositions, CapacityTyped, EntryTyped
<1>4. run' \in RunTable
  BY <1>2, <1>3 DEF CapacityTyped, EntryTyped, RunTable
<1>5. run[r].at = "off"
  BY <1>2 DEF NoRun
<1>6. capacity' \in EntriesMade
  BY <1>1 DEF EntriesMade
<1>7. QED
  BY <1>1, <1>2, <1>4, <1>5, <1>6 DEF CapacityTyped, EntryTyped

LEMMA RecoveryTimerTypes ==
  ASSUME CapacityTyped, RecoveryTimer
  PROVE  CapacityTyped'
<1>1. capacity' \in EntriesMade /\ run' \in RunTable
  BY RecoveryTimerEffect
<1>2. QED
  BY <1>1 DEF RecoveryTimer, CapacityTyped, EntryTyped, CountersTyped, QueuesTyped, EntriesMade,
     RunTable, workVars, switchVars, turnVars, childVars

(* A line that is read leaves the queue.                                    *)
LEMMA LineRead ==
  ASSUME CapacityTyped, NEW type, FirstLine(type)
  PROVE  /\ childOut # <<>> /\ Head(childOut) \in Lines /\ Head(childOut) = childOut[1]
         /\ Head(childOut).type = type /\ Len(childOut) >= 1
         /\ type # "no" => Head(childOut).turn \in Turns
         /\ childOut' \in Seq(Lines) /\ Len(childOut') = Len(childOut) - 1
         /\ \A i \in 1..Len(childOut') :
              childOut'[i] = childOut[i + 1] /\ i + 1 \in 1..Len(childOut)
         /\ \A i \in 1..Len(childOut') : childOut'[i].type # "no" => childOut'[i].turn # 0
<1>1. childOut # <<>> /\ childOut' = Tail(childOut) /\ Head(childOut).type = type
      /\ childOut \in Seq(Lines)
  BY DEF FirstLine, CapacityTyped, QueuesTyped
<1>2. /\ Len(childOut) >= 1 /\ Head(childOut) = childOut[1] /\ childOut[1] \in Lines
      /\ childOut' \in Seq(Lines) /\ Len(childOut') = Len(childOut) - 1
      /\ \A i \in 1..Len(childOut') :
           childOut'[i] = childOut[i + 1] /\ i + 1 \in 1..Len(childOut)
  BY <1>1, TailOf
<1>3. \A i \in 1..Len(childOut) : childOut[i].type # "no" => childOut[i].turn # 0
  BY DEF CapacityTyped, QueuesTyped
<1>4. 1 \in 1..Len(childOut)
  BY <1>1, <1>2
<1>5. type # "no" => Head(childOut).turn \in Turns
  BY <1>1, <1>2, <1>3, <1>4, CapacityRecoveryAssumption DEF Lines, Turns
<1>6. QED
  BY <1>1, <1>2, <1>3, <1>5

LEMMA GenerationTyped ==
  ASSUME CapacityTyped, NEW turn \in Turns
  PROVE  GenerationOf(turn) \in Works
BY DEF GenerationOf, CapacityTyped, CountersTyped

LEMMA ShimReadsTypes ==
  ASSUME CapacityTyped, ShimReads
  PROVE  CapacityTyped'
<1>1. CASE ReadAccepted
  <2> DEFINE m == Head(childOut)
  <2>1. /\ m \in Lines /\ m.turn \in Turns /\ childOut' \in Seq(Lines)
        /\ \A i \in 1..Len(childOut') : childOut'[i].type # "no" => childOut'[i].turn # 0
    BY <1>1, LineRead DEF ReadAccepted
  <2>2. m.by \in Senders /\ m.gen \in Works
    BY <2>1 DEF Lines
  <2>3. run' \in RunTable /\ switchAt' \in {switchAt, "off"}
    BY <1>1, <2>2, ResumesEffect DEF ReadAccepted
  <2>4. turnWork' \in [Turns -> Works]
    BY <1>1, <2>1, <2>2 DEF ReadAccepted, CapacityTyped, CountersTyped
  <2>5. activeTurn' \in 0..MaxTurns
    BY <1>1, <2>1 DEF ReadAccepted, CapacityTyped, CountersTyped, Turns
  <2>6. entries' = entries /\ capacity' \in EntriesMade' \cup {NoEntry}
    <3>1. CASE ForceClear \/ UNCHANGED entryVars
      BY <3>1, ClearedTypes
    <3>2. CASE entries' = entries /\ capacity' \in {capacity, NoEntry}
      BY <3>2 DEF EntriesMade, CapacityTyped, EntryTyped
    <3>3. QED
      BY <1>1, <3>1, <3>2 DEF ReadAccepted
  <2>7. UNCHANGED <<latestWork, childIn, reported, childTurn, turnsSoFar>>
    BY <1>1 DEF ReadAccepted, childVars
  <2> HIDE DEF m
  <2>8. QED
    BY <2>1, <2>3, <2>4, <2>5, <2>6, <2>7 DEF CapacityTyped, EntryTyped, CountersTyped, QueuesTyped,
       RunTable
<1>2. CASE ReadRejected
  <2> DEFINE m == Head(childOut)
  <2>1. /\ m \in Lines /\ childOut' \in Seq(Lines)
        /\ \A i \in 1..Len(childOut') : childOut'[i].type # "no" => childOut'[i].turn # 0
    BY <1>2, LineRead DEF ReadRejected
  <2>2. m.by \in Senders /\ m.gen \in Works /\ 0 \in 0..MaxTurns
    BY <2>1, CapacityRecoveryAssumption DEF Lines
  <2>3. run' \in RunTable /\ switchAt' \in {switchAt, "off"}
    BY <1>2, <2>2, ResumesEffect DEF ReadRejected
  <2>4. /\ entries' \in Nat /\ entries <= entries'
        /\ capacity' \in EntriesMade' \cup {NoEntry} /\ reported' \subseteq Turns
    <3>1. CASE UNCHANGED <<entryVars, owed, reported>>
      BY <3>1 DEF entryVars, EntriesMade, CapacityTyped, EntryTyped, CountersTyped
    <3>2. CASE Failed(m.kind, m.gen, 0)
      BY <2>2, <3>2, FailedTypes
    <3>3. QED
      BY <1>2, <3>1, <3>2 DEF ReadRejected
  <2>5. UNCHANGED <<latestWork, turnWork, activeTurn, childIn, childTurn, turnsSoFar>>
    BY <1>2 DEF ReadRejected, childVars, workVars
  <2> HIDE DEF m
  <2>6. run' \in [Runs -> [id : 0..entries', gen : Works, at : RunPositions]]
    <3>1. entries \in Nat /\ 0..entries \subseteq 0..entries'
      BY <2>4 DEF CapacityTyped, EntryTyped
    <3>2. QED
      BY <2>3, <3>1 DEF RunTable
  <2>7. QED
    BY <2>1, <2>3, <2>4, <2>5, <2>6 DEF CapacityTyped, EntryTyped, CountersTyped, QueuesTyped
<1>3. CASE ReadFailure \/ ReadEnd
  <2> DEFINE m == Head(childOut)
  <2>1. /\ m \in Lines /\ m.turn \in Turns /\ childOut' \in Seq(Lines)
        /\ \A i \in 1..Len(childOut') : childOut'[i].type # "no" => childOut'[i].turn # 0
    BY <1>3, LineRead DEF ReadFailure, ReadEnd
  <2>2. GenerationOf(m.turn) \in Works /\ m.turn \in 0..MaxTurns
    BY <2>1, GenerationTyped DEF Turns
  <2>3. /\ entries' \in Nat /\ entries <= entries'
        /\ capacity' \in EntriesMade' \cup {NoEntry} /\ reported' \subseteq Turns
    <3>1. CASE Failed(m.kind, GenerationOf(m.turn), m.turn)
      BY <2>2, <3>1, FailedTypes
    <3>2. CASE ClearOfTurn(GenerationOf(m.turn), m.turn) /\ UNCHANGED <<owed, reported>>
      <4>1. ForceClear \/ UNCHANGED entryVars
        BY <3>2 DEF ClearOfTurn
      <4>2. QED
        BY <3>2, <4>1, ClearedTypes DEF CapacityTyped, EntryTyped, CountersTyped
    <3>3. QED
      BY <1>3, <3>1, <3>2 DEF ReadFailure, ReadEnd
  <2>4. activeTurn' \in {activeTurn, 0}
    BY <1>3 DEF ReadFailure, ReadEnd, turnVars
  <2>5. UNCHANGED <<latestWork, turnWork, run, switchAt, childIn, childTurn, turnsSoFar>>
    BY <1>3 DEF ReadFailure, ReadEnd, workVars, switchVars, childVars
  <2> HIDE DEF m
  <2>6. run' \in [Runs -> [id : 0..entries', gen : Works, at : RunPositions]]
    BY <2>3, <2>5, RunsGrow
  <2>7. activeTurn' \in 0..MaxTurns
    BY <2>4, CapacityRecoveryAssumption DEF CapacityTyped, CountersTyped
  <2>8. QED
    BY <2>1, <2>3, <2>5, <2>6, <2>7 DEF CapacityTyped, EntryTyped, CountersTyped, QueuesTyped
<1>4. QED
  BY <1>1, <1>2, <1>3 DEF ShimReads

(* A start or line that nobody awaits any more.                             *)
Disown(s, by) == [i \in DOMAIN s |-> IF s[i].by = by THEN [s[i] EXCEPT !.by = "nobody"] ELSE s[i]]

LEMMA DisownStarts ==
  ASSUME NEW s \in Seq(Starts), NEW by
  PROVE  /\ Disown(s, by) \in Seq(Starts) /\ Len(Disown(s, by)) = Len(s)
         /\ \A i \in 1..Len(s) :
              /\ Disown(s, by)[i].by = IF s[i].by = by THEN "nobody" ELSE s[i].by
              /\ Disown(s, by)[i].gen = s[i].gen
<1>1. \A i \in 1..Len(s) : s[i] \in Starts
  OBVIOUS
<1>2. \A m \in Starts :
        /\ [m EXCEPT !.by = "nobody"] \in Starts /\ [m EXCEPT !.by = "nobody"].by = "nobody"
        /\ [m EXCEPT !.by = "nobody"].gen = m.gen
  BY DEF Starts, Senders
<1>3. DOMAIN s = 1..Len(s) /\ Len(s) \in Nat
  OBVIOUS
<1>4. \A i \in 1..Len(s) :
        /\ Disown(s, by)[i] \in Starts
        /\ Disown(s, by)[i].by = IF s[i].by = by THEN "nobody" ELSE s[i].by
        /\ Disown(s, by)[i].gen = s[i].gen
  BY <1>1, <1>2, <1>3 DEF Disown
<1>5. Disown(s, by) \in [1..Len(s) -> Starts]
  BY <1>3, <1>4 DEF Disown
<1>6. Disown(s, by) \in Seq(Starts) /\ Len(Disown(s, by)) = Len(s)
  BY <1>3, <1>5
<1>7. QED
  BY <1>4, <1>6

LEMMA DisownLines ==
  ASSUME NEW s \in Seq(Lines), NEW by
  PROVE  /\ Disown(s, by) \in Seq(Lines) /\ Len(Disown(s, by)) = Len(s)
         /\ \A i \in 1..Len(s) :
              /\ Disown(s, by)[i].by = IF s[i].by = by THEN "nobody" ELSE s[i].by
              /\ Disown(s, by)[i].gen = s[i].gen
              /\ Disown(s, by)[i].type = s[i].type /\ Disown(s, by)[i].turn = s[i].turn
<1>1. \A i \in 1..Len(s) : s[i] \in Lines
  OBVIOUS
<1>2. \A m \in Lines :
        /\ [m EXCEPT !.by = "nobody"] \in Lines /\ [m EXCEPT !.by = "nobody"].by = "nobody"
        /\ [m EXCEPT !.by = "nobody"].gen = m.gen
        /\ [m EXCEPT !.by = "nobody"].type = m.type
        /\ [m EXCEPT !.by = "nobody"].turn = m.turn
  BY DEF Lines, Senders
<1>3. DOMAIN s = 1..Len(s) /\ Len(s) \in Nat
  OBVIOUS
<1>4. \A i \in 1..Len(s) :
        /\ Disown(s, by)[i] \in Lines
        /\ Disown(s, by)[i].by = IF s[i].by = by THEN "nobody" ELSE s[i].by
        /\ Disown(s, by)[i].gen = s[i].gen
        /\ Disown(s, by)[i].type = s[i].type /\ Disown(s, by)[i].turn = s[i].turn
  BY <1>1, <1>2, <1>3 DEF Disown
<1>5. Disown(s, by) \in [1..Len(s) -> Lines]
  BY <1>3, <1>4 DEF Disown
<1>6. Disown(s, by) \in Seq(Lines) /\ Len(Disown(s, by)) = Len(s)
  BY <1>3, <1>5
<1>7. QED
  BY <1>4, <1>6

(* A Continue nobody answers in time.                                       *)
LEMMA ContinueTimesOutEffect ==
  ASSUME CapacityTyped, ContinueTimesOut
  PROVE  \E by \in Runs \cup {"switch"} :
           /\ IF by = "switch" THEN switchAt = "continue" ELSE run[by].at = "start"
           /\ childIn' = Disown(childIn, by) /\ childOut' = Disown(childOut, by)
           /\ entries' = entries
           /\ by \in Runs => capacity' = IF IsEntry(run[by].id) THEN NoEntry ELSE capacity
           /\ by = "switch" => capacity' = IF IsEntry(claim.id) THEN NoEntry ELSE capacity
           /\ claim' = IF by = "switch" THEN NoClaim ELSE claim
           /\ Resumes(by)
BY CapacityRecoveryAssumption DEF ContinueTimesOut, Disown

LEMMA ContinueTimesOutTypes ==
  ASSUME CapacityTyped, ContinueTimesOut
  PROVE  CapacityTyped'
<1>1. PICK by \in Runs \cup {"switch"} :
        /\ childIn' = Disown(childIn, by) /\ childOut' = Disown(childOut, by)
        /\ entries' = entries /\ capacity' \in {capacity, NoEntry}
        /\ Resumes(by)
  BY ContinueTimesOutEffect
<1>2. by \in Senders /\ run' \in RunTable /\ switchAt' \in {switchAt, "off"}
  BY <1>1, ResumesEffect DEF Senders
<1>3. childIn' \in Seq(Starts)
  BY <1>1, DisownStarts DEF CapacityTyped, QueuesTyped
<1>4. /\ childOut' \in Seq(Lines)
      /\ \A i \in 1..Len(childOut') : childOut'[i].type # "no" => childOut'[i].turn # 0
  BY <1>1, DisownLines DEF CapacityTyped, QueuesTyped
<1>5. EntriesMade' = EntriesMade
  BY <1>1 DEF EntriesMade
<1>6. UNCHANGED <<latestWork, turnWork, activeTurn, reported, childTurn, turnsSoFar>>
  BY DEF ContinueTimesOut, workVars, turnVars, childVars
<1>7. QED
  BY <1>1, <1>2, <1>3, <1>4, <1>5, <1>6
     DEF CapacityTyped, EntryTyped, CountersTyped, QueuesTyped, RunTable

(* The app-server answers a start, in the order in which they came.         *)
LEMMA ChildTakesStartEffect ==
  ASSUME CapacityTyped, ChildTakesStart
  PROVE  /\ childIn # <<>> /\ childIn' = Tail(childIn) /\ childIn \in Seq(Starts)
         /\ turnsSoFar' \in 0..MaxTurns /\ childTurn' \in 0..MaxTurns
         /\ \E m \in Lines :
              /\ childOut' = Append(childOut, m)
              /\ m.by = childIn[1].by /\ m.gen = childIn[1].gen
              /\ m.type # "no" => m.turn # 0
<1>1. /\ childIn # <<>> /\ childIn' = Tail(childIn) /\ childIn \in Seq(Starts)
      /\ Head(childIn) = childIn[1] /\ childIn[1] \in Starts
  BY TailOf DEF ChildTakesStart, CapacityTyped, QueuesTyped
<1>2. turnsSoFar \in 0..MaxTurns /\ MaxTurns \in Nat /\ childTurn \in 0..MaxTurns
  BY CapacityRecoveryAssumption DEF CapacityTyped, CountersTyped
<1>3. CASE /\ turnsSoFar < MaxTurns
           /\ turnsSoFar' = turnsSoFar + 1 /\ childTurn' = turnsSoFar + 1
           /\ childOut' = Append(childOut, Line("yes", childIn[1].by, childIn[1].gen,
                                                turnsSoFar + 1, "other"))
  <2> DEFINE m == Line("yes", childIn[1].by, childIn[1].gen, turnsSoFar + 1, "other")
  <2>1. turnsSoFar + 1 \in 0..MaxTurns /\ turnsSoFar + 1 # 0
    BY <1>2, <1>3
  <2>2. m \in Lines /\ m.by = childIn[1].by /\ m.gen = childIn[1].gen /\ m.turn # 0
    BY <1>1, <2>1 DEF Line, Lines, Starts, Kinds
  <2>3. QED
    BY <1>1, <1>3, <2>1, <2>2
<1>4. CASE /\ \E k \in Kinds :
                childOut' = Append(childOut, Line("no", childIn[1].by, childIn[1].gen, 0, k))
           /\ UNCHANGED <<turnsSoFar, childTurn>>
  <2>1. PICK k \in Kinds :
          childOut' = Append(childOut, Line("no", childIn[1].by, childIn[1].gen, 0, k))
    BY <1>4
  <2> DEFINE m == Line("no", childIn[1].by, childIn[1].gen, 0, k)
  <2>2. m \in Lines /\ m.by = childIn[1].by /\ m.gen = childIn[1].gen /\ m.type = "no"
    BY <1>1, <1>2 DEF Line, Lines, Starts
  <2>3. QED
    BY <1>1, <1>2, <1>4, <2>1, <2>2
<1>5. QED
  BY <1>1, <1>3, <1>4 DEF ChildTakesStart

LEMMA ChildTakesStartTypes ==
  ASSUME CapacityTyped, ChildTakesStart
  PROVE  CapacityTyped'
<1>1. /\ childIn # <<>> /\ childIn' = Tail(childIn) /\ childIn \in Seq(Starts)
      /\ turnsSoFar' \in 0..MaxTurns /\ childTurn' \in 0..MaxTurns
  BY ChildTakesStartEffect
<1>2. PICK m \in Lines : childOut' = Append(childOut, m) /\ (m.type # "no" => m.turn # 0)
  BY ChildTakesStartEffect
<1>3. childIn' \in Seq(Starts)
  BY <1>1, TailOf
<1>4. childOut' \in Seq(Lines)
      /\ \A i \in 1..Len(childOut') : childOut'[i].type # "no" => childOut'[i].turn # 0
  BY <1>2, AppendOf DEF CapacityTyped, QueuesTyped
<1>5. UNCHANGED <<entries, capacity, latestWork, turnWork, run, switchAt, activeTurn, reported>>
  BY DEF ChildTakesStart, entryVars, workVars, switchVars, turnVars
<1>6. QED
  BY <1>1, <1>3, <1>4, <1>5 DEF CapacityTyped, EntryTyped, CountersTyped, QueuesTyped, EntriesMade

LEMMA ChildEndsTurnEffect ==
  ASSUME CapacityTyped, ChildEndsTurn
  PROVE  /\ childOut' \in Seq(Lines) /\ Len(childOut) <= Len(childOut') /\ childTurn' = 0
         /\ \A i \in 1..Len(childOut) : childOut'[i] = childOut[i]
         /\ \A i \in 1..Len(childOut') :
              i \in 1..Len(childOut) \/ (childOut'[i].by = "user" /\ childOut'[i].turn # 0)
<1>1. childTurn # 0 /\ childTurn \in 0..MaxTurns /\ childTurn' = 0 /\ childOut \in Seq(Lines)
  BY DEF ChildEndsTurn, CapacityTyped, CountersTyped, QueuesTyped
<1>2. PICK k \in Kinds, announced \in BOOLEAN :
        childOut' = childOut \o
          IF announced /\ k # "other"
            THEN <<Line("error", "user", 0, childTurn, k), Line("ended", "user", 0, childTurn, k)>>
            ELSE <<Line("ended", "user", 0, childTurn, k)>>
  BY DEF ChildEndsTurn
<1>3. \A type \in {"error", "ended"} :
        /\ Line(type, "user", 0, childTurn, k) \in Lines
        /\ Line(type, "user", 0, childTurn, k).by = "user"
        /\ Line(type, "user", 0, childTurn, k).turn # 0
  BY <1>1, CapacityRecoveryAssumption DEF Line, Lines, Senders, Works
<1> DEFINE e == Line("error", "user", 0, childTurn, k)
           n == Line("ended", "user", 0, childTurn, k)
<1>4. /\ e \in Lines /\ e.by = "user" /\ e.turn # 0
      /\ n \in Lines /\ n.by = "user" /\ n.turn # 0
      /\ childOut' = childOut \o <<e, n>> \/ childOut' = childOut \o <<n>>
  BY <1>2, <1>3
<1> HIDE DEF e, n
<1>5. ASSUME NEW s \in Seq(Lines), NEW x \in Lines
      PROVE  s \o <<x>> = Append(s, x)
  BY <1>5, AppendIsConcat
<1>6. CASE childOut' = childOut \o <<n>>
  <2>1. childOut' = Append(childOut, n)
    BY <1>1, <1>4, <1>5, <1>6
  <2>2. /\ childOut' \in Seq(Lines) /\ Len(childOut') = Len(childOut) + 1
        /\ childOut'[Len(childOut) + 1] = n
        /\ \A i \in 1..Len(childOut) : childOut'[i] = childOut[i]
        /\ \A i \in 1..Len(childOut') : i \in 1..Len(childOut) \/ i = Len(childOut) + 1
    BY <1>1, <1>4, <2>1, AppendOf
  <2>3. Len(childOut) \in Nat
    BY <1>1
  <2>4. \A i \in 1..Len(childOut') :
          i \in 1..Len(childOut) \/ (childOut'[i].by = "user" /\ childOut'[i].turn # 0)
    BY <1>4, <2>2
  <2>5. QED
    BY <1>1, <2>2, <2>3, <2>4
<1>7. CASE childOut' = childOut \o <<e, n>>
  <2> DEFINE s == Append(childOut, e)
  <2>1. /\ s \in Seq(Lines) /\ Len(s) = Len(childOut) + 1 /\ s[Len(childOut) + 1] = e
        /\ \A i \in 1..Len(childOut) : s[i] = childOut[i]
        /\ \A i \in 1..Len(s) : i \in 1..Len(childOut) \/ i = Len(childOut) + 1
    BY <1>1, <1>4, AppendOf
  <2>2. childOut' = Append(s, n)
    <3>1. <<e, n>> = <<e>> \o <<n>> /\ <<e>> \in Seq(Lines) /\ <<n>> \in Seq(Lines)
      <4>1. <<e>> \in Seq(Lines) /\ <<n>> \in Seq(Lines)
        BY <1>4
      <4>2. <<e, n>> = Append(<<e>>, n)
        OBVIOUS
      <4>3. QED
        BY <1>4, <1>5, <4>1, <4>2
    <3>2. childOut' = (childOut \o <<e>>) \o <<n>>
      BY <1>1, <1>7, <3>1, ConcatAssociative
    <3>3. QED
      BY <1>1, <1>4, <1>5, <2>1, <3>2
  <2> HIDE DEF s
  <2>3. /\ childOut' \in Seq(Lines) /\ Len(childOut') = Len(s) + 1 /\ childOut'[Len(s) + 1] = n
        /\ \A i \in 1..Len(s) : childOut'[i] = s[i]
        /\ \A i \in 1..Len(childOut') : i \in 1..Len(s) \/ i = Len(s) + 1
    BY <1>4, <2>1, <2>2, AppendOf
  <2>4. Len(childOut) \in Nat /\ Len(childOut') = Len(childOut) + 2
    BY <1>1, <2>1, <2>3
  <2>5. \A i \in 1..Len(childOut) : i \in 1..Len(s) /\ childOut'[i] = childOut[i]
    BY <2>1, <2>3, <2>4
  <2>6. ASSUME NEW i \in 1..Len(childOut'), i \notin 1..Len(childOut)
        PROVE  childOut'[i] \in {e, n}
    <3>1. CASE i = Len(s) + 1
      BY <2>3, <3>1
    <3>2. CASE i \in 1..Len(s)
      BY <2>1, <2>3, <2>6, <3>2
    <3>3. QED
      BY <2>3, <3>1, <3>2
  <2>7. \A i \in 1..Len(childOut') :
          i \in 1..Len(childOut) \/ (childOut'[i].by = "user" /\ childOut'[i].turn # 0)
    BY <1>4, <2>6
  <2>8. Len(childOut) <= Len(childOut')
    BY <2>4
  <2>9. QED
    BY <1>1, <2>3, <2>5, <2>7, <2>8
<1>8. QED
  BY <1>4, <1>6, <1>7

LEMMA ChildEndsTurnTypes ==
  ASSUME CapacityTyped, ChildEndsTurn
  PROVE  CapacityTyped'
<1>1. /\ childOut' \in Seq(Lines) /\ childTurn' \in 0..MaxTurns
      /\ \A i \in 1..Len(childOut') : childOut'[i].type # "no" => childOut'[i].turn # 0
  <2>1. /\ childOut' \in Seq(Lines) /\ childTurn' = 0
        /\ \A i \in 1..Len(childOut) : childOut'[i] = childOut[i]
        /\ \A i \in 1..Len(childOut') :
             i \in 1..Len(childOut) \/ (childOut'[i].by = "user" /\ childOut'[i].turn # 0)
    BY ChildEndsTurnEffect
  <2>2. \A i \in 1..Len(childOut) : childOut[i].type # "no" => childOut[i].turn # 0
    BY DEF CapacityTyped, QueuesTyped
  <2>3. \A i \in 1..Len(childOut') : childOut'[i].type # "no" => childOut'[i].turn # 0
    BY <2>1, <2>2
  <2>4. 0 \in 0..MaxTurns
    BY CapacityRecoveryAssumption
  <2>5. QED
    BY <2>1, <2>3, <2>4
<1>2. UNCHANGED <<entries, capacity, latestWork, turnWork, run, switchAt, activeTurn, reported,
                  turnsSoFar, childIn>>
  BY DEF ChildEndsTurn, entryVars, workVars, switchVars, turnVars
<1>3. QED
  BY <1>1, <1>2 DEF CapacityTyped, EntryTyped, CountersTyped, QueuesTyped, EntriesMade

LEMMA CapacityTypes == CapacityTyped /\ [CapacityNext]_capacityVars => CapacityTyped'
<1> SUFFICES ASSUME CapacityTyped, [CapacityNext]_capacityVars PROVE CapacityTyped'
  OBVIOUS
<1>1. CASE UNCHANGED capacityVars
  BY <1>1 DEF capacityVars, entryVars, workVars, switchVars, turnVars, childVars, CapacityTyped,
     EntryTyped, CountersTyped, QueuesTyped, EntriesMade
<1>2. CASE CapacityNext
  BY <1>2, UserStartTypes, RecoveryTimerTypes, SwitchTypes, ShimReadsTypes, ContinueTimesOutTypes,
     ChildTakesStartTypes, ChildEndsTurnTypes, RunStepTypes DEF CapacityNext
<1>3. QED
  BY <1>1, <1>2

LEMMA CapacityInitTypes == CapacityInit => CapacityTyped
<1> SUFFICES ASSUME CapacityInit PROVE CapacityTyped
  OBVIOUS
<1>1. NoRun \in [id : 0..0, gen : Works, at : RunPositions]
  BY CapacityRecoveryAssumption DEF NoRun, Works, RunPositions
<1>2. EntryTyped
  BY <1>1 DEF CapacityInit, EntryTyped
<1>3. CountersTyped
  BY CapacityRecoveryAssumption DEF CapacityInit, CountersTyped, Works, Turns
<1>4. QueuesTyped
  BY DEF CapacityInit, QueuesTyped
<1>5. QED
  BY <1>2, <1>3, <1>4 DEF CapacityTyped

-----------------------------------------------------------------------------
(* Who awaits an answer.                                                    *)

(* Every call but that of by that awaits an answer goes on awaiting it.     *)
KeptBut(by) ==
  /\ \A r \in Runs : r # by /\ run[r].at = "start" =>
       run'[r].at = "start" /\ run'[r].gen = run[r].gen
  /\ by # "switch" /\ switchAt = "continue" => switchAt' = "continue" /\ latestWork' = latestWork

AwaitedNext(m) ==
  /\ m.by \in Runs => run'[m.by].at = "start" /\ run'[m.by].gen = m.gen
  /\ m.by = "switch" => switchAt' = "continue" /\ m.gen = latestWork'

LEMMA QueueRest ==
  ASSUME CapacityTyped, Answers, KeptBut("user"), UNCHANGED <<childIn, childOut>>
  PROVE  Answers'
<1>1. "user" \notin Runs
  BY CapacityRecoveryAssumption
<1>2. \A i \in 1..Len(childIn) : AwaitedNext(childIn'[i])
  BY <1>1 DEF Answers, Awaited, AwaitedNext, KeptBut
<1>3. \A i \in 1..Len(childOut) : AwaitedNext(childOut'[i])
  BY <1>1 DEF Answers, Awaited, AwaitedNext, KeptBut
<1>4. QED
  BY <1>2, <1>3 DEF Answers, ForOne, Awaited, AwaitedNext

LEMMA QueueSend ==
  ASSUME CapacityTyped, Answers, NEW by \in Senders, NEW gen \in Works, SendStart(by, gen),
         childOut' = childOut, KeptBut("user"),
         by \in Runs => run[by].at # "start" /\ run'[by].at = "start" /\ run'[by].gen = gen,
         by = "switch" => switchAt # "continue" /\ switchAt' = "continue" /\ gen = latestWork'
  PROVE  Answers'
<1> DEFINE m == [by |-> by, gen |-> gen]
           n == Len(childIn) + 1
<1>1. m \in Starts /\ m.by = by /\ m.gen = gen
  BY DEF Starts
<1>2. /\ Len(childIn') = n /\ childIn'[n] = m /\ \A i \in 1..Len(childIn) : childIn'[i] = childIn[i]
      /\ \A i \in 1..n : i \in 1..Len(childIn) \/ i = n
  BY <1>1, AppendOf DEF SendStart, CapacityTyped, QueuesTyped
<1>3. "user" \notin Runs
  BY CapacityRecoveryAssumption
<1> HIDE DEF m, n
<1>4. \A i \in 1..Len(childIn) : AwaitedNext(childIn'[i]) /\ (ForOne(childIn[i]) => childIn[i].by # by)
  <2> TAKE i \in 1..Len(childIn)
  <2>1. Awaited(childIn[i]) /\ childIn'[i] = childIn[i]
    BY <1>2 DEF Answers
  <2>2. QED
    BY <1>3, <2>1 DEF Awaited, AwaitedNext, KeptBut, ForOne
<1>5. \A i \in 1..Len(childOut) : AwaitedNext(childOut'[i]) /\ (ForOne(m) => childOut[i].by # by)
  <2> TAKE i \in 1..Len(childOut)
  <2>1. Awaited(childOut[i]) /\ childOut'[i] = childOut[i]
    BY DEF Answers
  <2>2. QED
    BY <1>1, <1>3, <2>1 DEF Awaited, AwaitedNext, KeptBut, ForOne
<1>6. AwaitedNext(childIn'[n])
  BY <1>1, <1>2 DEF AwaitedNext
<1>7. \A i \in 1..Len(childIn') : AwaitedNext(childIn'[i])
  <2> TAKE i \in 1..Len(childIn')
  <2>1. i \in 1..Len(childIn) \/ i = n
    BY <1>2
  <2>2. QED
    BY <1>4, <1>6, <2>1
<1>8. \A i, j \in 1..Len(childIn') :
        ForOne(childIn'[i]) /\ childIn'[i].by = childIn'[j].by => i = j
  BY <1>1, <1>2, <1>4 DEF Answers, ForOne
<1>9. \A i \in 1..Len(childIn'), j \in 1..Len(childOut) :
        ForOne(childIn'[i]) => childIn'[i].by # childOut[j].by
  BY <1>1, <1>2, <1>5 DEF Answers, ForOne
<1>10. QED
  BY <1>5, <1>7, <1>8, <1>9 DEF Answers, ForOne, Awaited, AwaitedNext

LEMMA QueueRead ==
  ASSUME CapacityTyped, Answers, NEW type, FirstLine(type), childIn' = childIn,
         KeptBut(childOut[1].by)
  PROVE  Answers'
<1> DEFINE by == childOut[1].by
<1>1. /\ 1 \in 1..Len(childOut) /\ Len(childOut') = Len(childOut) - 1
      /\ \A i \in 1..Len(childOut') :
           childOut'[i] = childOut[i + 1] /\ i + 1 \in 1..Len(childOut) /\ i + 1 # 1
  BY LineRead
<1>2. \A i \in 1..Len(childIn) : AwaitedNext(childIn'[i])
  <2> TAKE i \in 1..Len(childIn)
  <2>1. Awaited(childIn[i]) /\ childIn'[i] = childIn[i] /\ (ForOne(childIn[i]) => childIn[i].by # by)
    BY <1>1 DEF Answers
  <2>2. QED
    BY <2>1 DEF Awaited, AwaitedNext, KeptBut, ForOne
<1>3. \A i \in 1..Len(childOut') : AwaitedNext(childOut'[i])
  <2> TAKE i \in 1..Len(childOut')
  <2> DEFINE k == i + 1
  <2>1. Awaited(childOut[k]) /\ childOut'[i] = childOut[k]
        /\ (ForOne(childOut[k]) => childOut[k].by # by)
    BY <1>1 DEF Answers
  <2> HIDE DEF k
  <2>2. QED
    BY <2>1 DEF Awaited, AwaitedNext, KeptBut, ForOne
<1>4. \A i, j \in 1..Len(childOut') :
        ForOne(childOut'[i]) /\ childOut'[i].by = childOut'[j].by => i = j
  <2> TAKE i, j \in 1..Len(childOut')
  <2>1. ForOne(childOut[i + 1]) /\ childOut[i + 1].by = childOut[j + 1].by => i + 1 = j + 1
    BY <1>1 DEF Answers
  <2>2. QED
    BY <1>1, <2>1
<1>5. \A i \in 1..Len(childIn), j \in 1..Len(childOut') :
        ForOne(childIn[i]) => childIn[i].by # childOut'[j].by
  BY <1>1 DEF Answers
<1>6. QED
  BY <1>2, <1>3, <1>4, <1>5 DEF Answers, ForOne, Awaited, AwaitedNext

LEMMA QueueTake ==
  ASSUME CapacityTyped, Answers, ChildTakesStart
  PROVE  Answers'
<1>1. PICK m \in Lines : childOut' = Append(childOut, m) /\ m.by = childIn[1].by /\ m.gen = childIn[1].gen
  BY ChildTakesStartEffect
<1>2. /\ 1 \in 1..Len(childIn) /\ Len(childIn') = Len(childIn) - 1
      /\ \A i \in 1..Len(childIn') :
           childIn'[i] = childIn[i + 1] /\ i + 1 \in 1..Len(childIn) /\ i + 1 # 1
  <2>1. childIn # <<>> /\ childIn' = Tail(childIn) /\ childIn \in Seq(Starts)
    BY ChildTakesStartEffect
  <2>2. /\ Len(childIn) >= 1 /\ Len(childIn) \in Nat /\ Len(childIn') = Len(childIn) - 1
        /\ \A i \in 1..Len(childIn') : childIn'[i] = childIn[i + 1] /\ i + 1 \in 1..Len(childIn)
    BY <2>1, TailOf
  <2>3. QED
    BY <2>2
<1> DEFINE n == Len(childOut) + 1
<1>3. /\ Len(childOut') = n /\ childOut'[n] = m
      /\ \A i \in 1..Len(childOut) : childOut'[i] = childOut[i]
      /\ \A i \in 1..n : i \in 1..Len(childOut) \/ i = n
  BY <1>1, AppendOf DEF CapacityTyped, QueuesTyped
<1>4. UNCHANGED <<run, switchAt, latestWork>>
  BY DEF ChildTakesStart, switchVars, workVars
<1> HIDE DEF n
<1>5. \A i \in 1..Len(childIn') : AwaitedNext(childIn'[i])
  BY <1>2, <1>4 DEF Answers, Awaited, AwaitedNext
<1>6. AwaitedNext(childOut'[n])
  BY <1>1, <1>2, <1>3, <1>4 DEF Answers, Awaited, AwaitedNext
<1>7. \A i \in 1..Len(childOut') : AwaitedNext(childOut'[i])
  <2> TAKE i \in 1..Len(childOut')
  <2>1. CASE i = n
    BY <1>6, <2>1
  <2>2. CASE i \in 1..Len(childOut)
    BY <1>3, <1>4, <2>2 DEF Answers, Awaited, AwaitedNext
  <2>3. QED
    BY <1>3, <2>1, <2>2
<1>8. \A i, j \in 1..Len(childIn') :
        ForOne(childIn'[i]) /\ childIn'[i].by = childIn'[j].by => i = j
  <2> TAKE i, j \in 1..Len(childIn')
  <2>1. ForOne(childIn[i + 1]) /\ childIn[i + 1].by = childIn[j + 1].by => i + 1 = j + 1
    BY <1>2 DEF Answers
  <2>2. QED
    BY <1>2, <2>1
<1>9. \A i \in 1..Len(childIn') : ForOne(childIn'[i]) => childIn'[i].by # m.by
  BY <1>1, <1>2 DEF Answers
<1>10. \A i \in 1..Len(childOut) : ForOne(m) => childOut[i].by # m.by
  BY <1>1, <1>2 DEF Answers, ForOne
<1>11. \A i, j \in 1..Len(childOut') :
         ForOne(childOut'[i]) /\ childOut'[i].by = childOut'[j].by => i = j
  BY <1>3, <1>10 DEF Answers, ForOne
<1>12. \A i \in 1..Len(childIn'), j \in 1..Len(childOut') :
         ForOne(childIn'[i]) => childIn'[i].by # childOut'[j].by
  <2> TAKE i \in 1..Len(childIn'), j \in 1..Len(childOut')
  <2>1. CASE j = n
    BY <1>3, <1>9, <2>1
  <2>2. CASE j \in 1..Len(childOut)
    <3>1. childIn'[i] = childIn[i + 1] /\ i + 1 \in 1..Len(childIn) /\ childOut'[j] = childOut[j]
      BY <1>2, <1>3, <2>2
    <3>2. ForOne(childIn[i + 1]) => childIn[i + 1].by # childOut[j].by
      BY <2>2, <3>1 DEF Answers
    <3>3. QED
      BY <3>1, <3>2
  <2>3. QED
    BY <1>3, <2>1, <2>2
<1>13. QED
  BY <1>5, <1>7, <1>8, <1>11, <1>12 DEF Answers, ForOne, Awaited, AwaitedNext

LEMMA QueueEnds ==
  ASSUME CapacityTyped, Answers, ChildEndsTurn
  PROVE  Answers'
<1>1. /\ \A i \in 1..Len(childOut) : childOut'[i] = childOut[i]
      /\ \A i \in 1..Len(childOut') : i \in 1..Len(childOut) \/ childOut'[i].by = "user"
  BY ChildEndsTurnEffect
<1>2. UNCHANGED <<run, switchAt, latestWork, childIn>>
  BY DEF ChildEndsTurn, switchVars, workVars
<1>3. "user" \notin Runs \cup {"switch"}
  BY CapacityRecoveryAssumption
<1>4. \A i \in 1..Len(childOut') : AwaitedNext(childOut'[i])
  <2> TAKE i \in 1..Len(childOut')
  <2>1. CASE i \in 1..Len(childOut)
    BY <1>1, <1>2, <2>1 DEF Answers, Awaited, AwaitedNext
  <2>2. CASE childOut'[i].by = "user"
    BY <1>3, <2>2 DEF AwaitedNext
  <2>3. QED
    BY <1>1, <2>1, <2>2
<1>5. \A i, j \in 1..Len(childOut') :
        ForOne(childOut'[i]) /\ childOut'[i].by = childOut'[j].by => i = j
  BY <1>1, <1>3 DEF Answers, ForOne
<1>6. \A i \in 1..Len(childIn), j \in 1..Len(childOut') :
        ForOne(childIn[i]) => childIn[i].by # childOut'[j].by
  BY <1>1, <1>3 DEF Answers, ForOne
<1>7. QED
  BY <1>2, <1>4, <1>5, <1>6 DEF Answers, ForOne, Awaited, AwaitedNext

LEMMA QueueDisown ==
  ASSUME CapacityTyped, Answers, NEW by \in Runs \cup {"switch"},
         childIn' = Disown(childIn, by), childOut' = Disown(childOut, by), KeptBut(by)
  PROVE  Answers'
<1>1. "nobody" \notin Runs \cup {"switch"}
  BY CapacityRecoveryAssumption
<1>2. /\ Len(childIn') = Len(childIn)
      /\ \A i \in 1..Len(childIn) :
           /\ childIn'[i].by = IF childIn[i].by = by THEN "nobody" ELSE childIn[i].by
           /\ childIn'[i].gen = childIn[i].gen
  BY DisownStarts DEF CapacityTyped, QueuesTyped
<1>3. /\ Len(childOut') = Len(childOut)
      /\ \A i \in 1..Len(childOut) :
           /\ childOut'[i].by = IF childOut[i].by = by THEN "nobody" ELSE childOut[i].by
           /\ childOut'[i].gen = childOut[i].gen
  BY DisownLines DEF CapacityTyped, QueuesTyped
<1>4. \A i \in 1..Len(childIn') : AwaitedNext(childIn'[i])
  BY <1>1, <1>2 DEF Answers, Awaited, AwaitedNext, KeptBut
<1>5. \A i \in 1..Len(childOut') : AwaitedNext(childOut'[i])
  BY <1>1, <1>3 DEF Answers, Awaited, AwaitedNext, KeptBut
<1>6. QED
  <2>1. \A i, j \in 1..Len(childIn') :
          ForOne(childIn'[i]) /\ childIn'[i].by = childIn'[j].by => i = j
    BY <1>1, <1>2 DEF Answers, ForOne
  <2>2. \A i, j \in 1..Len(childOut') :
          ForOne(childOut'[i]) /\ childOut'[i].by = childOut'[j].by => i = j
    BY <1>1, <1>3 DEF Answers, ForOne
  <2>3. \A i \in 1..Len(childIn'), j \in 1..Len(childOut') :
          ForOne(childIn'[i]) => childIn'[i].by # childOut'[j].by
    BY <1>1, <1>2, <1>3 DEF Answers, ForOne
  <2>4. QED
    BY <1>4, <1>5, <2>1, <2>2, <2>3 DEF Answers, ForOne, Awaited, AwaitedNext

(* The answer a call or the switch awaits is the one of its own generation. *)
LEMMA AnswersKept == CapacityInv /\ [CapacityNext]_capacityVars => Answers'
<1> SUFFICES ASSUME CapacityTyped, Answers, [CapacityNext]_capacityVars PROVE Answers'
  BY DEF CapacityInv
<1>0. /\ "user" \notin Runs /\ "switch" \notin Runs /\ "user" \in Senders /\ "switch" \in Senders
      /\ Runs \subseteq Senders
  BY CapacityRecoveryAssumption DEF Senders
<1>1. CASE UNCHANGED capacityVars
  BY <1>1, QueueRest DEF KeptBut, capacityVars, switchVars, workVars
<1>2. CASE UserStart
  <2>1. latestWork + 1 \in Works
    BY <1>2, CapacityRecoveryAssumption DEF UserStart, CapacityTyped, CountersTyped, Works
  <2>2. KeptBut("user") /\ SendStart("user", latestWork + 1) /\ childOut' = childOut
    BY <1>2 DEF UserStart, KeptBut, switchVars
  <2>3. QED
    BY <1>0, <2>1, <2>2, QueueSend
<1>3. CASE RecoveryTimer
  <2>1. PICK r \in Runs : run[r].at = "off" /\ \A q \in Runs : q # r => run'[q] = run[q]
    BY <1>3, RecoveryTimerEffect
  <2>2. QED
    BY <1>3, <2>1, QueueRest DEF KeptBut, RecoveryTimer, switchVars, workVars
<1>4. CASE SwitchAsked
  BY <1>4, CoveredEffect, QueueRest DEF KeptBut, SwitchAsked, workVars, RunPositions
<1>5. CASE SwitchGivenUp
  BY <1>5, CoveredEffect, QueueRest DEF KeptBut, SwitchGivenUp, workVars, RunPositions
<1>6. CASE SwitchDrains
  BY <1>6, QueueRest DEF KeptBut, SwitchDrains, workVars
<1>7. CASE SwitchContinues
  <2>1. UNCHANGED <<childOut, latestWork>> /\ switchAt \in {"login", "read"}
    BY <1>7 DEF SwitchContinues, workVars
  <2>2. CASE switchAt' = "continue" /\ SendStart("switch", latestWork) /\ UNCHANGED run
    <3>1. latestWork \in Works
      BY DEF CapacityTyped, CountersTyped
    <3>2. KeptBut("user")
      BY <2>1, <2>2 DEF KeptBut
    <3>3. QED
      BY <1>0, <2>1, <2>2, <3>1, <3>2, QueueSend
  <2>3. CASE UNCHANGED <<childIn, run>>
    BY <2>1, <2>3, QueueRest DEF KeptBut
  <2>4. CASE UNCHANGED childIn /\ Covered("covered", "switched")
    BY <2>1, <2>4, CoveredEffect, QueueRest DEF KeptBut, RunPositions
  <2>5. QED
    BY <1>7, <2>2, <2>3, <2>4 DEF SwitchContinues
<1>8. ASSUME NEW r \in Runs, RunStep(r)
      PROVE  Answers'
  <2>1. /\ run[r].at \in {"read", "manager", "covered", "switched"} /\ run[r].gen \in Works
        /\ UNCHANGED <<switchAt, latestWork, childOut>>
    BY <1>8 DEF RunStep, RunRead, RunAnswered, switchVars, CapacityTyped, EntryTyped
  <2>2. CASE EndRun(r) /\ UNCHANGED childIn
    BY <2>1, <2>2, EndRunEffect, QueueRest DEF KeptBut
  <2>3. CASE RunAt(r, "manager") /\ UNCHANGED childIn
    BY <2>1, <2>3, RunAtEffect, QueueRest DEF KeptBut, RunPositions
  <2>4. CASE RunAt(r, "start") /\ SendStart(r, run[r].gen)
    <3>1. run'[r].at = "start" /\ run'[r].gen = run[r].gen /\ \A q \in Runs : q # r => run'[q] = run[q]
      BY <2>4, RunAtEffect DEF RunPositions
    <3>2. KeptBut("user")
      BY <2>1, <3>1 DEF KeptBut
    <3>3. r \in Senders /\ r # "switch"
      BY <1>0
    <3>4. QED
      BY <2>1, <2>4, <3>1, <3>2, <3>3, QueueSend
  <2>5. QED
    BY <1>8, <2>2, <2>3, <2>4 DEF RunStep, RunRead, RunAnswered, SendContinue
<1>9. CASE ShimReads
  <2>1. PICK type : FirstLine(type)
    BY <1>9 DEF ShimReads, ReadAccepted, ReadRejected, ReadFailure, ReadEnd
  <2> DEFINE by == childOut[1].by
  <2>2. by \in Senders /\ Head(childOut) = childOut[1]
    BY <2>1, LineRead DEF Lines
  <2>3. UNCHANGED <<childIn, latestWork>>
    BY <1>9 DEF ShimReads, ReadAccepted, ReadRejected, ReadFailure, ReadEnd, workVars
  <2>4. Resumes(by) \/ UNCHANGED <<run, switchVars>>
    BY <1>9, <2>2 DEF ShimReads, ReadAccepted, ReadRejected, ReadFailure, ReadEnd
  <2> HIDE DEF by
  <2>5. KeptBut(by)
    <3>1. CASE Resumes(by)
      BY <2>2, <2>3, <3>1, ResumesEffect DEF KeptBut
    <3>2. CASE UNCHANGED <<run, switchVars>>
      BY <2>3, <3>2 DEF KeptBut, switchVars
    <3>3. QED
      BY <2>4, <3>1, <3>2
  <2>6. QED
    BY <2>1, <2>3, <2>5, QueueRead DEF by
<1>10. CASE ContinueTimesOut
  <2>1. PICK by \in Runs \cup {"switch"} :
          childIn' = Disown(childIn, by) /\ childOut' = Disown(childOut, by) /\ Resumes(by)
    BY <1>10, ContinueTimesOutEffect
  <2>2. latestWork' = latestWork
    BY <1>10 DEF ContinueTimesOut, workVars
  <2>3. by \in Senders
    BY DEF Senders
  <2>4. KeptBut(by)
    BY <2>1, <2>2, <2>3, ResumesEffect DEF KeptBut
  <2>5. QED
    BY <2>1, <2>4, QueueDisown
<1>11. QED
  BY <1>1, <1>2, <1>3, <1>4, <1>5, <1>6, <1>7, <1>8, <1>9, <1>10, QueueTake, QueueEnds
     DEF CapacityNext, SwitchStep

-----------------------------------------------------------------------------
(* The entry and its owner.                                                 *)

(* The entry stays what it is, and so do the calls but those that end.      *)
LEMMA LatestKept ==
  ASSUME CapacityTyped, EntryIsLatest, latestWork' = latestWork,
         capacity' # NoEntry =>
           capacity # NoEntry /\ capacity'.id = capacity.id /\ capacity'.gen = capacity.gen,
         \A r \in Runs :
           (run'[r].id = run[r].id /\ run'[r].gen = run[r].gen) \/ run'[r].id = 0
  PROVE  EntryIsLatest'
<1> SUFFICES ASSUME capacity' # NoEntry PROVE EntryIsLatest'
  BY DEF EntryIsLatest
<1>1. capacity \in EntriesMade /\ capacity.id # 0
  BY EntriesAreMade DEF CapacityTyped, EntryTyped, EntriesMade
<1>2. QED
  BY <1>1 DEF EntryIsLatest

(* A new entry is known by no call.                                         *)
LEMMA LatestRenewed ==
  ASSUME CapacityTyped, NEW gen, EntryRenewed(gen), latestWork' = latestWork,
         \A r \in Runs : run'[r].id = run[r].id \/ run'[r].id = 0
  PROVE  EntryIsLatest'
<1>1. \A r \in Runs : run[r].id \in 0..entries /\ entries \in Nat
  BY DEF CapacityTyped, EntryTyped
<1>2. \A r \in Runs : run'[r].id # entries + 1
  BY <1>1
<1>3. capacity'.id = entries + 1 /\ capacity'.gen = latestWork
  BY DEF EntryRenewed
<1>4. QED
  BY <1>2, <1>3 DEF EntryIsLatest

(* A failure leaves the entry of the latest work.                           *)
LEMMA LatestFailed ==
  ASSUME CapacityTyped, EntryIsLatest, NEW kind, NEW gen, NEW turn \in 0..MaxTurns,
         Failed(kind, gen, turn), latestWork' = latestWork,
         \A r \in Runs :
           (run'[r].id = run[r].id /\ run'[r].gen = run[r].gen) \/ run'[r].id = 0
  PROVE  EntryIsLatest'
<1>1. CASE EntryCleared
  BY <1>1 DEF EntryCleared, EntryIsLatest
<1>2. CASE EntryRenewed(gen)
  BY <1>2, LatestRenewed
<1>3. CASE EntryUntouched
  BY <1>3, LatestKept DEF EntryUntouched, entryVars
<1>4. CASE EntryAdopted
  <2>1. capacity # NoEntry /\ capacity \in EntriesMade
    BY <1>4, EntriesAreMade DEF EntryAdopted, CapacityTyped
  <2>2. capacity'.id = capacity.id /\ capacity'.gen = capacity.gen
    BY <1>4, <2>1 DEF EntryAdopted, EntriesMade
  <2>3. QED
    BY <2>1, <2>2, LatestKept
<1>5. QED
  BY <1>1, <1>2, <1>3, <1>4, FailedEffect

(* Whoever looks after the entry goes on doing so.                          *)
LEMMA OwnedKept ==
  ASSUME CapacityTyped, Owned,
         capacity' # NoEntry =>
           /\ capacity # NoEntry /\ capacity'.id = capacity.id
           /\ capacity'.state = capacity.state /\ capacity'.timer = capacity.timer
           /\ capacity.state = "claimedBySwitch" => switchAt' # "off" /\ claim' = claim
           /\ \A r \in Runs :
                run[r].id = capacity.id /\ (run[r].at = "start" <=> capacity.state = "running") =>
                  run'[r].id = run[r].id /\ (run'[r].at = "start" <=> run[r].at = "start")
  PROVE  Owned'
<1> SUFFICES ASSUME capacity' # NoEntry PROVE Owned'
  BY DEF Owned, WaitingOwned, ClaimedOwned, RunningOwned
<1>1. CASE capacity.state = "waiting"
  BY <1>1 DEF Owned, WaitingOwned, ClaimedOwned, RunningOwned
<1>2. CASE capacity.state = "claimedBySwitch"
  BY <1>2 DEF Owned, WaitingOwned, ClaimedOwned, RunningOwned
<1>3. CASE capacity.state = "running"
  BY <1>3 DEF Owned, WaitingOwned, ClaimedOwned, RunningOwned
<1>4. QED
  BY <1>1, <1>2, <1>3 DEF Owned, WaitingOwned, ClaimedOwned, RunningOwned

LEMMA LatestStep == CapacityInv /\ [CapacityNext]_capacityVars => EntryIsLatest'
<1> SUFFICES ASSUME CapacityTyped, EntryIsLatest, [CapacityNext]_capacityVars PROVE EntryIsLatest'
  BY DEF CapacityInv
<1>0. capacity # NoEntry => capacity \in EntriesMade
  BY EntriesAreMade DEF CapacityTyped
<1>1. CASE UNCHANGED capacityVars \/ ChildTakesStart \/ ChildEndsTurn
  BY <1>1, LatestKept DEF capacityVars, entryVars, workVars, ChildTakesStart, ChildEndsTurn
<1>2. CASE UserStart
  BY <1>2 DEF UserStart, ForceClear, EntryIsLatest
<1>3. CASE RecoveryTimer
  <2>1. PICK r \in Runs :
          /\ run'[r].id = capacity.id /\ run'[r].gen = capacity.gen
          /\ \A q \in Runs : q # r => run'[q] = run[q]
    BY <1>3, RecoveryTimerEffect
  <2>2. capacity # NoEntry /\ capacity'.id = capacity.id /\ capacity'.gen = capacity.gen
    BY <1>0, <1>3, RecoveryTimerEffect DEF EntriesMade
  <2>3. latestWork' = latestWork
    BY <1>3 DEF RecoveryTimer, workVars
  <2>4. QED
    BY <2>1, <2>2, <2>3 DEF EntryIsLatest
<1>4. CASE SwitchAsked \/ SwitchStep
  <2>1. latestWork' = latestWork
    BY <1>4 DEF SwitchAsked, SwitchStep, SwitchDrains, SwitchContinues, SwitchGivenUp, workVars
  <2>2. Covered("manager", "covered") \/ Covered("covered", "manager")
          \/ Covered("covered", "switched") \/ UNCHANGED run
    BY <1>4 DEF SwitchAsked, SwitchStep, SwitchDrains, SwitchContinues, SwitchGivenUp
  <2>3. \A r \in Runs : run'[r].id = run[r].id /\ run'[r].gen = run[r].gen
    BY <2>2, CoveredEffect DEF RunPositions
  <2>4. capacity' # NoEntry =>
          capacity # NoEntry /\ capacity'.id = capacity.id /\ capacity'.gen = capacity.gen
    <3>1. CASE capacity' \in {capacity, NoEntry}
      BY <3>1
    <3>2. CASE /\ capacity # NoEntry
               /\ \/ capacity' = [capacity EXCEPT !.state = "claimedBySwitch", !.timer = FALSE]
                  \/ capacity' = [capacity EXCEPT !.state = "waiting", !.timer = TRUE]
      BY <1>0, <3>2 DEF EntriesMade
    <3>3. QED
      BY <1>4, <3>1, <3>2
         DEF SwitchAsked, SwitchStep, SwitchDrains, SwitchContinues, SwitchGivenUp, entryVars, IsEntry
  <2>5. QED
    BY <2>1, <2>3, <2>4, LatestKept
<1>5. ASSUME NEW r \in Runs, RunStep(r)
      PROVE  EntryIsLatest'
  <2>1. latestWork' = latestWork
    BY <1>5 DEF RunStep, RunRead, RunAnswered
  <2>2. EndRun(r) \/ RunAt(r, "manager") \/ RunAt(r, "start")
    BY <1>5 DEF RunStep, RunRead, RunAnswered, SendContinue
  <2>3. \A q \in Runs : (run'[q].id = run[q].id /\ run'[q].gen = run[q].gen) \/ run'[q].id = 0
    BY <2>2, EndRunEffect, RunAtEffect DEF RunPositions
  <2>4. capacity' # NoEntry =>
          capacity # NoEntry /\ capacity'.id = capacity.id /\ capacity'.gen = capacity.gen
    BY <1>0, <1>5 DEF RunStep, RunRead, RunAnswered, SendContinue, ForceClear, IsWaiting, IsEntry,
       entryVars, EntriesMade
  <2>5. QED
    BY <2>1, <2>3, <2>4, LatestKept
<1>6. CASE ContinueTimesOut
  <2>1. PICK by \in Runs \cup {"switch"} : Resumes(by) /\ capacity' \in {capacity, NoEntry}
    BY <1>6, ContinueTimesOutEffect
  <2>2. by \in Senders /\ latestWork' = latestWork
    BY <1>6 DEF Senders, ContinueTimesOut, workVars
  <2>3. QED
    BY <2>1, <2>2, ResumesEffect, LatestKept
<1>7. CASE ShimReads
  <2> DEFINE m == Head(childOut)
  <2>1. m \in Lines
    BY <1>7, LineRead DEF ShimReads, ReadAccepted, ReadRejected, ReadFailure, ReadEnd
  <2>2. m.by \in Senders /\ latestWork' = latestWork /\ 0 \in 0..MaxTurns
        /\ m.turn \in 0..MaxTurns
    <3>1. m.by \in Senders /\ m.turn \in 0..MaxTurns
      BY <2>1 DEF Lines
    <3>2. latestWork' = latestWork
      BY <1>7 DEF ShimReads, ReadAccepted, ReadRejected, ReadFailure, ReadEnd, workVars
    <3>3. QED
      BY <3>1, <3>2, CapacityRecoveryAssumption
  <2>3. \A r \in Runs :
          (run'[r].id = run[r].id /\ run'[r].gen = run[r].gen) \/ run'[r].id = 0
    <3>1. Resumes(m.by) \/ UNCHANGED run
      BY <1>7 DEF ShimReads, ReadAccepted, ReadRejected, ReadFailure, ReadEnd
    <3>2. QED
      BY <2>2, <3>1, ResumesEffect
  <2>4. CASE capacity' \in {capacity, NoEntry}
    BY <2>2, <2>3, <2>4, LatestKept
  <2>5. \/ capacity' \in {capacity, NoEntry}
        \/ Failed(m.kind, m.gen, 0) \/ Failed(m.kind, GenerationOf(m.turn), m.turn)
    BY <1>7 DEF ShimReads, ReadAccepted, ReadRejected, ReadFailure, ReadEnd, ClearOfTurn, ForceClear,
       entryVars
  <2> HIDE DEF m
  <2>6. QED
    BY <2>2, <2>3, <2>4, <2>5, LatestFailed
<1>8. QED
  BY <1>1, <1>2, <1>3, <1>4, <1>5, <1>6, <1>7 DEF CapacityNext

(* A call that awaited something else than its Continue.                    *)
LEMMA OwnedSendContinue ==
  ASSUME CapacityTyped, Owned, NEW r \in Runs, run[r].at # "start", run[r].at # "off",
         SendContinue(r), switchAt' = switchAt
  PROVE  Owned'
<1>1. CASE IsWaiting(run[r].id)
  <2>1. capacity \in EntriesMade /\ capacity.id = run[r].id
    BY <1>1, EntriesAreMade DEF IsWaiting, IsEntry, CapacityTyped
  <2>2. capacity' = [capacity EXCEPT !.state = "running"] /\ RunAt(r, "start")
    BY <1>1 DEF SendContinue
  <2>3. capacity'.id = run[r].id /\ capacity'.state = "running"
    BY <2>1, <2>2 DEF EntriesMade
  <2>4. run'[r].id = run[r].id /\ run'[r].at = "start"
    BY <2>2, RunAtEffect DEF RunPositions
  <2>5. QED
    BY <2>3, <2>4 DEF Owned, WaitingOwned, ClaimedOwned, RunningOwned
<1>2. CASE ~IsWaiting(run[r].id)
  <2>1. EndRun(r) /\ UNCHANGED <<capacity, claim>>
    BY <1>2 DEF SendContinue
  <2>2. \A q \in Runs : q # r => run'[q] = run[q]
    BY <2>1, EndRunEffect
  <2>3. capacity # NoEntry /\ capacity.state = "waiting" => capacity.id # run[r].id
    BY <1>2 DEF IsWaiting, IsEntry
  <2>4. WaitingOwned'
    BY <2>1, <2>2, <2>3 DEF Owned, WaitingOwned
  <2>5. RunningOwned'
    BY <2>1, <2>2 DEF Owned, RunningOwned
  <2>6. ClaimedOwned'
    BY <2>1 DEF Owned, ClaimedOwned
  <2>7. QED
    BY <2>4, <2>5, <2>6 DEF Owned
<1>3. QED
  BY <1>1, <1>2

(* The end of what a call or the switch awaited: its entry, if it is still  *)
(* there, is dropped.                                                       *)
LEMMA OwnedResumes ==
  ASSUME CapacityTyped, Owned, NEW by \in Senders, Resumes(by), capacity' \in {capacity, NoEntry},
         by \in Runs => (IsEntry(run[by].id) => capacity' = NoEntry),
         by = "switch" => (IsEntry(claim.id) => capacity' = NoEntry),
         capacity' # NoEntry /\ by # "switch" => claim' = claim
  PROVE  Owned'
<1> SUFFICES ASSUME capacity' # NoEntry PROVE Owned'
  BY DEF Owned, WaitingOwned, ClaimedOwned, RunningOwned
<1>1. capacity # NoEntry /\ capacity' = capacity
  OBVIOUS
<1>2. \A r \in Runs : run[r].id = capacity.id =>
        run'[r].id = run[r].id /\ (run'[r].at = "start" <=> run[r].at = "start")
  <2> TAKE r \in Runs
  <2>1. CASE r = by
    BY <1>1, <2>1 DEF IsEntry
  <2>2. CASE r # by
    BY <2>2, ResumesEffect
  <2>3. QED
    BY <2>1, <2>2
<1>3. capacity.state = "claimedBySwitch" => switchAt' # "off" /\ claim' = claim
  <2>1. CASE by = "switch"
    BY <1>1, <2>1 DEF IsEntry, Owned, ClaimedOwned
  <2>2. CASE by # "switch"
    BY <1>1, <2>2, ResumesEffect DEF Owned, ClaimedOwned
  <2>3. QED
    BY <2>1, <2>2
<1>4. QED
  BY <1>1, <1>2, <1>3, OwnedKept

(* A failure is read: whatever becomes of the entry, it is looked after.    *)
LEMMA OwnedFailed ==
  ASSUME CapacityTyped, EntryIsLatest, Owned, NEW by \in Senders, NEW kind, NEW gen,
         NEW turn \in 0..MaxTurns, Failed(kind, gen, turn), Resumes(by),
         by \in Runs => run[by].at = "start" /\ run[by].gen = gen,
         by = "switch" => gen = latestWork
  PROVE  Owned'
<1>1. CASE EntryCleared
  BY <1>1 DEF EntryCleared, Owned, WaitingOwned, ClaimedOwned, RunningOwned
<1>2. CASE EntryRenewed(gen)
  BY <1>2 DEF EntryRenewed, Owned, WaitingOwned, ClaimedOwned, RunningOwned
<1>3. CASE EntryAdopted
  <2>1. capacity # NoEntry /\ capacity \in EntriesMade /\ capacity.state = "waiting"
    BY <1>3, EntriesAreMade DEF EntryAdopted, CapacityTyped
  <2>2. /\ capacity'.id = capacity.id /\ capacity'.state = capacity.state
        /\ capacity'.timer = capacity.timer
    BY <1>3, <2>1 DEF EntryAdopted, EntriesMade
  <2>3. \A r \in Runs : run[r].at # "start" =>
          run'[r].id = run[r].id /\ run'[r].at # "start"
    BY ResumesEffect
  <2>4. QED
    BY <2>1, <2>2, <2>3, OwnedKept
<1>4. CASE EntryUntouched /\ gen # latestWork
  <2>1. by # "switch" /\ capacity' = capacity /\ claim' = claim
    BY <1>4 DEF EntryUntouched, entryVars
  <2>2. by \in Runs => ~IsEntry(run[by].id)
    BY <1>4 DEF IsEntry, EntryIsLatest
  <2>3. QED
    BY <2>1, <2>2, OwnedResumes
<1>5. QED
  BY <1>1, <1>2, <1>3, <1>4, FailedEffect

LEMMA OwnedStep == CapacityInv /\ [CapacityNext]_capacityVars => Owned'
<1> SUFFICES ASSUME CapacityTyped, EntryIsLatest, Answers, Owned, [CapacityNext]_capacityVars
             PROVE  Owned'
  BY DEF CapacityInv
<1>0. capacity # NoEntry => capacity \in EntriesMade
  BY EntriesAreMade DEF CapacityTyped
<1>a. ASSUME ForceClear PROVE Owned'
  BY <1>a DEF ForceClear, Owned, WaitingOwned, ClaimedOwned, RunningOwned
<1>1. CASE UNCHANGED capacityVars \/ ChildTakesStart \/ ChildEndsTurn
  BY <1>1, OwnedKept DEF capacityVars, entryVars, switchVars, ChildTakesStart, ChildEndsTurn, Owned,
     ClaimedOwned
<1>2. CASE UserStart
  BY <1>2, <1>a DEF UserStart
<1>3. CASE RecoveryTimer
  <2>1. PICK r \in Runs :
          /\ run[r].at = "off" /\ run'[r].id = capacity.id /\ run'[r].at = "read"
          /\ \A q \in Runs : q # r => run'[q] = run[q]
    BY <1>3, RecoveryTimerEffect
  <2>2. capacity # NoEntry /\ capacity'.id = capacity.id /\ capacity'.state = capacity.state
    BY <1>0, <1>3, RecoveryTimerEffect DEF EntriesMade
  <2>3. UNCHANGED <<claim, switchAt>>
    BY <1>3 DEF RecoveryTimer, switchVars
  <2>4. WaitingOwned'
    BY <2>1, <2>2 DEF WaitingOwned
  <2>5. RunningOwned'
    BY <2>1, <2>2 DEF Owned, RunningOwned
  <2>6. QED
    BY <2>2, <2>3, <2>4, <2>5 DEF Owned, ClaimedOwned
<1>4. CASE SwitchAsked
  <2>1. \A r \in Runs : run'[r].id = run[r].id /\ (run'[r].at = "start" <=> run[r].at = "start")
    BY <1>4, CoveredEffect DEF SwitchAsked, RunPositions
  <2>2. CASE capacity # NoEntry /\ capacity.state = "waiting"
    <3>1. capacity'.id = capacity.id /\ capacity'.state = "claimedBySwitch"
      BY <1>0, <1>4, <2>2 DEF SwitchAsked, EntriesMade
    <3>2. switchAt' = "pending" /\ claim'.id = capacity.id
      BY <1>4, <2>2 DEF SwitchAsked
    <3>3. QED
      BY <3>1, <3>2 DEF Owned, WaitingOwned, ClaimedOwned, RunningOwned
  <2>3. CASE ~(capacity # NoEntry /\ capacity.state = "waiting")
    BY <1>4, <2>1, <2>3, OwnedKept DEF SwitchAsked, Owned, ClaimedOwned
  <2>4. QED
    BY <2>2, <2>3
<1>5. CASE SwitchGivenUp
  <2>1. \A r \in Runs : run'[r].id = run[r].id /\ (run'[r].at = "start" <=> run[r].at = "start")
    BY <1>5, CoveredEffect DEF SwitchGivenUp, RunPositions
  <2>2. CASE IsEntry(claim.id) /\ capacity.state = "claimedBySwitch"
    <3>1. capacity'.state = "waiting" /\ capacity'.timer
      BY <1>0, <1>5, <2>2 DEF SwitchGivenUp, IsEntry, EntriesMade
    <3>2. QED
      BY <3>1 DEF Owned, WaitingOwned, ClaimedOwned, RunningOwned
  <2>3. CASE ~(IsEntry(claim.id) /\ capacity.state = "claimedBySwitch")
    <3>1. capacity' = capacity
      BY <1>5, <2>3 DEF SwitchGivenUp
    <3>2. capacity # NoEntry => capacity.state # "claimedBySwitch"
      BY <2>3 DEF IsEntry, Owned, ClaimedOwned
    <3>3. QED
      BY <2>1, <3>1, <3>2, OwnedKept
  <2>4. QED
    BY <2>2, <2>3
<1>6. CASE SwitchDrains
  BY <1>6, OwnedKept DEF SwitchDrains, entryVars
<1>7. CASE SwitchContinues
  <2>1. CASE switchAt' # "off" /\ UNCHANGED <<entryVars, run>>
    BY <2>1, OwnedKept DEF entryVars
  <2>2. CASE /\ switchAt' = "off" /\ Covered("covered", "switched")
             /\ capacity' = IF IsEntry(claim.id) THEN NoEntry ELSE capacity
    <3>1. \A r \in Runs : run'[r].id = run[r].id /\ (run'[r].at = "start" <=> run[r].at = "start")
      BY <2>2, CoveredEffect DEF RunPositions
    <3>2. capacity' # NoEntry => capacity # NoEntry /\ capacity' = capacity /\ ~IsEntry(claim.id)
      BY <2>2
    <3>3. capacity' # NoEntry => capacity.state # "claimedBySwitch"
      BY <3>2 DEF IsEntry, Owned, ClaimedOwned
    <3>4. QED
      BY <3>1, <3>2, <3>3, OwnedKept
  <2>3. QED
    BY <1>7, <2>1, <2>2 DEF SwitchContinues
<1>8. ASSUME NEW r \in Runs, RunStep(r)
      PROVE  Owned'
  <2>1. run[r].at \in {"read", "manager", "covered", "switched"} /\ switchAt' = switchAt
    BY <1>8 DEF RunStep, RunRead, RunAnswered, switchVars
  <2>2. CASE SendContinue(r)
    BY <2>1, <2>2, OwnedSendContinue
  <2>3. CASE RunAt(r, "manager") /\ UNCHANGED entryVars
    <3>1. \A q \in Runs : run'[q].id = run[q].id /\ (run'[q].at = "start" <=> run[q].at = "start")
      BY <2>1, <2>3, RunAtEffect DEF RunPositions
    <3>2. QED
      BY <2>1, <2>3, <3>1, OwnedKept DEF entryVars, Owned, ClaimedOwned
  <2>4. CASE UNCHANGED entryVars /\ ~IsEntry(run[r].id) /\ EndRun(r)
    BY <2>1, <2>4, EndRunEffect, OwnedKept DEF entryVars, IsEntry, Owned, ClaimedOwned
  <2>5. QED
    BY <1>8, <1>a, <2>2, <2>3, <2>4 DEF RunStep, RunRead, RunAnswered
<1>9. CASE ContinueTimesOut
  <2>1. PICK by \in Runs \cup {"switch"} :
          /\ by \in Runs => capacity' = IF IsEntry(run[by].id) THEN NoEntry ELSE capacity
          /\ by = "switch" => capacity' = IF IsEntry(claim.id) THEN NoEntry ELSE capacity
          /\ claim' = IF by = "switch" THEN NoClaim ELSE claim
          /\ Resumes(by)
    BY <1>9, ContinueTimesOutEffect
  <2>2. by \in Senders
    BY DEF Senders
  <2>3. QED
    BY <2>1, <2>2, OwnedResumes
<1>10. CASE ReadFailure \/ ReadEnd
  <2> DEFINE m == Head(childOut)
  <2>1. m.turn \in 0..MaxTurns
    BY <1>10, LineRead DEF ReadFailure, ReadEnd, Turns
  <2>2. UNCHANGED <<run, switchVars>> /\ "user" \in Senders /\ "user" \notin Runs
    BY <1>10, CapacityRecoveryAssumption DEF ReadFailure, ReadEnd, Senders
  <2>3. Resumes("user")
    BY <2>2 DEF Resumes
  <2>4. CASE UNCHANGED entryVars
    BY <2>2, <2>4, OwnedKept DEF entryVars, switchVars, Owned, ClaimedOwned
  <2> HIDE DEF m
  <2>5. CASE Failed(m.kind, GenerationOf(m.turn), m.turn)
    BY <2>1, <2>2, <2>3, <2>5, OwnedFailed
  <2>6. QED
    BY <1>10, <1>a, <2>4, <2>5 DEF m, ReadFailure, ReadEnd, ClearOfTurn
<1>11. CASE ReadAccepted
  <2> DEFINE m == Head(childOut)
  <2>1. m.by \in Senders /\ Resumes(m.by)
    BY <1>11, LineRead DEF ReadAccepted, Lines
  <2>2. m.by \in Runs => m.by # "switch"
    BY CapacityRecoveryAssumption
  <2>3. /\ capacity' \in {capacity, NoEntry}
        /\ m.by \in Runs => (IsEntry(run[m.by].id) => capacity' = NoEntry)
        /\ m.by = "switch" => (IsEntry(claim.id) => capacity' = NoEntry)
        /\ capacity' # NoEntry /\ m.by # "switch" => claim' = claim
    BY <1>11, <2>2 DEF ReadAccepted, ForceClear, entryVars
  <2> HIDE DEF m
  <2>4. QED
    BY <2>1, <2>3, OwnedResumes
<1>12. CASE ReadRejected
  <2> DEFINE m == Head(childOut)
  <2>1. m.by \in Senders /\ Resumes(m.by) /\ 0 \in 0..MaxTurns /\ m = childOut[1]
        /\ 1 \in 1..Len(childOut)
    BY <1>12, LineRead, CapacityRecoveryAssumption DEF ReadRejected, Lines
  <2>2. Awaited(m)
    BY <2>1 DEF Answers
  <2> HIDE DEF m
  <2>3. CASE UNCHANGED entryVars /\ m.by \in {"user", "nobody"}
    <3>1. m.by \notin Runs /\ m.by # "switch"
      BY <2>3, CapacityRecoveryAssumption
    <3>2. QED
      BY <2>1, <2>3, <3>1, OwnedResumes DEF entryVars
  <2>4. CASE Failed(m.kind, m.gen, 0)
    BY <2>1, <2>2, <2>4, OwnedFailed DEF Awaited
  <2>5. QED
    BY <1>12, <2>3, <2>4 DEF m, ReadRejected
<1>13. QED
  BY <1>1, <1>2, <1>3, <1>4, <1>5, <1>6, <1>7, <1>8, <1>9, <1>10, <1>11, <1>12
     DEF CapacityNext, SwitchStep, ShimReads

-----------------------------------------------------------------------------
(* The theorems.                                                            *)

(* The table of entries is well formed, every entry is of the thread's      *)
(* latest work, every start and answer is one that is awaited, and every    *)
(* entry has an owner.                                                      *)
THEOREM CapacityIsOrderly == CapacitySpec => []CapacityInv
<1>1. CapacityInit => CapacityInv
  <2> SUFFICES ASSUME CapacityInit PROVE CapacityInv
    OBVIOUS
  <2>1. CapacityTyped
    BY CapacityInitTypes
  <2>2. EntryIsLatest /\ Owned
    BY DEF CapacityInit, EntryIsLatest, Owned, WaitingOwned, ClaimedOwned, RunningOwned
  <2>3. Answers
    BY DEF CapacityInit, Answers
  <2>4. QED
    BY <2>1, <2>2, <2>3 DEF CapacityInv
<1>2. CapacityInv /\ [CapacityNext]_capacityVars => CapacityInv'
  BY CapacityTypes, AnswersKept, LatestStep, OwnedStep DEF CapacityInv
<1>3. QED
  BY <1>1, <1>2, PTL DEF CapacitySpec

(* Every field has its type.                                                *)
THEOREM CapacityTypeCorrect == CapacitySpec => []CapacityTypeOK
<1>1. CapacityInv => CapacityTypeOK
  BY EntriesAreMade DEF CapacityInv, CapacityTyped, EntryTyped, CountersTyped, EntriesMade, EntryStates,
     Works, Turns, CapacityTypeOK
<1>2. QED
  BY <1>1, CapacityIsOrderly, PTL

(* Somebody looks after every entry, however timers, calls, switch requests *)
(* and answers come together: no thread is left stopped for good by an entry *)
(* that neither timer, call nor request knows of.                           *)
THEOREM EntryIsLookedAfter == CapacitySpec => []EntryHasOwner
<1>1. CapacityInv => EntryHasOwner
  <2> SUFFICES ASSUME CapacityInv, capacity # NoEntry PROVE EntryHasOwner
    BY DEF EntryHasOwner
  <2>1. capacity.state \in EntryStates
    BY EntriesAreMade DEF CapacityInv, CapacityTyped, EntriesMade
  <2>2. CASE capacity.state = "waiting"
    BY <2>2 DEF EntryHasOwner, CapacityInv, Owned, WaitingOwned
  <2>3. CASE capacity.state = "claimedBySwitch"
    BY <2>3 DEF EntryHasOwner, CapacityInv, Owned, ClaimedOwned
  <2>4. CASE capacity.state = "running"
    BY <2>4 DEF EntryHasOwner, CapacityInv, Owned, RunningOwned
  <2>5. QED
    BY <2>1, <2>2, <2>3, <2>4 DEF EntryStates
<1>2. QED
  BY <1>1, CapacityIsOrderly, PTL

-----------------------------------------------------------------------------
(* The Continues.  OwedInv says, as long as no answer to a Continue has     *)
(* come too late, how the work under way follows on one another, and that   *)
(* an entry from which a Continue may be sent is owed one.                  *)
Answer(l) == l.type \in {"yes", "no"}
Ending(l) == l.type \in {"error", "ended"}
Unread(t) == turnWork[t] = 0 /\ t \notin reported /\ t \notin endedTurns

(* Work is numbered, and is asked for by somebody who awaits it.            *)
Numbered ==
  /\ \A i \in 1..Len(childIn) : childIn[i].by # "nobody" /\ childIn[i].gen \in 1..latestWork
  /\ \A i \in 1..Len(childOut) :
       Answer(childOut[i]) => childOut[i].by # "nobody" /\ childOut[i].gen \in 1..latestWork
  /\ \A t \in Turns : turnWork[t] <= latestWork

(* Whoever awaits an answer has a start or an answer under way.             *)
InFlight(by) ==
  \/ \E i \in 1..Len(childIn) : childIn[i].by = by
  \/ \E i \in 1..Len(childOut) : Answer(childOut[i]) /\ childOut[i].by = by
Waited ==
  /\ \A r \in Runs : run[r].at = "start" => InFlight(r)
  /\ switchAt = "continue" => InFlight("switch")
  /\ userStart => InFlight("user")

(* The lines of a turn are an acceptance, perhaps an error, and its end.    *)
Follows(l, m) ==
  l.type # "no" /\ m.type # "no" =>
    /\ l.turn <= m.turn
    /\ m.type = "yes" \/ l.type = "ended" \/ (Ending(l) /\ m.type = "error") => l.turn < m.turn
Accepted(t, n) == turnWork[t] # 0 \/ \E j \in 1..n : childOut[j].type = "yes" /\ childOut[j].turn = t
LineFits(l) ==
  /\ l.type # "no" => l.turn \in 1..turnsSoFar
  /\ l.type = "yes" => \A t \in Turns : t >= l.turn => Unread(t)
  /\ l.type = "error" => l.turn \notin reported
  /\ childTurn # 0 /\ l.type # "no" => l.turn <= childTurn /\ (Ending(l) => l.turn # childTurn)
EndFollows(i) ==
  /\ i + 1 \in 1..Len(childOut) /\ childOut[i + 1].type = "ended"
  /\ childOut[i + 1].turn = childOut[i].turn /\ childOut[i + 1].kind = childOut[i].kind
TurnFits ==
  /\ \A t \in Turns : t > turnsSoFar => Unread(t)
  /\ childTurn # 0 =>
       childTurn \in 1..turnsSoFar /\ childTurn \notin reported /\ Accepted(childTurn, Len(childOut))
LinesFit ==
  \A i \in 1..Len(childOut) :
    /\ LineFits(childOut[i])
    /\ Ending(childOut[i]) => Accepted(childOut[i].turn, i - 1)
    /\ childOut[i].type = "error" => EndFollows(i)
LinesFollow == \A i, j \in 1..Len(childOut) : i < j => Follows(childOut[i], childOut[j])
TurnsInOrder == TurnFits /\ LinesFit /\ LinesFollow

(* Behind the latest work nothing is under way but the lines of its turn.   *)
Newest(gen) == gen = latestWork
AnswerIsLast(i) ==
  /\ childIn = <<>>
  /\ \A j \in 1..Len(childOut) : j > i =>
       childOut[i].type = "yes" /\ Ending(childOut[j]) /\ childOut[j].turn = childOut[i].turn
  /\ childTurn = 0 \/ (childOut[i].type = "yes" /\ childTurn = childOut[i].turn)
EndingIsLast(i) ==
  /\ childIn = <<>> /\ childTurn = 0 /\ activeTurn = childOut[i].turn
  /\ \A j \in 1..Len(childOut) : j > i => childOut[j].type = "ended" /\ childOut[j].turn = childOut[i].turn
StartsLast == \A i \in 1..Len(childIn) : Newest(childIn[i].gen) => i = Len(childIn)
AnswersLast == \A i \in 1..Len(childOut) : Answer(childOut[i]) /\ Newest(childOut[i].gen) => AnswerIsLast(i)
EndingsLast ==
  \A i \in 1..Len(childOut) : Ending(childOut[i]) /\ Newest(turnWork[childOut[i].turn]) => EndingIsLast(i)
TurnLast ==
  childTurn # 0 /\ Newest(turnWork[childTurn]) => childIn = <<>> /\ childOut = <<>> /\ activeTurn = childTurn
LatestIsLast == StartsLast /\ AnswersLast /\ EndingsLast /\ TurnLast

(* Nothing is under way for an entry that waits, or that a switch has       *)
(* claimed and not continued, but perhaps the end of the turn that failed.  *)
Stopped ==
  /\ capacity # NoEntry
  /\ capacity.state = "waiting" \/ (capacity.state = "claimedBySwitch" /\ switchAt # "continue")
EndToCome ==
  /\ Len(childOut) = 1 /\ childOut[1].type = "ended"
  /\ childOut[1].turn = capacity.src /\ activeTurn = capacity.src
  /\ switchAt \in {"off", "pending"} \/ claim = NoClaim
  /\ \A r \in Runs : run[r].id # capacity.id
StoppedRests == Stopped => childIn = <<>> /\ childTurn = 0 /\ (childOut = <<>> \/ EndToCome)

(* The second report of a failure finds the entry of the first.             *)
SecondReport ==
  \A i \in 1..Len(childOut) :
    /\ childOut[i].type = "ended" /\ childOut[i].kind = "capacity"
    /\ childOut[i].turn \in reported /\ Newest(turnWork[childOut[i].turn])
    => subagent \/ Stopped

(* Claims, and the calls that a switch covers.                              *)
ClaimFits ==
  /\ claim # NoClaim => IsEntry(claim.id) /\ capacity.state = "claimedBySwitch"
  /\ switchAt \in {"login", "read"} /\ claim # NoClaim => activeTurn = 0
  /\ switchAt = "read" /\ ~subagent => claim # NoClaim
CallsFit ==
  \A r \in Runs :
    /\ run[r].at \in {"manager", "covered", "switched"} => ~subagent
    /\ run[r].at = "covered" /\ IsEntry(run[r].id) => capacity.state # "waiting"
    /\ run[r].at = "switched" /\ IsEntry(run[r].id) => capacity.state = "running"

StoppedIsOwed == Stopped /\ ~subagent => owed
EntryNumbered == capacity # NoEntry => latestWork # 0
WorkInOrder == Numbered /\ Waited /\ TurnsInOrder /\ LatestIsLast
EntryInOrder ==
  StoppedRests /\ SecondReport /\ ClaimFits /\ CallsFit /\ StoppedIsOwed /\ EntryNumbered
OwedInv == ~continueLost => WorkInOrder /\ EntryInOrder

-----------------------------------------------------------------------------
(* What the shim notes of the line l it reads.                              *)
Notes(l) ==
  /\ UNCHANGED <<childIn, childTurn, turnsSoFar, latestWork, subagent>>
  /\ \A t \in Turns : turnWork'[t] = IF l.type = "yes" /\ t = l.turn THEN l.gen ELSE turnWork[t]
  /\ \A t : t \in reported' => t \in reported \/ (Ending(l) /\ t = l.turn)
  /\ \A t : t \in endedTurns' => t \in endedTurns \/ (Ending(l) /\ t = l.turn)

LEMMA ReadNotes ==
  ASSUME CapacityTyped, Numbered, ShimReads
  PROVE  FirstLine(childOut[1].type) /\ Notes(childOut[1])
<1> DEFINE l == childOut[1]
<1>1. ASSUME NEW type, FirstLine(type)
      PROVE  l = Head(childOut) /\ l.type = type /\ l \in Lines /\ 1 \in 1..Len(childOut) /\ (type # "no" => l.turn \in Turns)
  BY <1>1, LineRead
<1>2. CASE ReadAccepted
  <2>1. l = Head(childOut) /\ l.type = "yes" /\ l \in Lines /\ 1 \in 1..Len(childOut) /\ l.turn \in Turns
    BY <1>1, <1>2 DEF ReadAccepted
  <2>2. l.by # "nobody"
    BY <2>1 DEF Numbered, Answer
  <2>3. turnWork' = [turnWork EXCEPT ![l.turn] = l.gen]
    BY <1>2, <2>1, <2>2 DEF ReadAccepted
  <2>4. \A t \in Turns : turnWork'[t] = IF t = l.turn THEN l.gen ELSE turnWork[t]
    BY <2>3 DEF CapacityTyped, CountersTyped
  <2>5. UNCHANGED <<childIn, childTurn, turnsSoFar, latestWork, subagent, reported, endedTurns>> /\ FirstLine("yes")
    BY <1>2 DEF ReadAccepted, childVars
  <2> QED
    BY <2>1, <2>4, <2>5 DEF Notes
<1>3. CASE ReadRejected
  <2>1. FirstLine("no") /\ UNCHANGED <<childIn, childTurn, turnsSoFar, latestWork, subagent, endedTurns, turnWork>>
    BY <1>3 DEF ReadRejected, childVars, workVars
  <2>2. reported' = reported
    BY <1>3 DEF ReadRejected, Failed
  <2>3. l.type = "no"
    BY <1>1, <2>1
  <2> QED
    BY <2>1, <2>2, <2>3 DEF Notes
<1>4. CASE ReadFailure
  <2>1. FirstLine("error") /\ UNCHANGED <<childIn, childTurn, turnsSoFar, latestWork, subagent, endedTurns, turnWork>>
    BY <1>4 DEF ReadFailure, childVars, workVars, turnVars
  <2>2. l.type = "error" /\ l = Head(childOut)
    BY <1>1, <2>1
  <2>3. reported' = reported \/ reported' = reported \cup {l.turn}
    BY <1>4, <2>2 DEF ReadFailure, Failed
  <2> QED
    BY <2>1, <2>2, <2>3 DEF Notes, Ending
<1>5. CASE ReadEnd
  <2>1. FirstLine("ended") /\ UNCHANGED <<childIn, childTurn, turnsSoFar, latestWork, subagent, turnWork>>
    BY <1>5 DEF ReadEnd, childVars, workVars
  <2>2. l.type = "ended" /\ l = Head(childOut)
    BY <1>1, <2>1
  <2>3. (reported' = reported \/ reported' = reported \cup {l.turn}) /\ endedTurns' = endedTurns \cup {l.turn}
    BY <1>5, <2>2 DEF ReadEnd, Failed
  <2> QED
    BY <2>1, <2>2, <2>3 DEF Notes, Ending
<1> QED
  BY <1>2, <1>3, <1>4, <1>5 DEF ShimReads

(* The lines behind the one that is read.                                   *)
LEMMA Shift ==
  ASSUME CapacityTyped, FirstLine(childOut[1].type)
  PROVE  /\ 1 \in 1..Len(childOut) /\ childOut[1] \in Lines /\ Len(childOut') = Len(childOut) - 1 /\ Len(childOut) \in Nat
         /\ \A i \in 1..Len(childOut') : /\ childOut'[i] = childOut[i + 1] /\ i + 1 \in 2..Len(childOut)
                                         /\ childOut'[i] \in Lines
         /\ childOut[1].type # "no" => childOut[1].turn \in Turns
         /\ \A i \in 1..Len(childOut) : childOut[i] \in Lines /\ (childOut[i].type # "no" => childOut[i].turn \in Turns)
<1>1. /\ childOut # <<>> /\ Len(childOut) >= 1 /\ Len(childOut') = Len(childOut) - 1
      /\ \A i \in 1..Len(childOut') : childOut'[i] = childOut[i + 1] /\ i + 1 \in 1..Len(childOut)
      /\ childOut' \in Seq(Lines) /\ childOut \in Seq(Lines)
  BY LineRead DEF CapacityTyped, QueuesTyped
<1>2. \A i \in 1..Len(childOut) : childOut[i] \in Lines
  BY <1>1
<1>3. \A i \in 1..Len(childOut) : childOut[i].type # "no" => childOut[i].turn \in Turns
  BY <1>2, CapacityRecoveryAssumption DEF CapacityTyped, QueuesTyped, Lines, Turns
<1>4. 1 \in 1..Len(childOut) /\ Len(childOut) \in Nat
  BY <1>1
<1> QED
  BY <1>1, <1>2, <1>3, <1>4

LEMMA NumberedRead ==
  ASSUME CapacityTyped, Numbered, FirstLine(childOut[1].type), Notes(childOut[1])
  PROVE  Numbered'
<1>1. \A i \in 1..Len(childOut') : childOut'[i] = childOut[i + 1] /\ i + 1 \in 1..Len(childOut)
  BY Shift
<1>2. latestWork \in Nat /\ latestWork' = latestWork /\ childIn' = childIn
  BY CapacityRecoveryAssumption DEF Notes, CapacityTyped, CountersTyped, Works
<1>3. \A i \in 1..Len(childOut') :
        Answer(childOut'[i]) => childOut'[i].by # "nobody" /\ childOut'[i].gen \in 1..latestWork
  BY <1>1 DEF Numbered
<1>4. ASSUME NEW t \in Turns PROVE turnWork'[t] <= latestWork
  <2>1. CASE childOut[1].type = "yes" /\ t = childOut[1].turn
    <3>1. childOut[1].gen \in 1..latestWork
      BY <2>1, Shift DEF Numbered, Answer
    <3> QED
      BY <1>2, <2>1, <3>1 DEF Notes
  <2>2. CASE ~(childOut[1].type = "yes" /\ t = childOut[1].turn)
    BY <2>2 DEF Notes, Numbered
  <2> QED
    BY <2>1, <2>2
<1> QED
  BY <1>2, <1>3, <1>4 DEF Numbered

LEMMA AcceptedRead ==
  ASSUME CapacityTyped, Numbered, FirstLine(childOut[1].type), Notes(childOut[1]),
         NEW t \in Turns, NEW n \in 0..Len(childOut), Accepted(t, n)
  PROVE  Accepted(t, n - 1)'
<1>1. \A i \in 1..Len(childOut') : childOut'[i] = childOut[i + 1]
  BY Shift
<1>2. Len(childOut') = Len(childOut) - 1 /\ Len(childOut) \in Nat /\ 1 \in 1..Len(childOut)
  BY Shift
<1>3. ASSUME childOut[1].type = "yes", childOut[1].turn = t PROVE turnWork'[t] # 0
  <2>1. childOut[1].gen \in 1..latestWork
    BY <1>2, <1>3 DEF Numbered, Answer
  <2>2. latestWork \in Nat
    BY CapacityRecoveryAssumption DEF CapacityTyped, CountersTyped, Works
  <2>3. turnWork'[t] = childOut[1].gen
    BY <1>3 DEF Notes
  <2> QED
    BY <2>1, <2>2, <2>3
<1>4. ASSUME turnWork[t] # 0 PROVE turnWork'[t] # 0
  BY <1>3, <1>4 DEF Notes
<1>5. ASSUME NEW j \in 1..n, childOut[j].type = "yes", childOut[j].turn = t, j # 1
      PROVE  Accepted(t, n - 1)'
  <2>1. j - 1 \in 1..n - 1 /\ j - 1 \in 1..Len(childOut') /\ j - 1 + 1 = j
    BY <1>2, <1>5
  <2>2. childOut'[j - 1] = childOut[j]
    BY <1>1, <2>1
  <2> QED
    BY <1>5, <2>1, <2>2 DEF Accepted
<1>6. CASE turnWork[t] # 0
  BY <1>4, <1>6 DEF Accepted
<1>7. CASE \E j \in 1..n : childOut[j].type = "yes" /\ childOut[j].turn = t
  <2>1. PICK j \in 1..n : childOut[j].type = "yes" /\ childOut[j].turn = t
    BY <1>7
  <2>2. CASE j = 1
    BY <1>3, <2>1, <2>2 DEF Accepted
  <2>3. CASE j # 1
    BY <1>5, <2>1, <2>3
  <2> QED
    BY <2>2, <2>3
<1> QED
  BY <1>6, <1>7 DEF Accepted

(* A turn of which nothing is read stays what it is.                        *)
LEMMA UnreadRead ==
  ASSUME CapacityTyped, Notes(childOut[1]), NEW t \in Turns, Unread(t),
         childOut[1].type # "no" => childOut[1].turn # t, childOut[1] \in Lines
  PROVE  Unread(t)'
<1>1. turnWork'[t] = 0
  BY DEF Notes, Unread
<1>2. t \notin reported' /\ t \notin endedTurns'
  BY DEF Notes, Unread, Ending
<1> QED
  BY <1>1, <1>2 DEF Unread

LEMMA TurnsInOrderRead ==
  ASSUME CapacityTyped, Numbered, TurnsInOrder, FirstLine(childOut[1].type), Notes(childOut[1])
  PROVE  TurnsInOrder'
<1> DEFINE l == childOut[1]
<1>1. /\ 1 \in 1..Len(childOut) /\ l \in Lines /\ Len(childOut') = Len(childOut) - 1 /\ Len(childOut) \in Nat
      /\ l.type # "no" => l.turn \in Turns
  BY Shift
<1>2. \A i \in 1..Len(childOut') : /\ childOut'[i] = childOut[i + 1] /\ i + 1 \in 2..Len(childOut)
                                   /\ childOut'[i] \in Lines
  BY Shift
<1>3. \A i \in 1..Len(childOut) : childOut[i].type # "no" => childOut[i].turn \in Turns
  BY Shift
<1>4. LineFits(l) /\ TurnFits /\ LinesFit /\ LinesFollow
  BY <1>1 DEF TurnsInOrder, LinesFit
<1>5. turnsSoFar' = turnsSoFar /\ childTurn' = childTurn /\ turnsSoFar \in Nat /\ Turns \subseteq Nat
  BY CapacityRecoveryAssumption DEF Notes, CapacityTyped, CountersTyped, Turns
<1> HIDE DEF l
<1>6. TurnFits'
  <2>1. ASSUME NEW t \in Turns, t > turnsSoFar PROVE Unread(t)'
    <3>1. Unread(t)
      BY <1>4, <2>1 DEF TurnFits
    <3>2. l.type # "no" => l.turn # t
      BY <1>4, <1>5, <2>1 DEF LineFits
    <3> QED
      BY <1>1, <3>1, <3>2, UnreadRead DEF l
  <2>2. ASSUME childTurn # 0
        PROVE  childTurn \in 1..turnsSoFar /\ childTurn \notin reported' /\ Accepted(childTurn, Len(childOut))'
    <3>1. childTurn \in 1..turnsSoFar /\ childTurn \notin reported /\ Accepted(childTurn, Len(childOut))
      BY <1>4, <2>2 DEF TurnFits
    <3>2. Ending(l) => l.turn # childTurn
      BY <1>4, <2>2 DEF LineFits, Ending
    <3>3. childTurn \notin reported'
      BY <3>1, <3>2 DEF Notes, l
    <3>4. PICK n \in Nat : n = Len(childOut)
      BY <1>1
    <3>5. PICK t \in Turns : t = childTurn
      BY <2>2 DEF CapacityTyped, CountersTyped, Turns
    <3>6. Accepted(t, n - 1)'
      <4>1. Accepted(t, n)
        BY <3>1, <3>4, <3>5
      <4>2. n \in 0..Len(childOut)
        BY <3>4
      <4> QED
        BY <4>1, <4>2, <1>1, AcceptedRead DEF FirstLine
    <3>7. n - 1 = Len(childOut') /\ t = childTurn'
      BY <1>1, <1>5, <3>4, <3>5
    <3>8. Accepted(childTurn, Len(childOut))'
      BY <3>6, <3>7 DEF Accepted
    <3> QED
      BY <3>1, <3>3, <3>8
  <2> QED
    BY <1>5, <2>1, <2>2 DEF TurnFits
<1>7. ASSUME NEW i \in 1..Len(childOut')
      PROVE  /\ LineFits(childOut[i])' /\ (Ending(childOut'[i]) => Accepted(childOut[i].turn, i - 1)')
             /\ childOut'[i].type = "error" => EndFollows(i)'
  <2>1. PICK m \in Lines : m = childOut[i + 1]
    BY <1>2
  <2>2. childOut'[i] = m /\ i + 1 \in 1..Len(childOut) /\ i \in Nat /\ 1 < i + 1 /\ (m.type # "no" => m.turn \in Turns)
    BY <1>1, <1>2, <1>3, <2>1
  <2>3. Follows(l, m) /\ LineFits(m)
    BY <1>1, <1>4, <2>1, <2>2 DEF LinesFollow, LinesFit, l
  <2>4. m.type = "yes" => \A t \in Turns : t >= m.turn => Unread(t)'
    <3> SUFFICES ASSUME m.type = "yes", NEW t \in Turns, t >= m.turn PROVE Unread(t)'
      OBVIOUS
    <3>1. Unread(t)
      BY <2>3 DEF LineFits
    <3>2. l.type # "no" => l.turn < m.turn
      BY <2>3 DEF Follows
    <3>3. m.turn \in Nat /\ t \in Nat /\ (l.type # "no" => l.turn \in Nat)
      BY <1>1, <1>5, <2>2
    <3>4. l.type # "no" => l.turn # t
      BY <3>2, <3>3
    <3> QED
      BY <1>1, <3>1, <3>4, UnreadRead DEF l
  <2>5. m.type = "error" => m.turn \notin reported'
    <3> SUFFICES ASSUME m.type = "error" PROVE m.turn \notin reported'
      OBVIOUS
    <3>1. m.turn \notin reported
      BY <2>3 DEF LineFits
    <3>2. Ending(l) => l.turn < m.turn
      BY <2>3 DEF Follows, Ending
    <3>3. m.turn \in Nat /\ (Ending(l) => l.turn \in Nat)
      BY <1>1, <1>5, <2>2 DEF Ending
    <3>4. Ending(l) => l.turn # m.turn
      BY <3>2, <3>3
    <3> QED
      BY <3>1, <3>4 DEF Notes, l
  <2>6. LineFits(m)'
    BY <1>5, <2>3, <2>4, <2>5 DEF LineFits
  <2>7. Ending(m) => Accepted(m.turn, i - 1)'
    <3> SUFFICES ASSUME Ending(m) PROVE Accepted(m.turn, i - 1)'
      OBVIOUS
    <3>1. Accepted(m.turn, i + 1 - 1)
      BY <1>4, <2>1, <2>2 DEF LinesFit
    <3>2. i + 1 - 1 = i /\ i \in 0..Len(childOut) /\ m.turn \in Turns
      BY <1>1, <2>2 DEF Ending
    <3> QED
      BY <1>1, <3>1, <3>2, AcceptedRead DEF FirstLine
  <2>8. m.type = "error" => EndFollows(i)'
    <3> SUFFICES ASSUME m.type = "error" PROVE EndFollows(i)'
      OBVIOUS
    <3>1. EndFollows(i + 1)
      BY <1>4, <2>1, <2>2 DEF LinesFit
    <3>2. i + 1 \in 1..Len(childOut')
      BY <1>1, <2>2, <3>1 DEF EndFollows
    <3>3. childOut'[i + 1] = childOut[i + 1 + 1]
      BY <1>2, <3>2
    <3> QED
      BY <2>1, <2>2, <3>1, <3>2, <3>3 DEF EndFollows
  <2>9. LineFits(childOut[i])' = LineFits(m)' /\ (Accepted(childOut[i].turn, i - 1)' <=> Accepted(m.turn, i - 1)')
    BY <2>2 DEF LineFits, Accepted, Unread
  <2> QED
    BY <2>2, <2>6, <2>7, <2>8, <2>9
<1>8. ASSUME NEW i \in 1..Len(childOut'), NEW j \in 1..Len(childOut'), i < j
      PROVE  Follows(childOut'[i], childOut'[j])
  <2>1. childOut'[i] = childOut[i + 1] /\ childOut'[j] = childOut[j + 1]
        /\ i + 1 \in 1..Len(childOut) /\ j + 1 \in 1..Len(childOut) /\ i + 1 < j + 1
    BY <1>1, <1>2, <1>8
  <2> QED
    BY <1>4, <2>1 DEF LinesFollow
<1>9. LinesFit'
  BY <1>7 DEF LinesFit, Ending
<1>10. LinesFollow'
  BY <1>8 DEF LinesFollow, Follows, Ending
<1> QED
  BY <1>6, <1>9, <1>10 DEF TurnsInOrder

(* The turn the shim holds for active behind the line it reads.             *)
Activates(l) ==
  activeTurn' = IF l.type = "yes" THEN l.turn
                ELSE IF l.type = "ended" /\ activeTurn = l.turn THEN 0 ELSE activeTurn

LEMMA ActiveRead ==
  ASSUME CapacityTyped, Numbered, TurnsInOrder, ShimReads
  PROVE  Activates(childOut[1])
<1> DEFINE l == childOut[1]
<1>1. FirstLine(l.type)
  BY ReadNotes
<1>2. 1 \in 1..Len(childOut) /\ l \in Lines /\ (l.type # "no" => l.turn \in Turns)
  BY <1>1, Shift
<1>3. l = Head(childOut)
  BY <1>1, LineRead
<1>4. CASE ReadAccepted
  <2>1. l.type = "yes"
    BY <1>3, <1>4 DEF ReadAccepted, FirstLine
  <2>2. Unread(l.turn)
    BY <1>2, <2>1, CapacityRecoveryAssumption DEF TurnsInOrder, LinesFit, LineFits, Turns
  <2>3. activeTurn' = l.turn
    BY <1>3, <1>4, <2>2 DEF ReadAccepted, Unread
  <2> QED
    BY <2>1, <2>3 DEF Activates
<1>5. CASE ReadRejected
  BY <1>3, <1>5 DEF ReadRejected, FirstLine, Activates
<1>6. CASE ReadFailure
  BY <1>3, <1>6 DEF ReadFailure, FirstLine, Activates, turnVars
<1>7. CASE ReadEnd
  BY <1>3, <1>7 DEF ReadEnd, FirstLine, Activates
<1> QED
  BY <1>4, <1>5, <1>6, <1>7 DEF ShimReads

LEMMA LatestIsLastRead ==
  ASSUME CapacityTyped, Numbered, TurnsInOrder, LatestIsLast, FirstLine(childOut[1].type),
         Notes(childOut[1]), Activates(childOut[1])
  PROVE  LatestIsLast'
<1> DEFINE l == childOut[1]
<1>1. /\ 1 \in 1..Len(childOut) /\ l \in Lines /\ Len(childOut') = Len(childOut) - 1 /\ Len(childOut) \in Nat
      /\ l.type # "no" => l.turn \in Turns
  BY Shift
<1>2. \A i \in 1..Len(childOut') : /\ childOut'[i] = childOut[i + 1] /\ i + 1 \in 2..Len(childOut)
                                   /\ childOut'[i] \in Lines
  BY Shift
<1>3. \A i \in 1..Len(childOut) : childOut[i].type # "no" => childOut[i].turn \in Turns
  BY Shift
<1>4. LineFits(l) /\ TurnFits /\ LinesFit /\ LinesFollow
  BY <1>1 DEF TurnsInOrder, LinesFit
<1>5. UNCHANGED <<childIn, childTurn, latestWork>> /\ Turns \subseteq Nat /\ 0 \notin Turns
  BY CapacityRecoveryAssumption DEF Notes, Turns
<1>6. StartsLast /\ AnswersLast /\ EndingsLast /\ TurnLast
  BY DEF LatestIsLast
<1>7. l.type = "yes" => latestWork # 0
  <2> SUFFICES ASSUME l.type = "yes" PROVE latestWork # 0
    OBVIOUS
  <2>1. l.gen \in 1..latestWork /\ latestWork \in Nat
    BY <1>1, CapacityRecoveryAssumption DEF Numbered, Answer, CapacityTyped, CountersTyped, Works
  <2> QED
    BY <2>1
<1> HIDE DEF l
<1>8. StartsLast'
  BY <1>5, <1>6 DEF StartsLast, Newest
<1>9. ASSUME NEW i \in 1..Len(childOut'), Answer(childOut'[i]), Newest(childOut[i].gen)'
      PROVE  AnswerIsLast(i)'
  <2>1. i + 1 \in 1..Len(childOut) /\ childOut'[i] = childOut[i + 1]
    BY <1>1, <1>2
  <2>2. AnswerIsLast(i + 1)
    BY <1>5, <1>6, <1>9, <2>1 DEF AnswersLast, Newest
  <2>3. ASSUME NEW j \in 1..Len(childOut'), j > i
        PROVE  childOut'[i].type = "yes" /\ Ending(childOut'[j]) /\ childOut'[j].turn = childOut'[i].turn
    <3>1. j + 1 \in 1..Len(childOut) /\ childOut'[j] = childOut[j + 1] /\ j + 1 > i + 1
      BY <1>1, <1>2, <2>3
    <3> QED
      BY <2>1, <2>2, <3>1 DEF AnswerIsLast
  <2> QED
    BY <1>5, <2>1, <2>2, <2>3 DEF AnswerIsLast, Ending
<1>10. ASSUME NEW i \in 1..Len(childOut'), Ending(childOut'[i]), Newest(turnWork[childOut[i].turn])'
       PROVE  EndingIsLast(i)'
  <2>1. PICK m \in Lines : m = childOut[i + 1]
    BY <1>2
  <2>2. childOut'[i] = m /\ i + 1 \in 1..Len(childOut) /\ i \in Nat /\ 1 < i + 1 /\ Ending(m) /\ m.turn \in Turns
    BY <1>1, <1>2, <1>3, <1>10, <2>1 DEF Ending
  <2>3. Follows(l, m) /\ LineFits(m)
    BY <1>1, <1>4, <2>1, <2>2 DEF LinesFollow, LinesFit, l
  <2>4. turnWork'[m.turn] = latestWork
    BY <1>5, <1>10, <2>2 DEF Newest
  <2>5. CASE l.type = "yes" /\ m.turn = l.turn
    <3>1. Newest(l.gen) /\ Answer(l)
      BY <2>2, <2>4, <2>5 DEF Notes, Newest, Answer, l
    <3>2. AnswerIsLast(1)
      BY <1>1, <1>6, <3>1 DEF AnswersLast, l
    <3>3. childIn = <<>> /\ (childTurn = 0 \/ childTurn = l.turn)
      BY <3>2 DEF AnswerIsLast, l
    <3>4. childTurn = 0
      BY <2>2, <2>3, <2>5, <3>3 DEF LineFits, Ending
    <3>5. activeTurn' = m.turn
      BY <2>5 DEF Activates, l
    <3>6. ASSUME NEW j \in 1..Len(childOut'), j > i
          PROVE  childOut'[j].type = "ended" /\ childOut'[j].turn = m.turn
      <4>1. j + 1 \in 1..Len(childOut) /\ childOut'[j] = childOut[j + 1] /\ j + 1 > i + 1 /\ j + 1 > 1
        BY <1>1, <1>2, <2>2, <3>6
      <4>2. Ending(childOut[j + 1]) /\ childOut[j + 1].turn = m.turn
        BY <2>5, <3>2, <4>1 DEF AnswerIsLast, l
      <4>3. Follows(m, childOut[j + 1])
        BY <1>4, <2>1, <2>2, <4>1 DEF LinesFollow
      <4>4. m.turn \in Nat
        BY <1>5, <2>2
      <4>5. ~(m.turn < m.turn)
        BY <4>4
      <4> QED
        BY <2>2, <4>1, <4>2, <4>3, <4>5 DEF Follows, Ending
    <3> QED
      BY <1>5, <2>2, <3>3, <3>4, <3>5, <3>6 DEF EndingIsLast
  <2>6. CASE ~(l.type = "yes" /\ m.turn = l.turn)
    <3>1. turnWork[m.turn] = latestWork
      BY <2>2, <2>4, <2>6 DEF Notes, l
    <3>2. EndingIsLast(i + 1)
      BY <1>6, <2>1, <2>2, <3>1 DEF EndingsLast, Newest
    <3>3. l.type # "yes"
      <4> SUFFICES ASSUME l.type = "yes" PROVE FALSE
        OBVIOUS
      <4>1. l.turn <= m.turn
        BY <2>2, <2>3 DEF Follows, Ending
      <4>2. m.turn >= l.turn
        BY <1>1, <1>5, <2>2, <4>1
      <4>3. Unread(m.turn)
        BY <1>4, <2>2, <4>2 DEF LineFits
      <4> QED
        BY <1>7, <3>1, <4>3 DEF Unread
    <3>4. activeTurn' = m.turn
      <4>1. activeTurn = m.turn
        BY <2>1, <3>2 DEF EndingIsLast
      <4>2. ~(l.type = "ended" /\ l.turn = m.turn)
        <5>1. l.type = "ended" => l.turn < m.turn
          BY <2>2, <2>3 DEF Follows, Ending
        <5>2. m.turn \in Nat
          BY <1>5, <2>2
        <5> QED
          BY <5>1, <5>2
      <4> QED
        BY <3>3, <4>1, <4>2 DEF Activates, l
    <3>5. ASSUME NEW j \in 1..Len(childOut'), j > i
          PROVE  childOut'[j].type = "ended" /\ childOut'[j].turn = m.turn
      <4>1. j + 1 \in 1..Len(childOut) /\ childOut'[j] = childOut[j + 1]
        BY <1>1, <1>2
      <4>2. j + 1 > i + 1
        BY <1>1, <3>5
      <4> QED
        BY <2>1, <3>2, <4>1, <4>2 DEF EndingIsLast
    <3> QED
      BY <1>5, <2>2, <3>2, <3>4, <3>5 DEF EndingIsLast
  <2> QED
    BY <2>5, <2>6
<1>11. TurnLast'
  <2> SUFFICES ASSUME childTurn # 0, turnWork'[childTurn] = latestWork
               PROVE  childIn = <<>> /\ childOut' = <<>> /\ activeTurn' = childTurn
    BY <1>5 DEF TurnLast, Newest
  <2>1. childOut # <<>> /\ childTurn \in Turns /\ childOut' \in Seq(Lines)
    BY LineRead DEF CapacityTyped, CountersTyped, Turns
  <2>2. l.type = "yes" /\ l.turn = childTurn
    <3> SUFFICES ASSUME ~(l.type = "yes" /\ l.turn = childTurn) PROVE FALSE
      OBVIOUS
    <3>1. turnWork[childTurn] = latestWork
      BY <2>1 DEF Notes, l
    <3> QED
      BY <1>6, <2>1, <3>1 DEF TurnLast, Newest
  <2>3. Newest(l.gen) /\ Answer(l)
    BY <2>1, <2>2 DEF Notes, Newest, Answer, l
  <2>4. AnswerIsLast(1)
    BY <1>1, <1>6, <2>3 DEF AnswersLast, l
  <2>5. childIn = <<>> /\ activeTurn' = childTurn
    BY <2>2, <2>4 DEF AnswerIsLast, Activates, l
  <2>6. Len(childOut) = 1
    <3> SUFFICES ASSUME Len(childOut) # 1 PROVE FALSE
      OBVIOUS
    <3>1. 2 \in 1..Len(childOut) /\ 2 > 1
      BY <1>1
    <3>2. Ending(childOut[2]) /\ childOut[2].turn = childTurn
      BY <2>2, <2>4, <3>1 DEF AnswerIsLast, l
    <3>3. LineFits(childOut[2])
      BY <1>4, <3>1 DEF LinesFit
    <3> QED
      BY <3>2, <3>3 DEF LineFits, Ending
  <2>7. childOut' = <<>>
    BY <1>1, <2>1, <2>6
  <2> QED
    BY <2>5, <2>7
<1>12. AnswersLast'
  BY <1>9 DEF AnswersLast, Answer
<1>13. EndingsLast'
  BY <1>10 DEF EndingsLast, Ending
<1> QED
  BY <1>8, <1>11, <1>12, <1>13 DEF LatestIsLast

(* Somebody goes on awaiting what is not read.                              *)
LEMMA InFlightRead ==
  ASSUME CapacityTyped, FirstLine(childOut[1].type), Notes(childOut[1]), NEW by, InFlight(by),
         Answer(childOut[1]) => childOut[1].by # by
  PROVE  InFlight(by)'
<1>1. \A i \in 1..Len(childOut') : childOut'[i] = childOut[i + 1]
  BY Shift
<1>2. Len(childOut') = Len(childOut) - 1 /\ Len(childOut) \in Nat /\ childIn' = childIn
  BY Shift DEF Notes
<1>3. CASE \E i \in 1..Len(childIn) : childIn[i].by = by
  BY <1>2, <1>3 DEF InFlight
<1>4. CASE \E i \in 1..Len(childOut) : Answer(childOut[i]) /\ childOut[i].by = by
  <2>1. PICK i \in 1..Len(childOut) : Answer(childOut[i]) /\ childOut[i].by = by
    BY <1>4
  <2>2. i # 1
    BY <2>1
  <2>3. i - 1 \in 1..Len(childOut') /\ i - 1 + 1 = i
    BY <1>2, <2>2
  <2>4. childOut'[i - 1] = childOut[i]
    BY <1>1, <2>3
  <2> QED
    BY <2>1, <2>3, <2>4 DEF InFlight, Answer
<1> QED
  BY <1>3, <1>4 DEF InFlight

-----------------------------------------------------------------------------
(* A start is sent: new work, or a Continue behind which nothing else is    *)
(* under way.                                                               *)
LEMMA TurnsInOrderKept ==
  ASSUME TurnsInOrder, UNCHANGED <<childOut, childTurn, turnsSoFar, turnWork, endedTurns, reported>>
  PROVE  TurnsInOrder'
<1>1. \A t \in Turns : Unread(t)' <=> Unread(t)
  BY DEF Unread
<1>2. \A t, n : Accepted(t, n)' <=> Accepted(t, n)
  BY DEF Accepted
<1>3. TurnFits'
  BY <1>1, <1>2 DEF TurnsInOrder, TurnFits
<1>4. \A l : LineFits(l) => LineFits(l)'
  BY <1>1 DEF LineFits
<1>5. \A i : EndFollows(i)' <=> EndFollows(i)
  BY DEF EndFollows
<1>6. LinesFit'
  BY <1>2, <1>4, <1>5 DEF TurnsInOrder, LinesFit
<1>7. LinesFollow'
  BY DEF TurnsInOrder, LinesFollow
<1> QED
  BY <1>3, <1>6, <1>7 DEF TurnsInOrder

LEMMA SendWork ==
  ASSUME CapacityTyped, Numbered, TurnsInOrder, LatestIsLast, NEW by \in Senders, by # "nobody",
         NEW gen \in Works, gen # 0, gen = latestWork', SendStart(by, gen),
         UNCHANGED <<childOut, childTurn, turnsSoFar, turnWork, activeTurn, endedTurns, reported>>,
         \/ latestWork' = latestWork + 1
         \/ latestWork' = latestWork /\ childIn = <<>> /\ childOut = <<>> /\ childTurn = 0
  PROVE  Numbered' /\ TurnsInOrder' /\ LatestIsLast'
<1> DEFINE m == [by |-> by, gen |-> gen]
<1>1. m \in Starts /\ m.by = by /\ m.gen = gen
  BY DEF Starts
<1>2. /\ Len(childIn') = Len(childIn) + 1 /\ childIn'[Len(childIn) + 1] = m
      /\ \A i \in 1..Len(childIn) : childIn'[i] = childIn[i]
      /\ \A i \in 1..Len(childIn') : i \in 1..Len(childIn) \/ i = Len(childIn) + 1
  BY <1>1, AppendOf DEF SendStart, CapacityTyped, QueuesTyped
<1>3. latestWork \in Nat /\ latestWork <= latestWork' /\ latestWork' \in Nat /\ gen \in 1..latestWork'
      /\ turnWork \in [Turns -> Nat]
  BY CapacityRecoveryAssumption DEF CapacityTyped, CountersTyped, Works
<1> HIDE DEF m
<1>4. Numbered'
  <2>1. \A i \in 1..Len(childIn') : childIn'[i].by # "nobody" /\ childIn'[i].gen \in 1..latestWork'
    <3> TAKE i \in 1..Len(childIn')
    <3>1. CASE i \in 1..Len(childIn)
      <4>1. childIn[i].by # "nobody" /\ childIn[i].gen \in 1..latestWork
        BY <3>1 DEF Numbered
      <4>2. childIn'[i] = childIn[i]
        BY <1>2, <3>1
      <4> QED
        BY <1>3, <4>1, <4>2
    <3>2. CASE i = Len(childIn) + 1
      BY <1>1, <1>2, <1>3, <3>2
    <3> QED
      BY <1>2, <3>1, <3>2
  <2>2. \A i \in 1..Len(childOut) :
          Answer(childOut[i]) => childOut[i].by # "nobody" /\ childOut[i].gen \in 1..latestWork'
    BY <1>3 DEF Numbered
  <2>3. \A t \in Turns : turnWork[t] <= latestWork'
    BY <1>3 DEF Numbered
  <2> QED
    BY <2>1, <2>2, <2>3 DEF Numbered, Answer
<1>5. TurnsInOrder'
  BY TurnsInOrderKept
<1>6. CASE latestWork' = latestWork /\ childIn = <<>> /\ childOut = <<>> /\ childTurn = 0
  <2>1. StartsLast'
    BY <1>2, <1>6 DEF StartsLast
  <2>2. AnswersLast' /\ EndingsLast' /\ TurnLast'
    BY <1>6 DEF AnswersLast, EndingsLast, TurnLast
  <2> QED
    BY <1>4, <1>5, <2>1, <2>2 DEF LatestIsLast
<1>7. CASE latestWork' = latestWork + 1
  <2>1. StartsLast'
    <3> SUFFICES ASSUME NEW i \in 1..Len(childIn'), childIn'[i].gen = latestWork' PROVE i = Len(childIn')
      BY DEF StartsLast, Newest
    <3>1. i \notin 1..Len(childIn)
      <4> SUFFICES ASSUME i \in 1..Len(childIn) PROVE FALSE
        OBVIOUS
      <4>1. childIn'[i].gen \in 1..latestWork
        BY <1>2 DEF Numbered
      <4> QED
        BY <1>3, <1>7, <4>1
    <3> QED
      BY <1>2, <3>1
  <2>2. \A n \in 0..latestWork : n # latestWork'
    BY <1>3, <1>7
  <2>3. AnswersLast'
    <3>1. \A i \in 1..Len(childOut) : Answer(childOut[i]) => childOut[i].gen \in 0..latestWork
      BY <1>3 DEF Numbered
    <3> QED
      BY <2>2, <3>1 DEF AnswersLast, Newest, Answer
  <2>4. \A t \in Turns : turnWork[t] # latestWork'
    BY <1>3, <1>7 DEF Numbered
  <2>5. EndingsLast'
    <3>1. \A i \in 1..Len(childOut) : Ending(childOut[i]) => childOut[i].turn \in Turns
      <4>1. \A i \in 1..Len(childOut) : childOut[i] \in Lines
        BY DEF CapacityTyped, QueuesTyped
      <4> QED
        BY <4>1, CapacityRecoveryAssumption DEF CapacityTyped, QueuesTyped, Ending, Lines, Turns
    <3> QED
      BY <2>4, <3>1 DEF EndingsLast, Newest, Ending
  <2>6. TurnLast'
    <3>1. childTurn # 0 => childTurn \in Turns
      BY DEF CapacityTyped, CountersTyped, Turns
    <3> QED
      BY <2>4, <3>1 DEF TurnLast, Newest
  <2> QED
    BY <1>4, <1>5, <2>1, <2>3, <2>5, <2>6 DEF LatestIsLast
<1> QED
  BY <1>6, <1>7

LEMMA InFlightSend ==
  ASSUME CapacityTyped, NEW by \in Senders, NEW gen \in Works, SendStart(by, gen), childOut' = childOut
  PROVE  InFlight(by)' /\ \A b : InFlight(b) => InFlight(b)'
<1> DEFINE m == [by |-> by, gen |-> gen]
<1>1. m \in Starts /\ m.by = by
  BY DEF Starts
<1>2. /\ Len(childIn') = Len(childIn) + 1 /\ childIn'[Len(childIn) + 1] = m /\ Len(childIn) \in Nat
      /\ \A i \in 1..Len(childIn) : childIn'[i] = childIn[i]
  BY <1>1, AppendOf DEF SendStart, CapacityTyped, QueuesTyped
<1> HIDE DEF m
<1>3. \A i \in 1..Len(childIn) : i \in 1..Len(childIn')
  BY <1>2
<1>4. Len(childIn) + 1 \in 1..Len(childIn')
  BY <1>2
<1>5. InFlight(by)'
  BY <1>1, <1>2, <1>4 DEF InFlight
<1>6. \A b : InFlight(b) => InFlight(b)'
  BY <1>2, <1>3 DEF InFlight, Answer
<1> QED
  BY <1>5, <1>6

-----------------------------------------------------------------------------
(* The app-server takes a start.                                            *)
LEMMA LinesTyped ==
  ASSUME CapacityTyped
  PROVE  /\ Len(childOut) \in Nat
         /\ \A i \in 1..Len(childOut) : childOut[i] \in Lines /\ (childOut[i].type # "no" => childOut[i].turn \in Turns)
<1>1. \A i \in 1..Len(childOut) : childOut[i] \in Lines
  BY DEF CapacityTyped, QueuesTyped
<1>2. \A i \in 1..Len(childOut) : childOut[i].type # "no" => childOut[i].turn \in Turns
  BY <1>1, CapacityRecoveryAssumption DEF CapacityTyped, QueuesTyped, Lines, Turns
<1>3. Len(childOut) \in Nat
  BY DEF CapacityTyped, QueuesTyped
<1> QED
  BY <1>1, <1>2, <1>3

LEMMA TakenLine ==
  ASSUME CapacityTyped, ChildTakesStart
  PROVE  \E m \in Lines :
           /\ Len(childOut') = Len(childOut) + 1 /\ childOut'[Len(childOut) + 1] = m
           /\ \A i \in 1..Len(childOut) : childOut'[i] = childOut[i]
           /\ m.by = childIn[1].by /\ m.gen = childIn[1].gen
           /\ \/ m.type = "yes" /\ m.turn = turnsSoFar + 1 /\ m.turn \in Turns
                 /\ turnsSoFar' = turnsSoFar + 1 /\ childTurn' = turnsSoFar + 1
              \/ m.type = "no" /\ UNCHANGED <<turnsSoFar, childTurn>>
<1>1. childIn \in Seq(Starts) /\ childIn # <<>> /\ Head(childIn) = childIn[1] /\ childIn[1] \in Starts
  BY TailOf DEF ChildTakesStart, CapacityTyped, QueuesTyped
<1>2. turnsSoFar \in Nat /\ MaxTurns \in Nat /\ childOut \in Seq(Lines)
  BY CapacityRecoveryAssumption DEF CapacityTyped, CountersTyped, QueuesTyped
<1>3. ASSUME NEW m \in Lines, childOut' = Append(childOut, m)
      PROVE  /\ Len(childOut') = Len(childOut) + 1 /\ childOut'[Len(childOut) + 1] = m
             /\ \A i \in 1..Len(childOut) : childOut'[i] = childOut[i]
  BY <1>2, <1>3, AppendOf
<1>4. CASE /\ turnsSoFar < MaxTurns
           /\ turnsSoFar' = turnsSoFar + 1 /\ childTurn' = turnsSoFar + 1
           /\ childOut' = Append(childOut, Line("yes", childIn[1].by, childIn[1].gen,
                                                turnsSoFar + 1, "other"))
  <2> DEFINE m == Line("yes", childIn[1].by, childIn[1].gen, turnsSoFar + 1, "other")
  <2>1. turnsSoFar + 1 \in Turns /\ turnsSoFar + 1 \in 0..MaxTurns
    BY <1>2, <1>4 DEF Turns
  <2>2. /\ m \in Lines /\ m.by = childIn[1].by /\ m.gen = childIn[1].gen /\ m.turn = turnsSoFar + 1
        /\ m.type = "yes"
    BY <1>1, <2>1 DEF Line, Lines, Starts, Kinds
  <2>3. childOut' = Append(childOut, m)
    BY <1>4
  <2> HIDE DEF m
  <2> QED
    BY <1>3, <1>4, <2>1, <2>2, <2>3
<1>5. CASE /\ \E k \in Kinds :
                childOut' = Append(childOut, Line("no", childIn[1].by, childIn[1].gen, 0, k))
           /\ UNCHANGED <<turnsSoFar, childTurn>>
  <2>1. PICK k \in Kinds :
          childOut' = Append(childOut, Line("no", childIn[1].by, childIn[1].gen, 0, k))
    BY <1>5
  <2> DEFINE m == Line("no", childIn[1].by, childIn[1].gen, 0, k)
  <2>2. m \in Lines /\ m.by = childIn[1].by /\ m.gen = childIn[1].gen /\ m.type = "no"
    BY <1>1, <1>2 DEF Line, Lines, Starts
  <2>3. childOut' = Append(childOut, m)
    BY <2>1
  <2> HIDE DEF m
  <2> QED
    BY <1>3, <1>5, <2>2, <2>3
<1> QED
  BY <1>1, <1>4, <1>5 DEF ChildTakesStart

LEMMA TakenStart ==
  ASSUME CapacityTyped, ChildTakesStart
  PROVE  /\ childTurn = 0 /\ childIn # <<>> /\ childIn' \in Seq(Starts)
         /\ 1 \in 1..Len(childIn) /\ Len(childIn) \in Nat /\ Len(childIn') = Len(childIn) - 1
         /\ \A i \in 1..Len(childIn') : childIn'[i] = childIn[i + 1] /\ i + 1 \in 2..Len(childIn)
         /\ UNCHANGED <<latestWork, turnWork, activeTurn, endedTurns, reported>>
<1>1. childIn # <<>> /\ childIn' = Tail(childIn) /\ childIn \in Seq(Starts)
  BY ChildTakesStartEffect
<1>2. /\ Len(childIn) >= 1 /\ Len(childIn) \in Nat /\ Len(childIn') = Len(childIn) - 1 /\ childIn' \in Seq(Starts)
      /\ \A i \in 1..Len(childIn') : childIn'[i] = childIn[i + 1] /\ i + 1 \in 1..Len(childIn)
  BY <1>1, TailOf
<1>3. childTurn = 0 /\ UNCHANGED <<latestWork, turnWork, activeTurn, endedTurns, reported>>
  BY DEF ChildTakesStart, workVars, turnVars
<1> QED
  BY <1>1, <1>2, <1>3

LEMMA TakeWork ==
  ASSUME CapacityTyped, Numbered, TurnsInOrder, LatestIsLast, ChildTakesStart
  PROVE  Numbered' /\ TurnsInOrder' /\ LatestIsLast'
<1>1. PICK m \in Lines :
        /\ Len(childOut') = Len(childOut) + 1 /\ childOut'[Len(childOut) + 1] = m
        /\ \A i \in 1..Len(childOut) : childOut'[i] = childOut[i]
        /\ m.by = childIn[1].by /\ m.gen = childIn[1].gen
        /\ \/ m.type = "yes" /\ m.turn = turnsSoFar + 1 /\ m.turn \in Turns
              /\ turnsSoFar' = turnsSoFar + 1 /\ childTurn' = turnsSoFar + 1
           \/ m.type = "no" /\ UNCHANGED <<turnsSoFar, childTurn>>
  BY TakenLine
<1>2. PICK n \in Nat : n = Len(childOut)
  BY DEF CapacityTyped, QueuesTyped
<1>3. /\ Len(childOut') = n + 1 /\ childOut'[n + 1] = m
      /\ \A i \in 1..n : childOut'[i] = childOut[i]
      /\ \A i \in 1..Len(childOut') : i \in 1..n \/ i = n + 1
  BY <1>1, <1>2
<1>4. PICK k \in Nat : k = turnsSoFar
  BY CapacityRecoveryAssumption DEF CapacityTyped, CountersTyped
<1>5. /\ childTurn = 0 /\ childIn # <<>> /\ 1 \in 1..Len(childIn) /\ childIn' \in Seq(Starts)
      /\ Len(childIn') = Len(childIn) - 1 /\ Len(childIn) \in Nat
      /\ \A i \in 1..Len(childIn') : childIn'[i] = childIn[i + 1] /\ i + 1 \in 2..Len(childIn)
      /\ UNCHANGED <<latestWork, turnWork, activeTurn, endedTurns, reported>>
  BY TakenStart
<1>6. m.by # "nobody" /\ m.gen \in 1..latestWork
  BY <1>1, <1>5 DEF Numbered
<1>7. \A i \in 1..n : childOut[i] \in Lines /\ (childOut[i].type # "no" => childOut[i].turn \in Turns)
  BY <1>2, LinesTyped
<1>8. TurnFits /\ LinesFit /\ LinesFollow
  BY DEF TurnsInOrder
<1>9. \/ m.type = "yes" /\ m.turn = k + 1 /\ m.turn \in Turns /\ turnsSoFar' = k + 1 /\ childTurn' = k + 1
      \/ m.type = "no" /\ turnsSoFar' = k /\ childTurn' = 0
  BY <1>1, <1>4, <1>5
<1>10. Turns \subseteq Nat /\ latestWork \in Nat
  BY CapacityRecoveryAssumption DEF Turns, CapacityTyped, CountersTyped, Works
<1>11. Numbered'
  <2>1. \A i \in 1..Len(childIn') : childIn'[i].by # "nobody" /\ childIn'[i].gen \in 1..latestWork
    BY <1>5 DEF Numbered
  <2>2. \A i \in 1..Len(childOut') :
          Answer(childOut'[i]) => childOut'[i].by # "nobody" /\ childOut'[i].gen \in 1..latestWork
    BY <1>2, <1>3, <1>6 DEF Numbered
  <2>3. \A t \in Turns : turnWork[t] <= latestWork
    BY DEF Numbered
  <2> QED
    BY <1>5, <2>1, <2>2, <2>3 DEF Numbered, Answer
<1>12. \A t \in Turns : Unread(t)' <=> Unread(t)
  BY <1>5 DEF Unread
<1>13. \A t \in Turns : t > k => Unread(t)
  BY <1>4, <1>8 DEF TurnFits
<1>14. \A t \in Turns : t > turnsSoFar' => Unread(t)'
  <2> TAKE t \in Turns
  <2>1. t > turnsSoFar' => t > k
    BY <1>9, <1>10
  <2> QED
    BY <1>12, <1>13, <2>1
<1>15. ASSUME NEW t, NEW i \in 1..n, Accepted(t, i - 1) PROVE Accepted(t, i - 1)'
  <2>1. \A j \in 1..i - 1 : j \in 1..n
    BY <1>2
  <2> QED
    BY <1>3, <1>5, <1>15, <2>1 DEF Accepted
<1>16. ASSUME childTurn' # 0
       PROVE  childTurn' \in 1..turnsSoFar' /\ childTurn' \notin reported' /\ Accepted(childTurn, Len(childOut))'
  <2>1. m.type = "yes" /\ m.turn = k + 1 /\ m.turn \in Turns /\ turnsSoFar' = k + 1 /\ childTurn' = k + 1
    BY <1>9, <1>16
  <2>2. m.turn > k
    BY <2>1
  <2>3. m.turn \notin reported'
    BY <1>5, <1>13, <2>1, <2>2 DEF Unread
  <2>4. n + 1 \in 1..Len(childOut')
    BY <1>3
  <2>5. Accepted(childTurn, Len(childOut))'
    BY <1>3, <2>1, <2>4 DEF Accepted
  <2> QED
    BY <2>1, <2>3, <2>5
<1>17. TurnFits'
  BY <1>14, <1>16 DEF TurnFits
<1>18. ASSUME NEW i \in 1..n
       PROVE  /\ LineFits(childOut[i])' /\ (Ending(childOut'[i]) => Accepted(childOut[i].turn, i - 1)')
              /\ childOut'[i].type = "error" => EndFollows(i)'
  <2>1. PICK c \in Lines : c = childOut[i]
    BY <1>7
  <2>2. LineFits(c) /\ (Ending(c) => Accepted(c.turn, i - 1)) /\ (c.type = "error" => EndFollows(i))
    BY <1>2, <1>8, <2>1 DEF LinesFit
  <2>3. childOut'[i] = c
    BY <1>3, <2>1
  <2>4. c.type # "no" => c.turn \in 1..k /\ c.turn \in Nat
    BY <1>4, <2>2 DEF LineFits
  <2>5. /\ c.type # "no" => c.turn \in 1..turnsSoFar'
        /\ childTurn' # 0 /\ c.type # "no" => c.turn <= childTurn' /\ c.turn # childTurn'
    BY <1>9, <2>4
  <2>6. LineFits(c)'
    <3>1. c.type = "yes" => \A t \in Turns : t >= c.turn => Unread(t)'
      BY <1>12, <2>2 DEF LineFits
    <3>2. c.type = "error" => c.turn \notin reported'
      BY <1>5, <2>2 DEF LineFits
    <3> QED
      BY <2>5, <3>1, <3>2 DEF LineFits
  <2>7. Ending(c) => Accepted(c.turn, i - 1)'
    BY <1>15, <2>2
  <2>8. c.type = "error" => EndFollows(i)'
    <3> SUFFICES ASSUME c.type = "error" PROVE EndFollows(i)'
      OBVIOUS
    <3>1. EndFollows(i)
      BY <2>2
    <3>2. i + 1 \in 1..n /\ i + 1 \in 1..Len(childOut')
      BY <1>2, <1>3, <3>1 DEF EndFollows
    <3>3. childOut'[i + 1] = childOut[i + 1]
      BY <1>3, <3>2
    <3> QED
      BY <2>1, <2>3, <3>1, <3>2, <3>3 DEF EndFollows
  <2>9. (LineFits(childOut[i])' <=> LineFits(c)') /\ (Accepted(childOut[i].turn, i - 1)' <=> Accepted(c.turn, i - 1)')
    BY <2>3 DEF LineFits, Accepted, Unread
  <2> QED
    BY <2>3, <2>6, <2>7, <2>8, <2>9
<1>19. LineFits(childOut[n + 1])' /\ ~Ending(childOut'[n + 1])
  <2>1. ~Ending(m) /\ m.type # "error"
    BY <1>9 DEF Ending
  <2>2. LineFits(m)'
    <3>1. CASE m.type = "no"
      BY <3>1 DEF LineFits
    <3>2. CASE m.type = "yes"
      <4>1. m.turn = k + 1 /\ turnsSoFar' = k + 1 /\ childTurn' = k + 1
        BY <1>9, <3>2
      <4>2. m.turn \in 1..turnsSoFar' /\ m.turn <= childTurn'
        BY <4>1
      <4>3. \A t \in Turns : t >= m.turn => Unread(t)'
        <5> TAKE t \in Turns
        <5>1. t >= m.turn => t > k
          BY <1>10, <4>1
        <5> QED
          BY <1>12, <1>13, <5>1
      <4> QED
        BY <2>1, <3>2, <4>2, <4>3 DEF LineFits
    <3> QED
      BY <1>9, <3>1, <3>2
  <2> QED
    BY <1>3, <2>1, <2>2 DEF LineFits, Unread
<1>20. LinesFit'
  <2> SUFFICES ASSUME NEW i \in 1..Len(childOut')
               PROVE  /\ LineFits(childOut[i])' /\ (Ending(childOut'[i]) => Accepted(childOut[i].turn, i - 1)')
                      /\ childOut'[i].type = "error" => EndFollows(i)'
    BY DEF LinesFit, Ending
  <2>1. CASE i \in 1..n
    BY <1>18, <2>1
  <2>2. CASE i = n + 1
    BY <1>19, <2>2 DEF Ending
  <2> QED
    BY <1>3, <2>1, <2>2
<1>21. LinesFollow'
  <2> SUFFICES ASSUME NEW i \in 1..Len(childOut'), NEW j \in 1..Len(childOut'), i < j
               PROVE  Follows(childOut'[i], childOut'[j])
    BY DEF LinesFollow, Follows, Ending
  <2>1. i \in 1..n /\ childOut'[i] = childOut[i]
    BY <1>3
  <2>2. CASE j \in 1..n
    BY <1>2, <1>3, <1>8, <2>1, <2>2 DEF LinesFollow
  <2>3. CASE j = n + 1
    <3>1. PICK c \in Lines : c = childOut[i]
      BY <1>7, <2>1
    <3>2. LineFits(c)
      BY <1>2, <1>8, <2>1, <3>1 DEF LinesFit
    <3>3. c.type # "no" => c.turn \in 1..k
      BY <1>4, <3>2 DEF LineFits
    <3>4. Follows(c, m)
      BY <1>9, <3>3 DEF Follows
    <3> QED
      BY <1>3, <2>1, <2>3, <3>1, <3>4
  <2> QED
    BY <1>3, <2>2, <2>3
<1>22. TurnsInOrder'
  BY <1>17, <1>20, <1>21 DEF TurnsInOrder
<1>23. StartsLast /\ AnswersLast /\ EndingsLast /\ TurnLast
  BY DEF LatestIsLast
<1>24. StartsLast'
  <2> SUFFICES ASSUME NEW i \in 1..Len(childIn'), childIn'[i].gen = latestWork' PROVE i = Len(childIn')
    BY DEF StartsLast, Newest
  <2>1. i + 1 = Len(childIn)
    BY <1>5, <1>23 DEF StartsLast, Newest
  <2> QED
    BY <1>5, <2>1
<1>25. AnswersLast'
  <2> SUFFICES ASSUME NEW i \in 1..Len(childOut'), Answer(childOut'[i]), childOut'[i].gen = latestWork'
               PROVE  AnswerIsLast(i)'
    BY DEF AnswersLast, Newest, Answer
  <2>1. i \notin 1..n
    BY <1>2, <1>3, <1>5, <1>23 DEF AnswersLast, Newest, AnswerIsLast
  <2>2. i = n + 1 /\ childOut'[i] = m
    BY <1>3, <2>1
  <2>3. Len(childIn) = 1
    BY <1>1, <1>5, <1>23, <2>2 DEF StartsLast, Newest
  <2>4. childIn' = <<>>
    BY <1>5, <2>3
  <2>5. ~ \E j \in 1..Len(childOut') : j > i
    BY <1>3, <2>2
  <2>6. childTurn' = 0 \/ (m.type = "yes" /\ childTurn' = m.turn)
    BY <1>9
  <2> QED
    BY <2>2, <2>4, <2>5, <2>6 DEF AnswerIsLast
<1>26. EndingsLast'
  <2> SUFFICES ASSUME NEW i \in 1..Len(childOut'), Ending(childOut'[i]), turnWork'[childOut'[i].turn] = latestWork'
               PROVE  FALSE
    BY DEF EndingsLast, Newest, Ending
  <2>1. i \in 1..n
    BY <1>3, <1>19
  <2> QED
    BY <1>2, <1>3, <1>5, <1>23, <2>1 DEF EndingsLast, Newest, EndingIsLast
<1>27. TurnLast'
  <2> SUFFICES ASSUME childTurn' # 0, turnWork'[childTurn'] = latestWork' PROVE FALSE
    BY DEF TurnLast, Newest
  <2>1. m.turn = k + 1 /\ m.turn \in Turns /\ childTurn' = m.turn
    BY <1>9
  <2>2. m.turn > k
    BY <2>1
  <2>3. Unread(m.turn)
    BY <1>13, <2>1, <2>2
  <2>4. latestWork = 0
    BY <1>5, <2>1, <2>3 DEF Unread
  <2> QED
    BY <1>6, <2>4
<1>28. LatestIsLast'
  BY <1>24, <1>25, <1>26, <1>27 DEF LatestIsLast
<1> QED
  BY <1>11, <1>22, <1>28

LEMMA InFlightTake ==
  ASSUME CapacityTyped, ChildTakesStart, NEW by, InFlight(by)
  PROVE  InFlight(by)'
<1>1. PICK m \in Lines :
        /\ Len(childOut') = Len(childOut) + 1 /\ childOut'[Len(childOut) + 1] = m
        /\ \A i \in 1..Len(childOut) : childOut'[i] = childOut[i]
        /\ m.by = childIn[1].by /\ m.type \in {"yes", "no"}
  BY TakenLine
<1>2. /\ 1 \in 1..Len(childIn) /\ Len(childIn') = Len(childIn) - 1 /\ Len(childIn) \in Nat
      /\ \A i \in 1..Len(childIn') : childIn'[i] = childIn[i + 1]
      /\ Len(childOut) \in Nat
  BY TakenStart DEF CapacityTyped, QueuesTyped
<1>3. CASE \E i \in 1..Len(childOut) : Answer(childOut[i]) /\ childOut[i].by = by
  <2>1. \A i \in 1..Len(childOut) : i \in 1..Len(childOut')
    BY <1>1, <1>2
  <2> QED
    BY <1>1, <1>3, <2>1 DEF InFlight, Answer
<1>4. CASE childIn[1].by = by
  <2>1. Len(childOut) + 1 \in 1..Len(childOut')
    BY <1>1, <1>2
  <2> QED
    BY <1>1, <1>4, <2>1 DEF InFlight, Answer
<1>5. ASSUME NEW i \in 1..Len(childIn), i # 1, childIn[i].by = by
      PROVE  InFlight(by)'
  <2>1. i - 1 \in 1..Len(childIn') /\ i - 1 + 1 = i
    BY <1>2, <1>5
  <2>2. childIn'[i - 1] = childIn[i]
    BY <1>2, <2>1
  <2> QED
    BY <1>5, <2>1, <2>2 DEF InFlight
<1> QED
  BY <1>3, <1>4, <1>5 DEF InFlight

-----------------------------------------------------------------------------
(* The turn of the app-server ends: behind the n lines there are its end    *)
(* and perhaps, before it, its error.                                       *)
Ends(n, k, i) ==
  /\ i \in Nat /\ i > n /\ Ending(childOut'[i]) /\ childOut'[i].turn = childTurn /\ childOut'[i].kind = k
  /\ \/ i = Len(childOut') /\ childOut'[i].type = "ended"
     \/ i + 1 = Len(childOut') /\ i = n + 1 /\ childOut'[i].type = "error"

LEMMA EndedLines ==
  ASSUME CapacityTyped, ChildEndsTurn
  PROVE  \E n \in Nat, k \in Kinds :
           /\ n = Len(childOut) /\ Len(childOut') \in Nat /\ n < Len(childOut')
           /\ \A i \in 1..n : childOut'[i] = childOut[i]
           /\ \A i \in 1..Len(childOut') : i \in 1..n \/ Ends(n, k, i)
<1>1. childTurn \in 0..MaxTurns /\ childOut \in Seq(Lines)
  BY DEF CapacityTyped, CountersTyped, QueuesTyped
<1>2. PICK k \in Kinds, announced \in BOOLEAN :
        childOut' = childOut \o
          IF announced /\ k # "other"
            THEN <<Line("error", "user", 0, childTurn, k), Line("ended", "user", 0, childTurn, k)>>
            ELSE <<Line("ended", "user", 0, childTurn, k)>>
  BY DEF ChildEndsTurn
<1>3. PICK e : e = Line("error", "user", 0, childTurn, k)
  OBVIOUS
<1>4. PICK d : d = Line("ended", "user", 0, childTurn, k)
  OBVIOUS
<1>5. /\ e \in Lines /\ e.type = "error" /\ e.turn = childTurn /\ e.kind = k
      /\ d \in Lines /\ d.type = "ended" /\ d.turn = childTurn /\ d.kind = k
  BY <1>1, <1>3, <1>4, CapacityRecoveryAssumption DEF Line, Lines, Senders, Works
<1>6. PICK n \in Nat : n = Len(childOut)
  BY <1>1
<1>7. childOut' = childOut \o <<e, d>> \/ childOut' = childOut \o <<d>>
  BY <1>2, <1>3, <1>4
<1>8. CASE childOut' = childOut \o <<d>>
  <2>1. Len(childOut') = n + 1 /\ childOut'[n + 1] = d /\ \A i \in 1..n : childOut'[i] = childOut[i]
    BY <1>1, <1>5, <1>6, <1>8
  <2>2. ASSUME NEW i \in 1..Len(childOut'), i \notin 1..n PROVE Ends(n, k, i)
    <3>1. i = n + 1
      BY <2>1, <2>2
    <3>2. i > n /\ i \in Nat
      BY <3>1
    <3> QED
      BY <1>5, <2>1, <3>1, <3>2 DEF Ends, Ending
  <2> QED
    BY <1>6, <2>1, <2>2
<1>9. CASE childOut' = childOut \o <<e, d>>
  <2>1. /\ Len(childOut') = n + 2 /\ childOut'[n + 1] = e /\ childOut'[n + 2] = d
        /\ \A i \in 1..n : childOut'[i] = childOut[i]
    BY <1>1, <1>5, <1>6, <1>9
  <2>2. ASSUME NEW i \in 1..Len(childOut'), i \notin 1..n PROVE Ends(n, k, i)
    <3>1. CASE i = n + 1
      <4>1. i > n /\ i \in Nat /\ i + 1 = Len(childOut')
        BY <2>1, <3>1
      <4> QED
        BY <1>5, <2>1, <3>1, <4>1 DEF Ends, Ending
    <3>2. CASE i = n + 2
      <4>1. i > n /\ i \in Nat
        BY <3>2
      <4> QED
        BY <1>5, <2>1, <3>2, <4>1 DEF Ends, Ending
    <3>3. i = n + 1 \/ i = n + 2
      BY <2>1, <2>2
    <3> QED
      BY <3>1, <3>2, <3>3
  <2> QED
    BY <1>6, <2>1, <2>2
<1> QED
  BY <1>7, <1>8, <1>9

LEMMA EndWork ==
  ASSUME CapacityTyped, Numbered, TurnsInOrder, LatestIsLast, ChildEndsTurn
  PROVE  Numbered' /\ TurnsInOrder' /\ LatestIsLast'
<1>1. PICK n \in Nat, k \in Kinds :
        /\ n = Len(childOut) /\ Len(childOut') \in Nat /\ n < Len(childOut')
        /\ \A i \in 1..n : childOut'[i] = childOut[i]
        /\ \A i \in 1..Len(childOut') : i \in 1..n \/ Ends(n, k, i)
  BY EndedLines
<1>2. /\ childTurn # 0 /\ childTurn' = 0
      /\ UNCHANGED <<childIn, latestWork, turnWork, activeTurn, endedTurns, reported, turnsSoFar>>
  BY DEF ChildEndsTurn, workVars, turnVars
<1>3. TurnFits /\ LinesFit /\ LinesFollow
  BY DEF TurnsInOrder
<1>4. PICK ct \in Turns : ct = childTurn
  BY <1>2 DEF CapacityTyped, CountersTyped, Turns
<1>5. ct \in 1..turnsSoFar /\ ct \in Nat /\ ct \notin reported /\ Accepted(ct, n) /\ turnsSoFar \in Nat
  BY <1>1, <1>2, <1>3, <1>4, CapacityRecoveryAssumption DEF TurnFits, Turns, CapacityTyped, CountersTyped
<1>6. \A i \in 1..Len(childOut') : i \in Nat /\ (i \in 1..n \/ i > n)
  BY <1>1
<1>7. ASSUME NEW i \in 1..Len(childOut'), i > n
      PROVE  /\ Ending(childOut'[i]) /\ childOut'[i].turn = ct /\ childOut'[i].kind = k /\ ~Answer(childOut'[i])
             /\ \/ i = Len(childOut') /\ childOut'[i].type = "ended"
                \/ i + 1 = Len(childOut') /\ i = n + 1 /\ childOut'[i].type = "error"
  <2>1. i \notin 1..n
    BY <1>7
  <2>2. Ends(n, k, i)
    BY <1>1, <2>1
  <2> QED
    BY <1>4, <2>2 DEF Ends, Ending, Answer
<1>8. Numbered'
  <2>1. \A i \in 1..Len(childOut') :
          Answer(childOut'[i]) => childOut'[i].by # "nobody" /\ childOut'[i].gen \in 1..latestWork
    <3> TAKE i \in 1..Len(childOut')
    <3>1. CASE i \in 1..n
      BY <1>1, <3>1 DEF Numbered
    <3>2. CASE i > n
      BY <1>7, <3>2
    <3> QED
      BY <1>6, <3>1, <3>2
  <2> QED
    BY <1>2, <2>1 DEF Numbered, Answer
<1>9. \A t \in Turns : Unread(t)' <=> Unread(t)
  BY <1>2 DEF Unread
<1>10. TurnFits'
  <2>1. \A t \in Turns : t > turnsSoFar' => Unread(t)'
    BY <1>2, <1>3, <1>9 DEF TurnFits
  <2> QED
    BY <1>2, <2>1 DEF TurnFits
<1>11. ASSUME NEW t, NEW i \in 0..Len(childOut'), NEW j \in 0..n, j <= i, Accepted(t, j) PROVE Accepted(t, i)'
  <2>1. \A q \in 1..j : q \in 1..n /\ q \in 1..i
    BY <1>1, <1>11
  <2> QED
    BY <1>1, <1>2, <1>11, <2>1 DEF Accepted
<1>12. ASSUME NEW i \in 1..n
       PROVE  /\ LineFits(childOut[i])' /\ (Ending(childOut'[i]) => Accepted(childOut[i].turn, i - 1)')
              /\ childOut'[i].type = "error" => EndFollows(i)'
  <2>1. PICK c \in Lines : c = childOut[i]
    BY <1>1, LinesTyped
  <2>2. LineFits(c) /\ (Ending(c) => Accepted(c.turn, i - 1)) /\ (c.type = "error" => EndFollows(i))
    BY <1>1, <1>3, <2>1 DEF LinesFit
  <2>3. childOut'[i] = c
    BY <1>1, <2>1
  <2>4. LineFits(c)'
    BY <1>2, <1>9, <2>2 DEF LineFits
  <2>5. Ending(c) => Accepted(c.turn, i - 1)'
    <3>1. i - 1 \in 0..Len(childOut') /\ i - 1 \in 0..n /\ i - 1 <= i - 1
      BY <1>1
    <3> QED
      BY <1>11, <2>2, <3>1
  <2>6. c.type = "error" => EndFollows(i)'
    <3> SUFFICES ASSUME c.type = "error" PROVE EndFollows(i)'
      OBVIOUS
    <3>1. EndFollows(i)
      BY <2>2
    <3>2. i + 1 \in 1..n /\ i + 1 \in 1..Len(childOut')
      BY <1>1, <3>1 DEF EndFollows
    <3>3. childOut'[i + 1] = childOut[i + 1]
      BY <1>1, <3>2
    <3> QED
      BY <2>1, <2>3, <3>1, <3>2, <3>3 DEF EndFollows
  <2>7. (LineFits(childOut[i])' <=> LineFits(c)') /\ (Accepted(childOut[i].turn, i - 1)' <=> Accepted(c.turn, i - 1)')
    BY <2>3 DEF LineFits, Accepted, Unread
  <2> QED
    BY <2>3, <2>4, <2>5, <2>6, <2>7
<1>13. ASSUME NEW i \in 1..Len(childOut'), i > n
       PROVE  /\ LineFits(childOut[i])' /\ Accepted(childOut[i].turn, i - 1)'
              /\ childOut'[i].type = "error" => EndFollows(i)'
  <2>1. PICK c : c = childOut'[i]
    OBVIOUS
  <2>2. /\ Ending(c) /\ c.turn = ct /\ c.kind = k
        /\ \/ i = Len(childOut') /\ c.type = "ended"
           \/ i + 1 = Len(childOut') /\ i = n + 1 /\ c.type = "error"
    BY <1>7, <1>13, <2>1
  <2>3. c.type # "yes" /\ c.type # "no"
    BY <2>2 DEF Ending
  <2>4. LineFits(c)'
    BY <1>2, <1>5, <2>2, <2>3 DEF LineFits
  <2>5. Accepted(c.turn, i - 1)'
    <3>1. i - 1 \in 0..Len(childOut') /\ n \in 0..n /\ n <= i - 1
      BY <1>1, <1>13
    <3> QED
      BY <1>5, <1>11, <2>2, <3>1
  <2>6. c.type = "error" => EndFollows(i)'
    <3> SUFFICES ASSUME c.type = "error" PROVE EndFollows(i)'
      OBVIOUS
    <3>1. i + 1 = Len(childOut')
      BY <2>2
    <3>2. i + 1 \in 1..Len(childOut') /\ i + 1 > n /\ i + 1 + 1 # Len(childOut') /\ i + 1 # n + 1
      BY <1>1, <1>13, <3>1
    <3>3. childOut'[i + 1].type = "ended" /\ childOut'[i + 1].turn = ct /\ childOut'[i + 1].kind = k
      BY <1>7, <3>2
    <3> QED
      BY <2>1, <2>2, <3>2, <3>3 DEF EndFollows
  <2>7. (LineFits(childOut[i])' <=> LineFits(c)') /\ (Accepted(childOut[i].turn, i - 1)' <=> Accepted(c.turn, i - 1)')
    BY <2>1 DEF LineFits, Accepted, Unread
  <2> QED
    BY <2>1, <2>4, <2>5, <2>6, <2>7
<1>14. LinesFit'
  <2> SUFFICES ASSUME NEW i \in 1..Len(childOut')
               PROVE  /\ LineFits(childOut[i])' /\ (Ending(childOut'[i]) => Accepted(childOut[i].turn, i - 1)')
                      /\ childOut'[i].type = "error" => EndFollows(i)'
    BY DEF LinesFit, Ending
  <2> QED
    BY <1>6, <1>12, <1>13
<1>15. LinesFollow'
  <2> SUFFICES ASSUME NEW i \in 1..Len(childOut'), NEW j \in 1..Len(childOut'), i < j
               PROVE  Follows(childOut'[i], childOut'[j])
    BY DEF LinesFollow, Follows, Ending
  <2>1. CASE i \in 1..n /\ j \in 1..n
    BY <1>1, <1>3, <2>1 DEF LinesFollow
  <2>2. CASE i \in 1..n /\ j > n
    <3>1. PICK c \in Lines : c = childOut[i] /\ c = childOut'[i]
      BY <1>1, <2>2, LinesTyped
    <3>2. LineFits(c)
      BY <1>1, <1>3, <2>2, <3>1 DEF LinesFit
    <3>3. c.type # "no" => c.turn \in Nat /\ c.turn <= ct /\ (Ending(c) => c.turn < ct)
      BY <1>2, <1>4, <1>5, <3>2 DEF LineFits
    <3>4. Ending(childOut'[j]) /\ childOut'[j].turn = ct
      BY <1>7, <2>2
    <3> QED
      BY <3>1, <3>3, <3>4 DEF Follows, Ending
  <2>3. CASE i > n /\ j > n
    <3>1. /\ Ending(childOut'[j]) /\ childOut'[j].turn = ct /\ childOut'[i].turn = ct
          /\ childOut'[i].type = "error" \/ i = Len(childOut')
          /\ childOut'[j].type = "ended" \/ j = n + 1
      BY <1>7, <2>3
    <3>2. i # Len(childOut') /\ j # n + 1
      BY <1>1, <1>6, <2>3
    <3>3. childOut'[i].type = "error" /\ childOut'[j].type = "ended"
      BY <3>1, <3>2
    <3>4. ct <= ct
      BY <1>5
    <3> QED
      BY <3>1, <3>3, <3>4 DEF Follows
  <2>4. ~(i > n /\ j \in 1..n)
    BY <1>6
  <2> QED
    BY <1>6, <2>1, <2>2, <2>3, <2>4
<1>16. TurnsInOrder'
  BY <1>10, <1>14, <1>15 DEF TurnsInOrder
<1>17. StartsLast /\ AnswersLast /\ EndingsLast /\ TurnLast
  BY DEF LatestIsLast
<1>18. StartsLast'
  BY <1>2, <1>17 DEF StartsLast, Newest
<1>19. AnswersLast'
  <2> SUFFICES ASSUME NEW i \in 1..Len(childOut'), Answer(childOut'[i]), childOut'[i].gen = latestWork'
               PROVE  AnswerIsLast(i)'
    BY DEF AnswersLast, Newest, Answer
  <2>1. i \in 1..n /\ childOut'[i] = childOut[i]
    BY <1>1, <1>6, <1>7
  <2>2. AnswerIsLast(i)
    BY <1>1, <1>2, <1>17, <2>1 DEF AnswersLast, Newest
  <2>3. childIn = <<>> /\ childOut[i].type = "yes" /\ childOut[i].turn = ct
    BY <1>2, <1>4, <2>2 DEF AnswerIsLast
  <2>4. ASSUME NEW j \in 1..Len(childOut'), j > i
        PROVE  Ending(childOut'[j]) /\ childOut'[j].turn = ct
    <3>1. CASE j \in 1..n
      BY <1>1, <2>2, <2>3, <2>4, <3>1 DEF AnswerIsLast
    <3>2. CASE j > n
      BY <1>7, <3>2
    <3> QED
      BY <1>6, <3>1, <3>2
  <2> QED
    BY <1>2, <2>1, <2>3, <2>4 DEF AnswerIsLast, Ending
<1>20. EndingsLast'
  <2> SUFFICES ASSUME NEW i \in 1..Len(childOut'), Ending(childOut'[i]), turnWork'[childOut'[i].turn] = latestWork'
               PROVE  EndingIsLast(i)'
    BY DEF EndingsLast, Newest, Ending
  <2>1. i > n
    <3> SUFFICES ASSUME i \in 1..n PROVE FALSE
      BY <1>6
    <3>1. EndingIsLast(i)
      BY <1>1, <1>2, <1>17 DEF EndingsLast, Newest
    <3> QED
      BY <1>2, <3>1 DEF EndingIsLast
  <2>2. childOut'[i].turn = ct
    BY <1>7, <2>1
  <2>3. childIn = <<>> /\ activeTurn = ct
    BY <1>2, <1>4, <1>17, <2>2 DEF TurnLast, Newest
  <2>4. ASSUME NEW j \in 1..Len(childOut'), j > i
        PROVE  childOut'[j].type = "ended" /\ childOut'[j].turn = ct
    <3>1. j > n /\ j # n + 1
      BY <1>1, <1>6, <2>1, <2>4
    <3> QED
      BY <1>7, <3>1
  <2> QED
    BY <1>2, <2>2, <2>3, <2>4 DEF EndingIsLast
<1>21. TurnLast'
  BY <1>2 DEF TurnLast
<1> QED
  BY <1>8, <1>16, <1>18, <1>19, <1>20, <1>21 DEF LatestIsLast

LEMMA InFlightEnd ==
  ASSUME CapacityTyped, ChildEndsTurn, NEW by, InFlight(by)
  PROVE  InFlight(by)'
<1>1. PICK n \in Nat, k \in Kinds :
        n = Len(childOut) /\ Len(childOut') \in Nat /\ n < Len(childOut') /\ \A i \in 1..n : childOut'[i] = childOut[i]
  BY EndedLines
<1>2. \A i \in 1..n : i \in 1..Len(childOut')
  BY <1>1
<1>3. childIn' = childIn
  BY DEF ChildEndsTurn
<1> QED
  BY <1>1, <1>2, <1>3 DEF InFlight, Answer

-----------------------------------------------------------------------------
(* The work under way, action by action.                                    *)
childQueues == <<childIn, childOut, childTurn, turnsSoFar, turnWork, activeTurn, endedTurns, reported>>

LEMMA RestWork ==
  ASSUME Numbered, TurnsInOrder, LatestIsLast, UNCHANGED <<childQueues, latestWork>>
  PROVE  Numbered' /\ TurnsInOrder' /\ LatestIsLast'
<1>1. UNCHANGED <<childIn, childOut, childTurn, turnsSoFar, turnWork, activeTurn, endedTurns, reported, latestWork>>
  BY DEF childQueues
<1>2. TurnsInOrder'
  BY <1>1, TurnsInOrderKept
<1>3. Numbered'
  BY <1>1 DEF Numbered
<1>4. StartsLast' /\ TurnLast'
  BY <1>1 DEF LatestIsLast, StartsLast, TurnLast, Newest
<1>5. AnswersLast'
  BY <1>1 DEF LatestIsLast, AnswersLast, AnswerIsLast, Newest
<1>6. EndingsLast'
  BY <1>1 DEF LatestIsLast, EndingsLast, EndingIsLast, Newest
<1> QED
  BY <1>2, <1>3, <1>4, <1>5, <1>6 DEF LatestIsLast

(* What a step of a call comes to.                                          *)
CallClears(r) ==
  /\ subagent \/ (capacity # NoEntry /\ capacity.state = "running")
  /\ ForceClear /\ EndRun(r) /\ UNCHANGED <<childIn, owed>>
CallContinues(r) ==
  /\ IsWaiting(run[r].id) /\ capacity' = [capacity EXCEPT !.state = "running"]
  /\ SendStart(r, run[r].gen) /\ RunAt(r, "start") /\ owed' = FALSE /\ UNCHANGED <<entries, claim>>
CallLeaves(r) == EndRun(r) /\ UNCHANGED <<entryVars, childIn, owed>>
CallAsks(r) == ~subagent /\ RunAt(r, "manager") /\ UNCHANGED <<entryVars, childIn, owed>>

LEMMA RunStepCases ==
  ASSUME CallsFit, NEW r \in Runs, RunStep(r)
  PROVE  /\ CallClears(r) \/ (CallContinues(r) /\ ~subagent) \/ CallLeaves(r) \/ CallAsks(r)
         /\ run[r].at \in {"read", "manager", "covered", "switched"}
         /\ UNCHANGED <<latestWork, turnWork, switchVars, turnVars, childOut, childVars, reported, continueLost>>
<1>1. ASSUME SendContinue(r) PROVE CallContinues(r) \/ CallLeaves(r)
  BY <1>1 DEF SendContinue, CallContinues, CallLeaves, entryVars
<1>2. CASE RunRead(r)
  BY <1>1, <1>2 DEF RunRead, CallClears, CallAsks
<1>3. CASE RunAnswered(r)
  <2>1. ~subagent
    BY <1>3 DEF RunAnswered, CallsFit
  <2>2. run[r].at = "switched" /\ IsEntry(run[r].id) => capacity # NoEntry /\ capacity.state = "running"
    BY DEF CallsFit, IsEntry
  <2> QED
    BY <1>1, <1>3, <2>1, <2>2 DEF RunAnswered, CallClears, CallLeaves
<1> QED
  BY <1>2, <1>3 DEF RunStep

(* Where a Continue is sent nothing is under way.                           *)
LEMMA CallRests ==
  ASSUME CapacityTyped, StoppedRests, NEW r \in Runs, IsWaiting(run[r].id)
  PROVE  childIn = <<>> /\ childOut = <<>> /\ childTurn = 0
<1>1. Stopped /\ run[r].id = capacity.id
  BY DEF IsWaiting, IsEntry, Stopped
<1>2. ~EndToCome
  BY <1>1 DEF EndToCome
<1> QED
  BY <1>1, <1>2 DEF StoppedRests

LEMMA ClaimRests ==
  ASSUME StoppedRests, ClaimFits, switchAt \in {"login", "read"}, claim # NoClaim
  PROVE  Stopped /\ childIn = <<>> /\ childOut = <<>> /\ childTurn = 0
<1>1. Stopped
  BY DEF ClaimFits, Stopped, IsEntry
<1>2. ~EndToCome
  BY DEF EndToCome
<1> QED
  BY <1>1, <1>2 DEF StoppedRests

LEMMA WorkStep ==
  ASSUME CapacityTyped, EntryIsLatest, Numbered, TurnsInOrder, LatestIsLast, EntryInOrder,
         [CapacityNext]_capacityVars, ~continueLost'
  PROVE  Numbered' /\ TurnsInOrder' /\ LatestIsLast'
<1>0. StoppedRests /\ ClaimFits /\ CallsFit /\ EntryNumbered /\ latestWork \in Works /\ Works \subseteq Nat
      /\ MaxWork \in Nat
  BY CapacityRecoveryAssumption DEF EntryInOrder, CapacityTyped, CountersTyped, Works
<1>1. CASE UNCHANGED capacityVars
  BY <1>1, RestWork DEF capacityVars, workVars, turnVars, childVars, childQueues
<1>2. CASE UserStart
  <2>1. "user" \in Senders /\ "user" # "nobody" /\ latestWork + 1 \in Works /\ latestWork + 1 # 0
    BY <1>0, <1>2 DEF UserStart, Senders, Works
  <2>2. SendStart("user", latestWork + 1) /\ latestWork' = latestWork + 1
        /\ UNCHANGED <<childOut, childTurn, turnsSoFar, turnWork, activeTurn, endedTurns, reported>>
    BY <1>2 DEF UserStart, childVars
  <2> QED
    BY <2>1, <2>2, SendWork
<1>3. CASE RecoveryTimer
  BY <1>3, RestWork DEF RecoveryTimer, workVars, turnVars, childVars, childQueues
<1>4. CASE SwitchAsked
  BY <1>4, RestWork DEF SwitchAsked, workVars, turnVars, childVars, childQueues
<1>5. CASE SwitchDrains \/ SwitchGivenUp
  BY <1>5, RestWork DEF SwitchDrains, SwitchGivenUp, workVars, turnVars, childVars, childQueues
<1>6. CASE SwitchContinues
  <2>1. UNCHANGED <<childOut, childTurn, turnsSoFar, turnWork, activeTurn, endedTurns, reported, latestWork>>
    BY <1>6 DEF SwitchContinues, workVars, turnVars, childVars
  <2>2. CASE childIn' = childIn
    BY <2>1, <2>2, RestWork DEF childQueues
  <2>3. CASE switchAt = "read" /\ ~subagent /\ SendStart("switch", latestWork)
    <3>1. claim # NoClaim /\ capacity # NoEntry
      BY <1>0, <2>3 DEF ClaimFits, IsEntry
    <3>2. childIn = <<>> /\ childOut = <<>> /\ childTurn = 0
      BY <1>0, <2>3, <3>1, ClaimRests
    <3>3. "switch" \in Senders /\ "switch" # "nobody" /\ latestWork # 0
      BY <1>0, <3>1 DEF Senders, EntryNumbered
    <3> QED
      BY <1>0, <2>1, <2>3, <3>2, <3>3, SendWork
  <2> QED
    BY <1>6, <2>2, <2>3 DEF SwitchContinues
<1>7. ASSUME NEW r \in Runs, RunStep(r)
      PROVE  Numbered' /\ TurnsInOrder' /\ LatestIsLast'
  <2>1. UNCHANGED <<childOut, childTurn, turnsSoFar, turnWork, activeTurn, endedTurns, reported, latestWork>>
    BY <1>0, <1>7, RunStepCases DEF turnVars, childVars
  <2>2. CASE childIn' = childIn
    BY <2>1, <2>2, RestWork DEF childQueues
  <2>3. CASE CallContinues(r)
    <3>1. childIn = <<>> /\ childOut = <<>> /\ childTurn = 0
      BY <1>0, <2>3, CallRests DEF CallContinues
    <3>2. capacity # NoEntry /\ run[r].gen = latestWork
      BY <2>3 DEF CallContinues, IsWaiting, IsEntry, EntryIsLatest
    <3>3. r \in Senders /\ r # "nobody" /\ latestWork # 0
      BY <1>0, <3>2, CapacityRecoveryAssumption DEF Senders, EntryNumbered
    <3>4. SendStart(r, latestWork)
      BY <2>3, <3>2 DEF CallContinues
    <3> QED
      BY <1>0, <2>1, <3>1, <3>3, <3>4, SendWork
  <2> QED
    BY <1>0, <1>7, <2>2, <2>3, RunStepCases DEF CallClears, CallLeaves, CallAsks
<1>8. CASE ShimReads
  <2>1. FirstLine(childOut[1].type) /\ Notes(childOut[1])
    BY <1>8, ReadNotes
  <2>2. Activates(childOut[1])
    BY <1>8, ActiveRead
  <2>3. Numbered'
    BY <2>1, NumberedRead
  <2>4. TurnsInOrder'
    BY <2>1, TurnsInOrderRead
  <2>5. LatestIsLast'
    BY <2>1, <2>2, LatestIsLastRead
  <2> QED
    BY <2>3, <2>4, <2>5
<1>9. CASE ContinueTimesOut
  BY <1>9 DEF ContinueTimesOut
<1>10. CASE ChildTakesStart
  BY <1>10, TakeWork
<1>11. CASE ChildEndsTurn
  BY <1>11, EndWork
<1> QED
  BY <1>1, <1>2, <1>3, <1>4, <1>5, <1>6, <1>7, <1>8, <1>9, <1>10, <1>11 DEF CapacityNext, SwitchStep

(* Who awaits an answer has it under way.                                   *)
LEMMA WaitedKept ==
  ASSUME Waited, \A b \in Runs \cup {"switch", "user"} : InFlight(b) => InFlight(b)',
         \A r \in Runs : run'[r].at = "start" => run[r].at = "start" \/ InFlight(r)',
         switchAt' = "continue" => switchAt = "continue" \/ InFlight("switch")',
         userStart' => userStart \/ InFlight("user")'
  PROVE  Waited'
<1>1. \A r \in Runs : run'[r].at = "start" => InFlight(r)'
  BY DEF Waited
<1>2. switchAt' = "continue" => InFlight("switch")'
  BY DEF Waited
<1>3. userStart' => InFlight("user")'
  BY DEF Waited
<1> QED
  BY <1>1, <1>2, <1>3 DEF Waited

LEMMA WaitedRead ==
  ASSUME CapacityTyped, Numbered, Waited, ShimReads
  PROVE  Waited'
<1> DEFINE l == childOut[1]
<1>1. FirstLine(l.type) /\ Notes(l)
  BY ReadNotes
<1>2. l = Head(childOut) /\ l \in Lines
  BY <1>1, LineRead
<1>3. l.by \in Senders
  BY <1>2 DEF Lines
<1>4. CASE Answer(l)
  <2>1. Resumes(l.by) /\ userStart' = (userStart /\ l.by # "user")
    BY <1>2, <1>4 DEF ShimReads, ReadAccepted, ReadRejected, ReadFailure, ReadEnd, FirstLine, Answer
  <2> HIDE DEF l
  <2>2. \A b : InFlight(b) /\ l.by # b => InFlight(b)'
    BY <1>1, InFlightRead DEF l
  <2>3. \A r \in Runs : run'[r].at = "start" => run[r].at = "start" /\ l.by # r
    <3> SUFFICES ASSUME NEW r \in Runs, run'[r].at = "start" PROVE run[r].at = "start" /\ l.by # r
      OBVIOUS
    <3>1. l.by # r
      BY <1>3, <2>1, ResumesEffect
    <3> QED
      BY <1>3, <2>1, <3>1, ResumesEffect
  <2>4. switchAt' = "continue" => switchAt = "continue" /\ l.by # "switch"
    BY <1>3, <2>1, ResumesEffect
  <2>5. \A r \in Runs : run'[r].at = "start" => InFlight(r)'
    BY <2>2, <2>3 DEF Waited
  <2>6. switchAt' = "continue" => InFlight("switch")'
    BY <2>2, <2>4 DEF Waited
  <2>7. userStart' => InFlight("user")'
    BY <2>1, <2>2 DEF Waited
  <2> QED
    BY <2>5, <2>6, <2>7 DEF Waited
<1>5. CASE ~Answer(l)
  <2>1. UNCHANGED <<run, switchAt, userStart>>
    BY <1>2, <1>5 DEF ShimReads, ReadAccepted, ReadRejected, ReadFailure, ReadEnd, FirstLine, Answer, turnVars, switchVars
  <2>2. \A b : InFlight(b) => InFlight(b)'
    BY <1>1, <1>5, InFlightRead
  <2> QED
    BY <2>1, <2>2, WaitedKept
<1> QED
  BY <1>4, <1>5

LEMMA WaitedStep ==
  ASSUME CapacityTyped, Numbered, Waited, CallsFit, [CapacityNext]_capacityVars, ~continueLost'
  PROVE  Waited'
<1>0. latestWork \in Works /\ Works \subseteq Nat /\ MaxWork \in Nat /\ "user" \notin Runs /\ "switch" \notin Runs
  BY CapacityRecoveryAssumption DEF CapacityTyped, CountersTyped, Works
<1>a. ASSUME UNCHANGED <<childIn, childOut>> PROVE \A b : InFlight(b) => InFlight(b)'
  BY <1>a DEF InFlight
<1>1. CASE UNCHANGED capacityVars
  BY <1>1, <1>a, WaitedKept DEF capacityVars, turnVars, switchVars
<1>2. CASE UserStart
  <2>1. "user" \in Senders /\ latestWork + 1 \in Works /\ SendStart("user", latestWork + 1) /\ childOut' = childOut
    BY <1>0, <1>2 DEF UserStart, Senders, Works
  <2>2. InFlight("user")' /\ \A b : InFlight(b) => InFlight(b)'
    BY <2>1, InFlightSend
  <2>3. UNCHANGED <<run, switchAt>>
    BY <1>2 DEF UserStart, switchVars
  <2> QED
    BY <2>2, <2>3, WaitedKept
<1>3. CASE RecoveryTimer
  <2>1. PICK r \in Runs : run'[r].at = "read" /\ \A q \in Runs : q # r => run'[q] = run[q]
    BY <1>3, RecoveryTimerEffect
  <2>2. \A q \in Runs : run'[q].at = "start" => run[q].at = "start"
    BY <2>1
  <2> QED
    BY <1>3, <1>a, <2>2, WaitedKept DEF RecoveryTimer, turnVars, switchVars
<1>4. CASE SwitchAsked \/ SwitchGivenUp
  <2>1. \A q \in Runs : run'[q].at = "start" => run[q].at = "start"
    BY <1>4, CoveredEffect DEF SwitchAsked, SwitchGivenUp, RunPositions
  <2> QED
    BY <1>4, <1>a, <2>1, WaitedKept DEF SwitchAsked, SwitchGivenUp, turnVars
<1>5. CASE SwitchDrains
  BY <1>5, <1>a, WaitedKept DEF SwitchDrains, turnVars
<1>6. CASE SwitchContinues
  <2>1. UNCHANGED <<childOut, userStart>>
    BY <1>6 DEF SwitchContinues, turnVars
  <2>2. CASE switchAt' # "continue" /\ childIn' = childIn
    <3>1. \A q \in Runs : run'[q].at = "start" => run[q].at = "start"
      <4>1. Covered("covered", "switched") \/ run' = run
        BY <1>6 DEF SwitchContinues
      <4> QED
        BY <4>1, CoveredEffect DEF RunPositions
    <3> QED
      BY <1>a, <2>1, <2>2, <3>1, WaitedKept
  <2>3. CASE SendStart("switch", latestWork) /\ UNCHANGED run
    <3>1. "switch" \in Senders
      BY DEF Senders
    <3>2. InFlight("switch")' /\ \A b : InFlight(b) => InFlight(b)'
      BY <1>0, <2>1, <2>3, <3>1, InFlightSend
    <3> QED
      BY <2>1, <2>3, <3>2, WaitedKept
  <2> QED
    BY <1>6, <2>2, <2>3 DEF SwitchContinues
<1>7. ASSUME NEW r \in Runs, RunStep(r) PROVE Waited'
  <2>1. UNCHANGED <<childOut, userStart, switchAt>>
    BY <1>7, RunStepCases DEF turnVars, switchVars
  <2>2. CASE CallContinues(r)
    <3>1. r \in Senders /\ run[r].gen \in Works /\ SendStart(r, run[r].gen) /\ RunAt(r, "start")
      BY <2>2 DEF CallContinues, Senders, CapacityTyped, EntryTyped
    <3>2. InFlight(r)' /\ \A b : InFlight(b) => InFlight(b)'
      BY <2>1, <3>1, InFlightSend
    <3>3. \A q \in Runs : q # r => run'[q] = run[q]
      BY <3>1, RunAtEffect DEF RunPositions
    <3> QED
      BY <2>1, <3>2, <3>3, WaitedKept
  <2>3. CASE (EndRun(r) \/ RunAt(r, "manager")) /\ childIn' = childIn
    <3>1. \A q \in Runs : run'[q].at = "start" => run[q].at = "start"
      BY <2>3, EndRunEffect, RunAtEffect DEF RunPositions
    <3> QED
      BY <1>a, <2>1, <2>3, <3>1, WaitedKept
  <2> QED
    BY <1>7, <2>2, <2>3, RunStepCases DEF CallClears, CallLeaves, CallAsks
<1>8. CASE ShimReads
  BY <1>8, WaitedRead
<1>9. CASE ContinueTimesOut
  BY <1>9 DEF ContinueTimesOut
<1>10. CASE ChildTakesStart
  <2>1. UNCHANGED <<run, switchAt, userStart>>
    BY <1>10 DEF ChildTakesStart, turnVars, switchVars
  <2>2. \A b : InFlight(b) => InFlight(b)'
    BY <1>10, InFlightTake
  <2> QED
    BY <2>1, <2>2, WaitedKept
<1>11. CASE ChildEndsTurn
  <2>1. UNCHANGED <<run, switchAt, userStart>>
    BY <1>11 DEF ChildEndsTurn, turnVars, switchVars
  <2>2. \A b : InFlight(b) => InFlight(b)'
    BY <1>11, InFlightEnd
  <2> QED
    BY <2>1, <2>2, WaitedKept
<1> QED
  BY <1>1, <1>2, <1>3, <1>4, <1>5, <1>6, <1>7, <1>8, <1>9, <1>10, <1>11 DEF CapacityNext, SwitchStep

-----------------------------------------------------------------------------
(* What a line that is read makes of the entry.                             *)
EntryGone == capacity' = NoEntry /\ claim' = NoClaim
EntryKept == UNCHANGED <<capacity, claim>> /\ (owed => owed')
EntryKnown ==
  /\ capacity # NoEntry /\ capacity.state = "waiting" /\ claim' = claim /\ (owed => owed')
  /\ \E src \in 0..MaxTurns : capacity' = [capacity EXCEPT !.src = src]
EntryMade(turn) ==
  /\ capacity' = [id |-> entries + 1, gen |-> latestWork, src |-> turn, state |-> "waiting", timer |-> TRUE]
  /\ claim' = NoClaim
  /\ owed => owed'
  /\ ~subagent /\ turn \notin reported => owed'

LEMMA ForceClearGone ==
  ASSUME ClaimFits, ForceClear
  PROVE  EntryGone
BY DEF ForceClear, EntryGone, ClaimFits

LEMMA FailedCases ==
  ASSUME CapacityTyped, ClaimFits, NEW kind, NEW gen, NEW turn \in 0..MaxTurns, Failed(kind, gen, turn)
  PROVE  \/ EntryGone \/ EntryKnown
         \/ EntryKept /\ gen # latestWork
         \/ EntryMade(turn) /\ gen = latestWork /\ kind = "capacity"
<1>1. CASE kind # "capacity"
  BY <1>1, ForceClearGone DEF Failed
<1>2. kind = "capacity" =>
        (owed => owed') /\ (~subagent /\ gen = latestWork /\ turn \notin reported => owed') /\ ScheduleRecovery(gen, turn)
  BY DEF Failed
<1>3. CASE kind = "capacity" /\ gen # latestWork
  BY <1>2, <1>3 DEF ScheduleRecovery, EntryKept, entryVars
<1>4. CASE kind = "capacity" /\ gen = latestWork /\ SameFailure(gen, turn)
  <2>1. capacity # NoEntry /\ capacity.state = "waiting" /\ capacity.src \in 0..MaxTurns
    BY <1>4, EntriesAreMade DEF SameFailure, CapacityTyped, EntriesMade
  <2>2. /\ capacity' = [capacity EXCEPT !.src = IF capacity.src = 0 THEN turn ELSE capacity.src]
        /\ UNCHANGED <<entries, claim>>
    BY <1>2, <1>4 DEF ScheduleRecovery
  <2> QED
    BY <1>2, <1>4, <2>1, <2>2 DEF EntryKnown
<1>5. CASE kind = "capacity" /\ gen = latestWork /\ ~SameFailure(gen, turn)
  <2>1. /\ capacity' = [id |-> entries + 1, gen |-> latestWork, src |-> turn, state |-> "waiting", timer |-> TRUE]
        /\ claim' = IF IsEntry(claim.id) THEN NoClaim ELSE claim
    BY <1>2, <1>5 DEF ScheduleRecovery
  <2>2. claim' = NoClaim
    BY <2>1 DEF ClaimFits
  <2> QED
    BY <1>2, <1>5, <2>1, <2>2 DEF EntryMade
<1> QED
  BY <1>1, <1>3, <1>4, <1>5

(* The work a line reports the end of, and its turn.                        *)
WorkOf(l) == IF l.type = "no" THEN l.gen ELSE turnWork[l.turn]
TurnOf(l) == IF l.type = "no" THEN 0 ELSE l.turn

LEMMA ReadEffect ==
  ASSUME CapacityInv, Numbered, TurnsInOrder, ClaimFits, ShimReads
  PROVE  \E who \in Senders :
           /\ Resumes(who) /\ (Answer(childOut[1]) => who = childOut[1].by)
           /\ ~Answer(childOut[1]) => who = "user"
           /\ \/ EntryGone
              \/ EntryKept /\ (who = "switch" => ~IsEntry(claim.id))
              \/ EntryKnown /\ childOut[1].type # "yes"
              \/ /\ EntryMade(TurnOf(childOut[1])) /\ childOut[1].type # "yes"
                 /\ Newest(WorkOf(childOut[1])) /\ WorkOf(childOut[1]) # 0 /\ childOut[1].kind = "capacity"
<1> DEFINE l == childOut[1]
<1>0. CapacityTyped /\ EntryIsLatest /\ Answers /\ Owned
  BY DEF CapacityInv
<1>1. FirstLine(l.type)
  BY <1>0, ReadNotes
<1>2. l = Head(childOut) /\ l \in Lines /\ 1 \in 1..Len(childOut) /\ (l.type # "no" => l.turn \in Turns)
  BY <1>0, <1>1, LineRead, Shift
<1>3. l.by \in Senders /\ Awaited(l) /\ "user" \in Senders /\ "user" \notin Runs /\ "switch" \notin Runs
      /\ latestWork \in Nat /\ 0 \in 0..MaxTurns /\ Turns \subseteq 0..MaxTurns
  BY <1>0, <1>2, CapacityRecoveryAssumption DEF Lines, Answers, Senders, CapacityTyped, CountersTyped, Works, Turns
<1>4. CASE ReadAccepted
  <2>1. l.type = "yes" /\ Answer(l) /\ Resumes(l.by)
    BY <1>2, <1>4 DEF ReadAccepted, FirstLine, Answer
  <2>2. CASE l.by \in Runs
    <3>1. ForceClear \/ UNCHANGED entryVars
      BY <1>2, <1>4, <2>2 DEF ReadAccepted
    <3>2. owed' = owed /\ l.by # "switch"
      BY <1>3, <1>4, <2>2 DEF ReadAccepted
    <3> QED
      BY <1>3, <2>1, <3>1, <3>2, ForceClearGone DEF EntryKept, entryVars
  <2>3. CASE l.by = "switch"
    <3>1. capacity' = (IF IsEntry(claim.id) THEN NoEntry ELSE capacity) /\ claim' = NoClaim /\ owed' = owed
      BY <1>2, <1>3, <1>4, <2>3 DEF ReadAccepted
    <3>2. ~IsEntry(claim.id) => claim = NoClaim
      BY DEF ClaimFits
    <3> QED
      BY <1>3, <2>1, <3>1, <3>2 DEF EntryGone, EntryKept
  <2>4. CASE l.by \notin Runs /\ l.by # "switch"
    <3>1. UNCHANGED entryVars /\ owed' = owed
      BY <1>2, <1>4, <2>4 DEF ReadAccepted
    <3> QED
      BY <1>3, <2>1, <2>4, <3>1 DEF EntryKept, entryVars
  <2> QED
    BY <2>2, <2>3, <2>4
<1>5. CASE ReadRejected
  <2>1. l.type = "no" /\ Answer(l) /\ Resumes(l.by)
    BY <1>2, <1>5 DEF ReadRejected, FirstLine, Answer
  <2>2. CASE UNCHANGED <<entryVars, owed, reported>> /\ l.by \in {"user", "nobody"}
    <3>1. l.by # "switch"
      BY <2>2
    <3> QED
      BY <1>3, <2>1, <2>2, <3>1 DEF EntryKept, entryVars
  <2>3. CASE Failed(l.kind, l.gen, 0)
    <3>1. \/ EntryGone \/ EntryKnown
          \/ EntryKept /\ l.gen # latestWork
          \/ EntryMade(0) /\ l.gen = latestWork /\ l.kind = "capacity"
      BY <1>0, <1>3, <2>3, FailedCases
    <3>2. l.gen # latestWork => l.by # "switch"
      BY <1>3 DEF Awaited
    <3>3. l.gen # 0 /\ TurnOf(l) = 0 /\ WorkOf(l) = l.gen /\ l.type # "yes"
      BY <1>2, <1>3, <2>1 DEF Numbered, TurnOf, WorkOf
    <3> HIDE DEF l
    <3> QED
      BY <1>3, <2>1, <3>1, <3>2, <3>3 DEF l, Newest
  <2> QED
    BY <1>2, <1>5, <2>2, <2>3 DEF ReadRejected
<1>6. ASSUME Ending(l), Failed(l.kind, GenerationOf(l.turn), l.turn), UNCHANGED <<run, switchVars>>
      PROVE  /\ Resumes("user") /\ ~Answer(l)
             /\ \/ EntryGone \/ EntryKept \/ (EntryKnown /\ l.type # "yes")
                \/ /\ EntryMade(TurnOf(l)) /\ l.type # "yes" /\ Newest(WorkOf(l)) /\ WorkOf(l) # 0
                   /\ l.kind = "capacity"
  <2>1. Resumes("user") /\ ~Answer(l) /\ l.type # "no" /\ l.type # "yes"
    BY <1>3, <1>6 DEF Resumes, Answer, Ending
  <2>2. turnWork[l.turn] # 0
    <3>1. Accepted(l.turn, 1 - 1)
      BY <1>2, <1>6 DEF TurnsInOrder, LinesFit
    <3>2. 1 - 1 = 0 /\ 1..0 = {}
      OBVIOUS
    <3> QED
      BY <3>1, <3>2 DEF Accepted
  <2>3. GenerationOf(l.turn) = WorkOf(l) /\ TurnOf(l) = l.turn /\ WorkOf(l) # 0
    BY <2>1, <2>2 DEF GenerationOf, WorkOf, TurnOf
  <2>4. l.turn \in 0..MaxTurns
    BY <1>2, <1>3, <2>1
  <2>5. \/ EntryGone \/ EntryKnown \/ EntryKept
        \/ EntryMade(l.turn) /\ GenerationOf(l.turn) = latestWork /\ l.kind = "capacity"
    BY <1>0, <1>6, <2>4, FailedCases
  <2> QED
    BY <2>1, <2>3, <2>5 DEF Newest
<1>7. CASE ReadFailure
  <2>1. Ending(l) /\ Failed(l.kind, GenerationOf(l.turn), l.turn) /\ UNCHANGED <<run, switchVars>>
    BY <1>2, <1>7 DEF ReadFailure, FirstLine, Ending
  <2> HIDE DEF l
  <2> QED
    BY <1>3, <1>6, <2>1 DEF l
<1>8. CASE ReadEnd
  <2>1. Ending(l) /\ UNCHANGED <<run, switchVars>>
    BY <1>2, <1>8 DEF ReadEnd, FirstLine, Ending
  <2>2. CASE Failed(l.kind, GenerationOf(l.turn), l.turn)
    <3> HIDE DEF l
    <3> QED
      BY <1>3, <1>6, <2>1, <2>2 DEF l
  <2>3. CASE ClearOfTurn(GenerationOf(l.turn), l.turn) /\ UNCHANGED owed
    <3>1. Resumes("user") /\ ~Answer(l)
      BY <1>3, <2>1 DEF Resumes, Answer, Ending
    <3>2. EntryGone \/ EntryKept
      BY <2>3, ForceClearGone DEF ClearOfTurn, EntryKept, entryVars
    <3> QED
      BY <1>3, <3>1, <3>2
  <2> QED
    BY <1>2, <1>8, <2>2, <2>3 DEF ReadEnd
<1> QED
  BY <1>4, <1>5, <1>7, <1>8 DEF ShimReads

-----------------------------------------------------------------------------
(* The entry behind a line that is read.                                    *)
LEMMA StoppedReads ==
  ASSUME CapacityTyped, StoppedRests, FirstLine(childOut[1].type), Stopped
  PROVE  /\ childOut[1].type = "ended" /\ Len(childOut) = 1 /\ childOut' = <<>>
         /\ childIn = <<>> /\ childTurn = 0
<1>1. childOut # <<>> /\ childOut' \in Seq(Lines) /\ Len(childOut') = Len(childOut) - 1
  BY LineRead
<1>2. childIn = <<>> /\ childTurn = 0 /\ EndToCome
  BY <1>1 DEF StoppedRests
<1>3. childOut[1].type = "ended" /\ Len(childOut) = 1
  BY <1>2 DEF EndToCome
<1> QED
  BY <1>1, <1>2, <1>3

LEMMA KeptStopped ==
  ASSUME CapacityTyped, ClaimedOwned, NEW who \in Senders, Resumes(who), EntryKept,
         who = "switch" => ~IsEntry(claim.id), Stopped'
  PROVE  Stopped
<1>1. capacity' = capacity /\ switchAt' = IF who = "switch" THEN "off" ELSE switchAt
  BY ResumesEffect DEF EntryKept
<1>2. capacity # NoEntry /\ (capacity.state = "waiting" \/ (capacity.state = "claimedBySwitch" /\ switchAt' # "continue"))
  BY <1>1 DEF Stopped
<1>3. CASE capacity.state = "claimedBySwitch" /\ who = "switch"
  BY <1>2, <1>3 DEF ClaimedOwned, IsEntry
<1> QED
  BY <1>1, <1>2, <1>3 DEF Stopped

(* A new entry is made of the last line but the end of the turn.            *)
LEMMA MadeRests ==
  ASSUME CapacityTyped, TurnsInOrder, LatestIsLast, FirstLine(childOut[1].type), Notes(childOut[1]),
         Activates(childOut[1]), Newest(WorkOf(childOut[1])), childOut[1].type # "yes"
  PROVE  /\ childIn' = <<>> /\ childTurn' = 0
         /\ \/ childOut' = <<>>
            \/ /\ childOut[1].type = "error" /\ activeTurn' = childOut[1].turn
               /\ Len(childOut') = 1 /\ childOut'[1].type = "ended" /\ childOut'[1].turn = childOut[1].turn
<1> DEFINE l == childOut[1]
<1>1. /\ 1 \in 1..Len(childOut) /\ l \in Lines /\ Len(childOut') = Len(childOut) - 1 /\ Len(childOut) \in Nat
      /\ l.type # "no" => l.turn \in Turns
  BY Shift
<1>2. childOut' \in Seq(Lines) /\ UNCHANGED <<childIn, childTurn>> /\ Turns \subseteq Nat
  BY LineRead, CapacityRecoveryAssumption DEF Notes, Turns
<1>3. TurnFits /\ LinesFit /\ LinesFollow /\ AnswersLast /\ EndingsLast
  BY DEF TurnsInOrder, LatestIsLast
<1>4. l.type \in {"yes", "no", "error", "ended"}
  BY <1>1 DEF Lines
<1> HIDE DEF l
<1>5. Len(childOut) = 1 => childOut' = <<>>
  BY <1>1, <1>2
<1>6. CASE l.type = "no"
  <2>1. AnswerIsLast(1)
    BY <1>1, <1>3, <1>6 DEF AnswersLast, Answer, WorkOf, l
  <2>2. 2 \notin 1..Len(childOut)
    BY <1>6, <2>1 DEF AnswerIsLast, l
  <2>3. Len(childOut) = 1
    BY <1>1, <2>2
  <2>4. childIn = <<>> /\ childTurn = 0
    BY <1>6, <2>1 DEF AnswerIsLast, l
  <2> QED
    BY <1>2, <1>5, <2>3, <2>4
<1>7. CASE Ending(l)
  <2>1. EndingIsLast(1) /\ l.turn \in Nat
    BY <1>1, <1>2, <1>3, <1>7 DEF EndingsLast, Ending, WorkOf, l
  <2>2. childIn = <<>> /\ childTurn = 0 /\ activeTurn = l.turn
    BY <2>1 DEF EndingIsLast, l
  <2>3. ASSUME NEW j \in 1..Len(childOut), j > 1
        PROVE  childOut[j].type = "ended" /\ childOut[j].turn = l.turn
    BY <2>1, <2>3 DEF EndingIsLast, l
  <2>4. ASSUME NEW i \in 1..Len(childOut), NEW j \in 1..Len(childOut), i < j, childOut[i].type = "ended",
               childOut[i].turn = l.turn
        PROVE  FALSE
    <3>1. j > 1
      BY <1>1, <2>4
    <3>2. childOut[j].type = "ended" /\ childOut[j].turn = l.turn
      BY <2>3, <3>1
    <3>3. Follows(childOut[i], childOut[j])
      BY <1>3, <2>4 DEF LinesFollow
    <3>4. l.turn < l.turn
      BY <2>4, <3>2, <3>3 DEF Follows
    <3> QED
      BY <2>1, <3>4
  <2>5. CASE l.type = "ended"
    <3>1. 2 \notin 1..Len(childOut)
      BY <1>1, <2>4, <2>5 DEF l
    <3>2. Len(childOut) = 1
      BY <1>1, <3>1
    <3> QED
      BY <1>2, <1>5, <2>2, <3>2
  <2>6. CASE l.type = "error"
    <3>1. 2 \in 1..Len(childOut) /\ childOut[2].type = "ended" /\ childOut[2].turn = l.turn
      <4>1. EndFollows(1)
        BY <1>1, <1>3, <2>6 DEF LinesFit, l
      <4>2. 1 + 1 = 2
        OBVIOUS
      <4> QED
        BY <4>1, <4>2 DEF EndFollows, l
    <3>2. 3 \notin 1..Len(childOut)
      BY <2>4, <3>1
    <3>3. Len(childOut) = 2
      BY <1>1, <3>1, <3>2
    <3>4. Len(childOut') = 1 /\ 1 \in 1..Len(childOut')
      BY <1>1, <3>3
    <3>5. childOut'[1] = childOut[1 + 1]
      BY <3>4, Shift
    <3>6. activeTurn' = l.turn
      BY <2>2, <2>6 DEF Activates, l
    <3> QED
      BY <1>2, <2>2, <2>6, <3>1, <3>4, <3>5, <3>6 DEF l
  <2> QED
    BY <1>7, <2>5, <2>6 DEF Ending
<1> QED
  BY <1>4, <1>6, <1>7 DEF Ending, l

(* EntryMade is a new entry, that waits and that no call knows.             *)
LEMMA MadeIsNew ==
  ASSUME CapacityTyped, NEW turn, EntryMade(turn), NEW who \in Senders, Resumes(who)
  PROVE  /\ capacity'.state = "waiting" /\ capacity'.src = turn /\ capacity'.id = entries + 1
         /\ \A r \in Runs : run'[r].id # capacity'.id
<1>1. capacity'.state = "waiting" /\ capacity'.src = turn /\ capacity'.id = entries + 1
  BY DEF EntryMade
<1>2. run' \in RunTable /\ entries \in Nat
  BY ResumesEffect DEF CapacityTyped, EntryTyped
<1>3. \A r \in Runs : run'[r].id \in 0..entries
  BY <1>2 DEF RunTable
<1>4. entries + 1 \notin 0..entries
  BY <1>2
<1> QED
  BY <1>1, <1>3, <1>4

LEMMA StoppedRestsRead ==
  ASSUME CapacityInv, Numbered, TurnsInOrder, LatestIsLast, EntryInOrder, ShimReads
  PROVE  StoppedRests'
<1>0. CapacityTyped /\ ClaimedOwned /\ StoppedRests /\ ClaimFits
  BY DEF CapacityInv, Owned, EntryInOrder
<1>1. FirstLine(childOut[1].type) /\ Notes(childOut[1]) /\ Activates(childOut[1])
  BY <1>0, ReadNotes, ActiveRead
<1>2. PICK who \in Senders :
        /\ Resumes(who)
        /\ \/ EntryGone
           \/ EntryKept /\ (who = "switch" => ~IsEntry(claim.id))
           \/ EntryKnown
           \/ EntryMade(TurnOf(childOut[1])) /\ childOut[1].type # "yes" /\ Newest(WorkOf(childOut[1]))
  BY <1>0, ReadEffect
<1>3. CASE Stopped
  <2>1. childOut' = <<>> /\ childIn = <<>> /\ childTurn = 0
    BY <1>0, <1>1, <1>3, StoppedReads
  <2> QED
    BY <1>1, <2>1 DEF StoppedRests, Notes
<1>4. CASE ~Stopped /\ EntryGone
  BY <1>4 DEF EntryGone, StoppedRests, Stopped
<1>5. CASE ~Stopped /\ EntryKept /\ (who = "switch" => ~IsEntry(claim.id))
  BY <1>0, <1>2, <1>5, KeptStopped DEF StoppedRests
<1>6. CASE ~Stopped /\ EntryKnown
  BY <1>6 DEF EntryKnown, Stopped
<1>7. CASE EntryMade(TurnOf(childOut[1])) /\ childOut[1].type # "yes" /\ Newest(WorkOf(childOut[1]))
  <2>1. /\ childIn' = <<>> /\ childTurn' = 0
        /\ \/ childOut' = <<>>
           \/ /\ childOut[1].type = "error" /\ activeTurn' = childOut[1].turn
              /\ Len(childOut') = 1 /\ childOut'[1].type = "ended" /\ childOut'[1].turn = childOut[1].turn
    BY <1>0, <1>1, <1>7, MadeRests
  <2>2. capacity'.src = TurnOf(childOut[1]) /\ \A r \in Runs : run'[r].id # capacity'.id
    BY <1>0, <1>2, <1>7, MadeIsNew
  <2>3. claim' = NoClaim
    BY <1>7 DEF EntryMade
  <2>4. childOut[1].type = "error" => TurnOf(childOut[1]) = childOut[1].turn
    BY DEF TurnOf
  <2> QED
    BY <2>1, <2>2, <2>3, <2>4 DEF StoppedRests, EndToCome
<1> QED
  BY <1>2, <1>3, <1>4, <1>5, <1>6, <1>7

LEMMA NewIsEntry ==
  ASSUME CapacityTyped, NEW turn \in Turns
  PROVE  [id |-> entries + 1, gen |-> latestWork, src |-> turn, state |-> "waiting", timer |-> TRUE] # NoEntry
<1>1. entries \in Nat
  BY DEF CapacityTyped, EntryTyped
<1>2. latestWork \in Nat
  BY CapacityRecoveryAssumption DEF CapacityTyped, CountersTyped, Works
<1>3. turn \in Nat
  BY CapacityRecoveryAssumption DEF Turns
<1>4. PICK id \in Nat : id = entries + 1
  BY <1>1
<1>5. PICK gen \in Nat : gen = latestWork
  BY <1>2
<1>6. [id |-> id, gen |-> gen, src |-> turn, state |-> "waiting", timer |-> TRUE]
        \in [id : Nat, gen : Nat, src : Nat, timer : BOOLEAN,
             state : {"waiting", "claimedBySwitch", "running"}]
  BY <1>3
<1>7. [id |-> id, gen |-> gen, src |-> turn, state |-> "waiting", timer |-> TRUE] # NoEntry
  BY <1>6, CapacityRecoveryAssumption
<1> QED
  BY <1>4, <1>5, <1>7

LEMMA SecondReportRead ==
  ASSUME CapacityInv, Numbered, TurnsInOrder, EntryInOrder, ShimReads
  PROVE  SecondReport'
<1> DEFINE l == childOut[1]
<1>0. CapacityTyped /\ StoppedRests /\ SecondReport /\ TurnFits /\ LinesFit /\ LinesFollow
  BY DEF CapacityInv, EntryInOrder, TurnsInOrder
<1>1. FirstLine(l.type) /\ Notes(l)
  BY <1>0, ReadNotes
<1>2. /\ 1 \in 1..Len(childOut) /\ l \in Lines /\ Len(childOut') = Len(childOut) - 1 /\ Len(childOut) \in Nat
      /\ l.type # "no" => l.turn \in Turns
  BY <1>0, <1>1, Shift
<1>3. Turns \subseteq Nat /\ l = Head(childOut)
  BY <1>0, <1>1, LineRead, CapacityRecoveryAssumption DEF Turns
<1> HIDE DEF l
<1> SUFFICES ASSUME NEW i \in 1..Len(childOut'), childOut'[i].type = "ended", childOut'[i].kind = "capacity",
                    childOut'[i].turn \in reported', turnWork'[childOut'[i].turn] = latestWork', ~subagent'
             PROVE  Stopped'
  BY DEF SecondReport, Newest
<1>4. PICK m \in Lines : m = childOut[i + 1]
  BY <1>0, <1>1, Shift DEF l
<1>5. childOut'[i] = m /\ i + 1 \in 1..Len(childOut) /\ i \in Nat /\ 1 < i + 1 /\ Len(childOut) # 1
  <2>1. childOut'[i] = m
    BY <1>0, <1>1, <1>4, Shift DEF l
  <2> QED
    BY <1>2, <2>1
<1>6. m.type = "ended" /\ m.kind = "capacity" /\ m.turn \in Turns /\ ~subagent /\ latestWork' = latestWork
  BY <1>0, <1>1, <1>4, <1>5, LinesTyped DEF Notes
<1>7. ~Stopped
  BY <1>0, <1>1, <1>5, StoppedReads DEF l
<1>8. ~(m.turn \in reported /\ turnWork[m.turn] = latestWork)
  BY <1>0, <1>4, <1>5, <1>6, <1>7 DEF SecondReport, Newest
<1>9. m.turn \in reported' /\ turnWork'[m.turn] = latestWork
  BY <1>5, <1>6
<1>10. Follows(l, m) /\ LineFits(l)
  BY <1>0, <1>2, <1>4, <1>5 DEF LinesFollow, LinesFit, l
<1>11. CASE l.type = "yes" /\ m.turn = l.turn
  <2>1. l.turn \in Nat
    BY <1>2, <1>3, <1>11
  <2>2. l.turn >= l.turn
    BY <2>1
  <2>3. Unread(l.turn)
    BY <1>2, <1>10, <1>11, <2>2 DEF LineFits
  <2>4. m.turn \in reported
    BY <1>1, <1>9, <1>11 DEF Notes, Ending, l
  <2> QED
    BY <1>11, <2>3, <2>4 DEF Unread
<1>12. CASE ~(l.type = "yes" /\ m.turn = l.turn)
  <2>1. turnWork[m.turn] = latestWork
    BY <1>1, <1>6, <1>9, <1>12 DEF Notes, l
  <2>2. Ending(l) /\ m.turn = l.turn
    BY <1>1, <1>8, <1>9, <2>1 DEF Notes, l
  <2>3. m.turn \in Nat
    BY <1>3, <1>6
  <2>4. l.type # "ended"
    <3>1. l.type = "ended" => l.turn < m.turn
      BY <1>6, <1>10 DEF Follows
    <3> QED
      BY <2>2, <2>3, <3>1
  <2>5. l.type = "error"
    BY <2>2, <2>4 DEF Ending
  <2>6. 2 \in 1..Len(childOut) /\ childOut[2].type = "ended" /\ childOut[2].turn = l.turn /\ childOut[2].kind = l.kind
    <3>1. EndFollows(1)
      BY <1>0, <1>2, <2>5 DEF LinesFit, l
    <3>2. 1 + 1 = 2
      OBVIOUS
    <3> QED
      BY <3>1, <3>2 DEF EndFollows, l
  <2>7. i + 1 = 2
    <3> SUFFICES ASSUME i + 1 # 2 PROVE FALSE
      OBVIOUS
    <3>1. 2 < i + 1
      BY <1>5
    <3>2. Follows(childOut[2], m)
      BY <1>0, <1>4, <1>5, <2>6, <3>1 DEF LinesFollow
    <3>3. l.turn < m.turn
      BY <1>6, <2>6, <3>2 DEF Follows
    <3> QED
      BY <2>2, <2>3, <3>3
  <2>8. l.kind = "capacity"
    BY <1>4, <1>6, <2>6, <2>7
  <2>9. ReadFailure
    BY <1>3, <2>5 DEF ShimReads, ReadAccepted, ReadRejected, ReadEnd, FirstLine, l
  <2>10. GenerationOf(l.turn) = latestWork
    BY <2>1, <2>2 DEF GenerationOf
  <2>11. ScheduleRecovery(latestWork, l.turn)
    BY <1>3, <2>8, <2>9, <2>10 DEF ReadFailure, Failed, l
  <2>12. ~SameFailure(latestWork, l.turn)
    BY <1>7 DEF SameFailure, Stopped
  <2>13. capacity' = [id |-> entries + 1, gen |-> latestWork, src |-> l.turn, state |-> "waiting", timer |-> TRUE]
    BY <2>11, <2>12 DEF ScheduleRecovery
  <2>14. capacity'.state = "waiting"
    BY <2>13
  <2>15. capacity' # NoEntry
    BY <1>0, <1>6, <2>2, <2>13, NewIsEntry
  <2> QED
    BY <2>14, <2>15 DEF Stopped
<1> QED
  BY <1>11, <1>12

LEMMA ClaimFitsRead ==
  ASSUME CapacityInv, Numbered, TurnsInOrder, EntryInOrder, ShimReads
  PROVE  ClaimFits'
<1>0. CapacityTyped /\ StoppedRests /\ ClaimFits
  BY DEF CapacityInv, EntryInOrder
<1>1. FirstLine(childOut[1].type) /\ Notes(childOut[1])
  BY <1>0, ReadNotes
<1>2. PICK who \in Senders :
        /\ Resumes(who)
        /\ EntryGone \/ EntryKept \/ EntryKnown \/ EntryMade(TurnOf(childOut[1]))
  BY <1>0, ReadEffect
<1>3. switchAt \in {"login", "read"} => claim = NoClaim
  <2>1. childOut # <<>>
    BY <1>0, <1>1, LineRead
  <2> QED
    BY <1>0, <2>1, ClaimRests
<1>4. switchAt' \in {switchAt, "off"} /\ subagent' = subagent
  BY <1>0, <1>1, <1>2, ResumesEffect DEF Notes
<1>5. switchAt' \in {"login", "read"} => claim = NoClaim
  BY <1>3, <1>4
<1>6. switchAt' = "read" => subagent'
  BY <1>0, <1>3, <1>4 DEF ClaimFits
<1>7. CASE claim' = NoClaim
  BY <1>6, <1>7 DEF ClaimFits
<1>8. CASE EntryKept
  BY <1>0, <1>5, <1>6, <1>8 DEF ClaimFits, EntryKept, IsEntry
<1>9. EntryKnown => claim' = NoClaim
  BY <1>0 DEF ClaimFits, EntryKnown
<1> QED
  BY <1>2, <1>7, <1>8, <1>9 DEF EntryGone, EntryMade

(* What becomes of the calls.                                               *)
LEMMA ResumesCalls ==
  ASSUME CapacityTyped, NEW who \in Senders, Resumes(who), NEW r \in Runs
  PROVE  \/ run'[r].id = 0 /\ run'[r].at = "off"
         \/ run'[r] = run[r]
         \/ who = "switch" /\ run[r].at = "covered" /\ run'[r].at = "switched" /\ run'[r].id = run[r].id
<1>1. CASE who \in Runs
  BY <1>1, EndRunEffect DEF Resumes
<1>2. CASE who = "switch"
  <2>1. who \notin Runs
    BY <1>2, CapacityRecoveryAssumption
  <2>2. run'[r] = IF run[r].at = "covered" THEN [run[r] EXCEPT !.at = "switched"] ELSE run[r]
    BY <1>2, <2>1 DEF Resumes, Covered
  <2>3. run[r] \in [id : 0..entries, gen : Works, at : RunPositions]
    BY DEF CapacityTyped, EntryTyped
  <2>4. [run[r] EXCEPT !.at = "switched"].at = "switched" /\ [run[r] EXCEPT !.at = "switched"].id = run[r].id
    BY <2>3
  <2> QED
    BY <1>2, <2>2, <2>4
<1>3. CASE who \notin Runs /\ who # "switch"
  BY <1>3 DEF Resumes
<1> QED
  BY <1>1, <1>2, <1>3

LEMMA EntryNamed ==
  ASSUME CapacityTyped, EntryKnown
  PROVE  capacity' # NoEntry => capacity'.id = capacity.id /\ capacity'.state = "waiting"
<1>1. capacity \in EntriesMade
  BY EntriesAreMade DEF CapacityTyped, EntryKnown
<1>2. PICK src \in 0..MaxTurns : capacity' = [capacity EXCEPT !.src = src]
  BY DEF EntryKnown
<1>3. capacity'.id = capacity.id /\ capacity'.state = capacity.state
  BY <1>1, <1>2 DEF EntriesMade
<1> QED
  BY <1>3 DEF EntryKnown

LEMMA CallsFitRead ==
  ASSUME CapacityInv, Numbered, TurnsInOrder, EntryInOrder, ShimReads
  PROVE  CallsFit'
<1>0. CapacityTyped /\ ClaimFits /\ CallsFit /\ ClaimedOwned
  BY DEF CapacityInv, EntryInOrder, Owned
<1>1. FirstLine(childOut[1].type) /\ Notes(childOut[1])
  BY <1>0, ReadNotes
<1>2. PICK who \in Senders :
        /\ Resumes(who)
        /\ \/ EntryGone \/ EntryKnown \/ EntryMade(TurnOf(childOut[1]))
           \/ EntryKept /\ (who = "switch" => ~IsEntry(claim.id))
  BY <1>0, ReadEffect
<1>3. subagent' = subagent
  BY <1>1 DEF Notes
<1> SUFFICES ASSUME NEW r \in Runs
             PROVE  /\ run'[r].at \in {"manager", "covered", "switched"} => ~subagent'
                    /\ run'[r].at = "covered" /\ capacity' # NoEntry /\ capacity'.id = run'[r].id => capacity'.state # "waiting"
                    /\ run'[r].at = "switched" /\ capacity' # NoEntry /\ capacity'.id = run'[r].id => capacity'.state = "running"
  BY DEF CallsFit, IsEntry
<1>4. /\ run[r].at \in {"manager", "covered", "switched"} => ~subagent
      /\ run[r].at = "covered" /\ IsEntry(run[r].id) => capacity.state # "waiting"
      /\ run[r].at = "switched" /\ IsEntry(run[r].id) => capacity.state = "running"
  BY <1>0 DEF CallsFit
<1>5. CASE run'[r].at \notin {"manager", "covered", "switched"}
  BY <1>5
<1>6. CASE run'[r] = run[r]
  <2>1. CASE EntryGone
    BY <1>3, <1>4, <1>6, <2>1 DEF EntryGone
  <2>2. CASE EntryKept
    BY <1>3, <1>4, <1>6, <2>2 DEF EntryKept, IsEntry
  <2>3. CASE EntryKnown
    <3>1. capacity # NoEntry /\ capacity.state = "waiting"
      BY <2>3 DEF EntryKnown
    <3>2. capacity' # NoEntry => capacity'.id = capacity.id
      BY <1>0, <2>3, EntryNamed
    <3> QED
      BY <1>3, <1>4, <1>6, <3>1, <3>2 DEF IsEntry
  <2>4. CASE EntryMade(TurnOf(childOut[1]))
    <3>1. run'[r].id # capacity'.id
      BY <1>0, <1>2, <2>4, MadeIsNew
    <3> QED
      BY <1>3, <1>4, <1>6, <3>1
  <2> QED
    BY <1>2, <2>1, <2>2, <2>3, <2>4
<1>7. CASE who = "switch" /\ run[r].at = "covered" /\ run'[r].at = "switched" /\ run'[r].id = run[r].id
  <2>1. CASE EntryGone
    BY <1>3, <1>4, <1>7, <2>1 DEF EntryGone
  <2>2. CASE EntryKept /\ ~IsEntry(claim.id)
    <3>1. capacity # NoEntry => capacity.state \in EntryStates
      BY <1>0, EntriesAreMade DEF CapacityTyped, EntriesMade
    <3>2. capacity # NoEntry => capacity.state # "claimedBySwitch"
      BY <1>0, <2>2 DEF ClaimedOwned, IsEntry
    <3> QED
      BY <1>3, <1>4, <1>7, <2>2, <3>1, <3>2 DEF EntryKept, IsEntry, EntryStates
  <2>3. CASE EntryKnown
    <3>1. capacity # NoEntry /\ capacity.state = "waiting"
      BY <2>3 DEF EntryKnown
    <3>2. capacity' # NoEntry => capacity'.id = capacity.id
      BY <1>0, <2>3, EntryNamed
    <3> QED
      BY <1>3, <1>4, <1>7, <3>1, <3>2 DEF IsEntry
  <2>4. CASE EntryMade(TurnOf(childOut[1]))
    <3>1. run'[r].id # capacity'.id
      BY <1>0, <1>2, <2>4, MadeIsNew
    <3> QED
      BY <1>3, <1>4, <1>7, <3>1
  <2> QED
    BY <1>2, <1>7, <2>1, <2>2, <2>3, <2>4
<1> QED
  BY <1>0, <1>2, <1>5, <1>6, <1>7, ResumesCalls

LEMMA StoppedIsOwedRead ==
  ASSUME CapacityInv, Numbered, TurnsInOrder, EntryInOrder, ShimReads
  PROVE  StoppedIsOwed' /\ EntryNumbered'
<1> DEFINE l == childOut[1]
<1>0. CapacityTyped /\ ClaimFits /\ ClaimedOwned /\ StoppedIsOwed /\ EntryNumbered /\ SecondReport /\ LinesFit
  BY DEF CapacityInv, EntryInOrder, Owned, TurnsInOrder
<1>1. FirstLine(l.type) /\ Notes(l)
  BY <1>0, ReadNotes
<1>2. PICK who \in Senders :
        /\ Resumes(who)
        /\ \/ EntryGone \/ EntryKnown
           \/ /\ EntryMade(TurnOf(l)) /\ l.type # "yes" /\ Newest(WorkOf(l)) /\ WorkOf(l) # 0
              /\ l.kind = "capacity"
           \/ EntryKept /\ (who = "switch" => ~IsEntry(claim.id))
  BY <1>0, ReadEffect
<1>3. subagent' = subagent /\ latestWork' = latestWork /\ 1 \in 1..Len(childOut) /\ l \in Lines
  BY <1>0, <1>1, Shift DEF Notes
<1> HIDE DEF l
<1>4. CASE EntryGone
  BY <1>4 DEF EntryGone, StoppedIsOwed, EntryNumbered, Stopped
<1>5. CASE EntryKnown
  <2>1. Stopped /\ (owed => owed') /\ capacity # NoEntry
    BY <1>5 DEF EntryKnown, Stopped
  <2> QED
    BY <1>0, <1>3, <2>1 DEF StoppedIsOwed, EntryNumbered
<1>6. CASE EntryKept /\ (who = "switch" => ~IsEntry(claim.id))
  <2>1. Stopped' => Stopped
    BY <1>0, <1>2, <1>6, KeptStopped
  <2> QED
    BY <1>0, <1>3, <1>6, <2>1 DEF StoppedIsOwed, EntryNumbered, EntryKept
<1>7. CASE /\ EntryMade(TurnOf(l)) /\ l.type # "yes" /\ Newest(WorkOf(l)) /\ WorkOf(l) # 0
           /\ l.kind = "capacity"
  <2>1. latestWork # 0
    BY <1>7 DEF Newest
  <2>2. ASSUME ~subagent PROVE owed'
    <3>1. CASE TurnOf(l) \notin reported
      BY <1>7, <2>2, <3>1 DEF EntryMade
    <3>2. CASE TurnOf(l) \in reported
      <4>1. l.type # "no"
        BY <1>0, <3>2, CapacityRecoveryAssumption DEF TurnOf, CapacityTyped, CountersTyped, Turns
      <4>2. l.turn \in reported /\ Newest(turnWork[l.turn])
        BY <1>7, <3>2, <4>1 DEF TurnOf, WorkOf
      <4>3. l.type # "error"
        BY <1>0, <1>3, <4>2 DEF LinesFit, LineFits, l
      <4>4. l.type = "ended"
        BY <1>3, <1>7, <4>1, <4>3 DEF Lines
      <4>5. Stopped
        BY <1>0, <1>3, <1>7, <2>2, <4>2, <4>4 DEF SecondReport, l
      <4> QED
        BY <1>0, <1>7, <2>2, <4>5 DEF StoppedIsOwed, EntryMade
    <3> QED
      BY <3>1, <3>2
  <2> QED
    BY <1>3, <2>1, <2>2 DEF StoppedIsOwed, EntryNumbered
<1> QED
  BY <1>2, <1>4, <1>5, <1>6, <1>7

-----------------------------------------------------------------------------
(* The entry behind the other steps.                                        *)
LEMMA RestsStay ==
  ASSUME StoppedRests, UNCHANGED <<childIn, childOut, childTurn, activeTurn>>,
         Stopped' => /\ Stopped /\ capacity'.src = capacity.src /\ capacity'.id = capacity.id
                     /\ \A r \in Runs : run'[r].id = run[r].id \/ run'[r].id # capacity.id
                     /\ EndToCome => switchAt' \in {"off", "pending"} \/ claim' = NoClaim
  PROVE  StoppedRests'
<1> SUFFICES ASSUME Stopped' PROVE childIn' = <<>> /\ childTurn' = 0 /\ (childOut' = <<>> \/ EndToCome')
  BY DEF StoppedRests
<1>1. childIn = <<>> /\ childTurn = 0 /\ (childOut = <<>> \/ EndToCome)
  BY DEF StoppedRests
<1>2. EndToCome => EndToCome'
  BY DEF EndToCome
<1> QED
  BY <1>1, <1>2

LEMMA ReportStays ==
  ASSUME SecondReport, UNCHANGED <<childOut, reported, turnWork, latestWork, subagent>>,
         Stopped /\ ~subagent /\ childOut # <<>> => Stopped', CapacityTyped
  PROVE  SecondReport'
<1> SUFFICES ASSUME NEW i \in 1..Len(childOut), childOut[i].type = "ended", childOut[i].kind = "capacity",
                    childOut[i].turn \in reported, turnWork[childOut[i].turn] = latestWork, ~subagent
             PROVE  Stopped'
  BY DEF SecondReport, Newest
<1>1. Stopped
  BY DEF SecondReport, Newest
<1>2. childOut # <<>>
  <2>1. childOut = <<>> => Len(childOut) = 0
    OBVIOUS
  <2>2. 1..0 = {}
    OBVIOUS
  <2> QED
    BY <2>1, <2>2
<1> QED
  BY <1>1, <1>2

LEMMA OwedStays ==
  ASSUME StoppedIsOwed, UNCHANGED <<subagent, owed>>, Stopped' => Stopped
  PROVE  StoppedIsOwed'
BY DEF StoppedIsOwed

LEMMA CallsStay ==
  ASSUME CallsFit, subagent' = subagent,
         \A r \in Runs : run'[r].at \in {"manager", "covered", "switched"} => run'[r] = run[r],
         capacity' # NoEntry =>
           capacity # NoEntry /\ capacity'.id = capacity.id /\ capacity'.state = capacity.state
  PROVE  CallsFit'
BY DEF CallsFit, IsEntry

LEMMA EntryTypedFields ==
  ASSUME CapacityTyped, capacity # NoEntry
  PROVE  capacity \in EntriesMade /\ capacity.id \in 1..entries /\ capacity.id # 0 /\ capacity.state \in EntryStates
BY EntriesAreMade DEF CapacityTyped, EntriesMade, EntryTyped

LEMMA EntryUserStart ==
  ASSUME CapacityTyped, Numbered, EntryInOrder, UserStart
  PROVE  EntryInOrder'
<1>1. EntryGone
  BY ForceClearGone DEF EntryInOrder, UserStart
<1>2. UNCHANGED <<run, switchAt, childOut, turnWork, reported, subagent>> /\ latestWork' = latestWork + 1 /\ switchAt = "off"
  BY DEF UserStart, switchVars, childVars
<1>3. StoppedRests' /\ StoppedIsOwed' /\ EntryNumbered'
  BY <1>1 DEF EntryGone, StoppedRests, StoppedIsOwed, EntryNumbered, Stopped
<1>4. ClaimFits'
  BY <1>1, <1>2 DEF EntryGone, ClaimFits
<1>5. CallsFit'
  BY <1>1, <1>2, CallsStay DEF EntryGone, EntryInOrder
<1>6. SecondReport'
  <2> SUFFICES ASSUME NEW i \in 1..Len(childOut), childOut[i].type = "ended", turnWork[childOut[i].turn] = latestWork + 1
               PROVE  FALSE
    BY <1>2 DEF SecondReport, Newest
  <2>1. childOut[i].turn \in Turns
    BY LinesTyped
  <2>2. PICK t \in Turns : t = childOut[i].turn
    BY <2>1
  <2>3. turnWork[t] <= latestWork /\ turnWork[t] = latestWork + 1
    BY <2>2 DEF Numbered
  <2>4. latestWork \in Nat
    BY CapacityRecoveryAssumption DEF CapacityTyped, CountersTyped, Works
  <2> QED
    BY <2>3, <2>4
<1> QED
  BY <1>3, <1>4, <1>5, <1>6 DEF EntryInOrder

LEMMA EntryTimer ==
  ASSUME CapacityTyped, EntryInOrder, RecoveryTimer
  PROVE  EntryInOrder'
<1>0. StoppedRests /\ SecondReport /\ ClaimFits /\ CallsFit /\ StoppedIsOwed /\ EntryNumbered
  BY DEF EntryInOrder
<1>1. capacity # NoEntry /\ capacity \in EntriesMade /\ capacity' = [capacity EXCEPT !.timer = FALSE]
      /\ capacity' \in EntriesMade
  BY RecoveryTimerEffect
<1>2. capacity' # NoEntry /\ capacity'.id = capacity.id /\ capacity'.state = capacity.state /\ capacity'.src = capacity.src
  <2>1. capacity' # NoEntry
    BY <1>1, EntriesAreMade DEF CapacityTyped
  <2> QED
    BY <1>1, <2>1 DEF EntriesMade
<1>3. PICK r \in Runs : run'[r].at = "read" /\ \A q \in Runs : q # r => run'[q] = run[q]
  BY RecoveryTimerEffect
<1>4. UNCHANGED <<claim, switchAt, childIn, childOut, childTurn, activeTurn, turnWork, latestWork, reported, subagent, owed>>
  BY DEF RecoveryTimer, workVars, switchVars, turnVars, childVars
<1>5. Stopped' <=> Stopped
  BY <1>1, <1>2, <1>4 DEF Stopped
<1>6. ~EndToCome
  <2> SUFFICES ASSUME EndToCome PROVE FALSE
    OBVIOUS
  <2>1. 1 \in DOMAIN childOut
    BY DEF EndToCome, CapacityTyped, QueuesTyped
  <2> QED
    BY <2>1 DEF EndToCome, RecoveryTimer, DelayOver
<1>7. StoppedRests'
  BY <1>0, <1>4, <1>5, <1>6 DEF StoppedRests
<1>8. SecondReport'
  BY <1>0, <1>4, <1>5, ReportStays
<1>9. StoppedIsOwed'
  BY <1>0, <1>4, <1>5, OwedStays
<1>10. ClaimFits'
  BY <1>0, <1>2, <1>4 DEF ClaimFits, IsEntry
<1>11. CallsFit'
  <2>1. \A q \in Runs : run'[q].at \in {"manager", "covered", "switched"} => run'[q] = run[q]
    BY <1>3
  <2> QED
    BY <1>0, <1>1, <1>2, <1>4, <2>1, CallsStay
<1>12. EntryNumbered'
  BY <1>0, <1>1, <1>4 DEF EntryNumbered
<1> QED
  BY <1>7, <1>8, <1>9, <1>10, <1>11, <1>12 DEF EntryInOrder

LEMMA CoveredCalls ==
  ASSUME CapacityTyped, NEW from, NEW to, Covered(from, to), NEW r \in Runs
  PROVE  /\ run'[r].id = run[r].id
         /\ run'[r].at = IF run[r].at = from THEN to ELSE run[r].at
<1>1. run[r] \in [id : 0..entries, gen : Works, at : RunPositions]
  BY DEF CapacityTyped, EntryTyped
<1>2. run'[r] = IF run[r].at = from THEN [run[r] EXCEPT !.at = to] ELSE run[r]
  BY DEF Covered
<1> QED
  BY <1>1, <1>2

LEMMA EntrySwitchAsked ==
  ASSUME CapacityTyped, ClaimedOwned, EntryInOrder, SwitchAsked
  PROVE  EntryInOrder'
<1>0. StoppedRests /\ SecondReport /\ ClaimFits /\ CallsFit /\ StoppedIsOwed /\ EntryNumbered
  BY DEF EntryInOrder
<1>1. switchAt = "off" /\ switchAt' = "pending"
      /\ UNCHANGED <<childIn, childOut, childTurn, activeTurn, turnWork, latestWork, reported, subagent, owed>>
  BY DEF SwitchAsked, workVars, turnVars, childVars
<1>2. \A r \in Runs : run'[r].id = run[r].id /\ run'[r].at = IF run[r].at = "manager" THEN "covered" ELSE run[r].at
  BY CoveredCalls DEF SwitchAsked
<1>3. capacity # NoEntry => capacity.state \in {"waiting", "running"}
  BY <1>1, EntryTypedFields DEF ClaimedOwned, EntryStates
<1>4. claim = NoClaim
  BY <1>0, <1>3 DEF ClaimFits, IsEntry
<1>5. CASE capacity # NoEntry /\ capacity.state = "waiting"
  <2>1. /\ capacity' = [capacity EXCEPT !.state = "claimedBySwitch", !.timer = FALSE]
        /\ claim' = [id |-> capacity.id, gen |-> capacity.gen]
    BY <1>5 DEF SwitchAsked
  <2>2. capacity'.id = capacity.id /\ capacity'.src = capacity.src /\ capacity'.state = "claimedBySwitch"
        /\ capacity' \in EntriesMade
    BY <1>5, <2>1, EntryTypedFields DEF EntriesMade, EntryStates
  <2>3. capacity' # NoEntry /\ claim'.id = capacity.id
    BY <2>1, <2>2, EntriesAreMade DEF CapacityTyped
  <2>4. Stopped /\ Stopped'
    BY <1>1, <1>5, <2>2, <2>3 DEF Stopped
  <2>5. StoppedRests'
    BY <1>0, <1>1, <1>2, <2>2, <2>4, RestsStay
  <2>6. SecondReport' /\ StoppedIsOwed'
    BY <1>0, <1>1, <2>4, ReportStays, OwedStays
  <2>7. ClaimFits'
    BY <1>1, <2>2, <2>3 DEF ClaimFits, IsEntry
  <2>8. CallsFit'
    <3> SUFFICES ASSUME NEW r \in Runs
                 PROVE  /\ run'[r].at \in {"manager", "covered", "switched"} => ~subagent'
                        /\ run'[r].at = "switched" => capacity'.id # run'[r].id
      BY <2>2 DEF CallsFit, IsEntry
    <3>1. run'[r].at \in {"manager", "covered", "switched"} => run[r].at \in {"manager", "covered", "switched"}
      BY <1>2
    <3>2. run'[r].at = "switched" => run[r].at = "switched"
      BY <1>2
    <3> QED
      BY <1>0, <1>1, <1>2, <1>5, <2>2, <3>1, <3>2 DEF CallsFit, IsEntry
  <2>9. EntryNumbered'
    BY <1>0, <1>1, <1>5 DEF EntryNumbered
  <2> QED
    BY <2>5, <2>6, <2>7, <2>8, <2>9 DEF EntryInOrder
<1>6. CASE ~(capacity # NoEntry /\ capacity.state = "waiting")
  <2>1. UNCHANGED <<capacity, claim>>
    BY <1>6 DEF SwitchAsked
  <2>2. ~Stopped /\ ~Stopped'
    BY <1>3, <1>6, <2>1 DEF Stopped
  <2>3. StoppedRests' /\ StoppedIsOwed'
    BY <2>2 DEF StoppedRests, StoppedIsOwed
  <2>4. SecondReport'
    BY <1>0, <1>1, <2>2, ReportStays
  <2>5. ClaimFits'
    BY <1>1, <1>4, <2>1 DEF ClaimFits
  <2>6. CallsFit'
    <3> SUFFICES ASSUME NEW r \in Runs
                 PROVE  /\ run'[r].at \in {"manager", "covered", "switched"} => ~subagent'
                        /\ run'[r].at = "covered" /\ IsEntry(run'[r].id) => capacity.state # "waiting"
                        /\ run'[r].at = "switched" /\ IsEntry(run'[r].id) => capacity.state = "running"
      BY <2>1 DEF CallsFit, IsEntry
    <3>1. run'[r].at \in {"manager", "covered", "switched"} => run[r].at \in {"manager", "covered", "switched"}
      BY <1>2
    <3>2. run'[r].at = "switched" => run[r].at = "switched" /\ run'[r].id = run[r].id
      BY <1>2
    <3> QED
      BY <1>0, <1>1, <1>6, <2>1, <3>1, <3>2 DEF CallsFit, IsEntry
  <2>7. EntryNumbered'
    BY <1>0, <1>1, <2>1 DEF EntryNumbered
  <2> QED
    BY <2>3, <2>4, <2>5, <2>6, <2>7 DEF EntryInOrder
<1> QED
  BY <1>5, <1>6

LEMMA EntrySwitchGivenUp ==
  ASSUME CapacityTyped, ClaimedOwned, EntryInOrder, SwitchGivenUp
  PROVE  EntryInOrder'
<1>0. StoppedRests /\ SecondReport /\ ClaimFits /\ CallsFit /\ StoppedIsOwed /\ EntryNumbered
  BY DEF EntryInOrder
<1>1. switchAt' = "off" /\ claim' = NoClaim /\ switchAt \in {"pending", "login"}
      /\ UNCHANGED <<childIn, childOut, childTurn, activeTurn, turnWork, latestWork, reported, subagent, owed>>
  BY DEF SwitchGivenUp, workVars, turnVars, childVars
<1>2. \A r \in Runs : run'[r].id = run[r].id /\ run'[r].at = IF run[r].at = "covered" THEN "manager" ELSE run[r].at
  BY CoveredCalls DEF SwitchGivenUp
<1>3. capacity' # NoEntry =>
        /\ capacity # NoEntry /\ capacity'.id = capacity.id /\ capacity'.src = capacity.src
        /\ capacity'.state = IF capacity.state = "claimedBySwitch" THEN "waiting" ELSE capacity.state
  <2>1. CASE capacity # NoEntry /\ capacity.state = "claimedBySwitch"
    <3>1. IsEntry(claim.id)
      BY <2>1 DEF ClaimedOwned, IsEntry
    <3>2. capacity' = [capacity EXCEPT !.state = "waiting", !.timer = TRUE]
      BY <2>1, <3>1 DEF SwitchGivenUp
    <3> QED
      BY <2>1, <3>2, EntryTypedFields DEF EntriesMade
  <2>2. CASE ~(capacity # NoEntry /\ capacity.state = "claimedBySwitch")
    <3>1. capacity' = capacity
      BY <2>2 DEF SwitchGivenUp, IsEntry
    <3> QED
      BY <2>2, <3>1
  <2> QED
    BY <2>1, <2>2
<1>4. capacity # NoEntry => capacity' # NoEntry
  <2>1. CapacityTyped'
    BY SwitchTypes DEF SwitchStep
  <2>2. CASE capacity' = capacity
    BY <2>2
  <2>3. CASE capacity # NoEntry /\ capacity' = [capacity EXCEPT !.state = "waiting", !.timer = TRUE]
    <3>1. capacity' \in EntriesMade
      BY <2>3, EntryTypedFields DEF EntriesMade, EntryStates
    <3> QED
      BY <3>1, EntriesAreMade DEF CapacityTyped
  <2> QED
    BY <2>2, <2>3 DEF SwitchGivenUp, IsEntry
<1>5. Stopped' <=> Stopped
  <2>1. capacity # NoEntry => capacity.state \in EntryStates
    BY EntryTypedFields
  <2> QED
    BY <1>1, <1>3, <1>4, <2>1 DEF Stopped, EntryStates
<1>6. StoppedRests'
  <2>1. Stopped' => capacity' # NoEntry
    BY DEF Stopped
  <2> QED
    BY <1>0, <1>1, <1>2, <1>3, <1>5, <2>1, RestsStay
<1>7. SecondReport' /\ StoppedIsOwed'
  BY <1>0, <1>1, <1>5, ReportStays, OwedStays
<1>8. ClaimFits'
  BY <1>1 DEF ClaimFits
<1>9. CallsFit'
  <2> SUFFICES ASSUME NEW r \in Runs
               PROVE  /\ run'[r].at \in {"manager", "covered", "switched"} => ~subagent'
                      /\ run'[r].at # "covered"
                      /\ run'[r].at = "switched" /\ capacity' # NoEntry /\ capacity'.id = run'[r].id =>
                           capacity'.state = "running"
    BY DEF CallsFit, IsEntry
  <2>1. run'[r].at \in {"manager", "covered", "switched"} => run[r].at \in {"manager", "covered", "switched"}
    BY <1>2
  <2>2. run'[r].at = "switched" => run[r].at = "switched" /\ run'[r].id = run[r].id
    BY <1>2
  <2>3. run'[r].at # "covered"
    BY <1>2
  <2> QED
    BY <1>0, <1>1, <1>3, <2>1, <2>2, <2>3 DEF CallsFit, IsEntry
<1>10. EntryNumbered'
  BY <1>0, <1>1, <1>3 DEF EntryNumbered
<1> QED
  BY <1>6, <1>7, <1>8, <1>9, <1>10 DEF EntryInOrder

LEMMA EntrySwitchDrains ==
  ASSUME CapacityTyped, EntryInOrder, SwitchDrains
  PROVE  EntryInOrder'
<1>0. StoppedRests /\ SecondReport /\ ClaimFits /\ CallsFit /\ StoppedIsOwed /\ EntryNumbered
  BY DEF EntryInOrder
<1>1. switchAt = "pending" /\ switchAt' = "login" /\ activeTurn = 0 /\ UNCHANGED <<capacity, claim, run>>
      /\ UNCHANGED <<childIn, childOut, childTurn, activeTurn, turnWork, latestWork, reported, subagent, owed>>
  BY DEF SwitchDrains, workVars, turnVars, childVars, entryVars
<1>2. Stopped' <=> Stopped
  BY <1>1 DEF Stopped
<1>3. ~EndToCome
  <2> SUFFICES ASSUME EndToCome PROVE FALSE
    OBVIOUS
  <2>1. 1 \in 1..Len(childOut) /\ childOut[1].type # "no"
    BY DEF EndToCome
  <2>2. childOut[1].turn \in Turns
    BY <2>1, LinesTyped
  <2> QED
    BY <1>1, <2>2, CapacityRecoveryAssumption DEF EndToCome, Turns
<1>4. StoppedRests'
  BY <1>0, <1>1, <1>2, <1>3 DEF StoppedRests
<1>5. SecondReport' /\ StoppedIsOwed'
  BY <1>0, <1>1, <1>2, ReportStays, OwedStays
<1>6. ClaimFits'
  BY <1>0, <1>1 DEF ClaimFits, IsEntry
<1>7. CallsFit'
  BY <1>0, <1>1, CallsStay
<1>8. EntryNumbered'
  BY <1>0, <1>1 DEF EntryNumbered
<1> QED
  BY <1>4, <1>5, <1>6, <1>7, <1>8 DEF EntryInOrder

LEMMA EntrySwitchContinues ==
  ASSUME CapacityTyped, ClaimedOwned, EntryInOrder, SwitchContinues
  PROVE  EntryInOrder'
<1>0. StoppedRests /\ SecondReport /\ ClaimFits /\ CallsFit /\ StoppedIsOwed /\ EntryNumbered
  BY DEF EntryInOrder
<1>1. UNCHANGED <<childOut, childTurn, activeTurn, turnWork, latestWork, reported, subagent>>
  BY DEF SwitchContinues, workVars, turnVars, childVars
<1>2. CASE switchAt = "login" /\ claim # NoClaim /\ switchAt' = "read" /\ UNCHANGED <<entryVars, childIn, owed, run>>
  <2>1. Stopped' <=> Stopped
    BY <1>2 DEF Stopped, entryVars
  <2>2. childIn = <<>> /\ childOut = <<>> /\ childTurn = 0
    BY <1>0, <1>2, ClaimRests
  <2>3. StoppedRests'
    BY <1>1, <1>2, <2>2 DEF StoppedRests
  <2>4. SecondReport' /\ StoppedIsOwed'
    BY <1>0, <1>1, <1>2, <2>1, ReportStays, OwedStays
  <2>5. ClaimFits'
    BY <1>0, <1>1, <1>2 DEF ClaimFits, IsEntry, entryVars
  <2>6. CallsFit'
    BY <1>0, <1>1, <1>2, CallsStay DEF entryVars
  <2>7. EntryNumbered'
    BY <1>0, <1>1, <1>2 DEF EntryNumbered, entryVars
  <2> QED
    BY <2>3, <2>4, <2>5, <2>6, <2>7 DEF EntryInOrder
<1>3. CASE switchAt = "read" /\ ~subagent /\ switchAt' = "continue" /\ UNCHANGED <<entryVars, run>>
  <2>1. claim # NoClaim /\ IsEntry(claim.id) /\ capacity.state = "claimedBySwitch"
    BY <1>0, <1>3 DEF ClaimFits
  <2>2. childIn = <<>> /\ childOut = <<>> /\ childTurn = 0
    BY <1>0, <1>3, <2>1, ClaimRests
  <2>3. ~Stopped'
    BY <1>3, <2>1 DEF Stopped, entryVars
  <2>4. StoppedRests' /\ StoppedIsOwed'
    BY <2>3 DEF StoppedRests, StoppedIsOwed
  <2>5. SecondReport'
    BY <1>0, <1>1, <2>2, ReportStays
  <2>6. ClaimFits'
    BY <1>3, <2>1 DEF ClaimFits, IsEntry, entryVars
  <2>7. CallsFit'
    BY <1>0, <1>1, <1>3, CallsStay DEF entryVars
  <2>8. EntryNumbered'
    BY <1>0, <1>1, <1>3 DEF EntryNumbered, entryVars
  <2> QED
    BY <2>4, <2>5, <2>6, <2>7, <2>8 DEF EntryInOrder
<1>4. CASE /\ (switchAt = "login" /\ claim = NoClaim) \/ (switchAt = "read" /\ subagent)
           /\ switchAt' = "off"
           /\ capacity' = IF IsEntry(claim.id) THEN NoEntry ELSE capacity
           /\ claim' = NoClaim
           /\ Covered("covered", "switched")
           /\ UNCHANGED <<entries, childIn, owed>>
  <2>1. \A r \in Runs : run'[r].id = run[r].id /\ run'[r].at = IF run[r].at = "covered" THEN "switched" ELSE run[r].at
    BY <1>4, CoveredCalls
  <2>2. capacity' # NoEntry =>
          /\ capacity # NoEntry /\ capacity' = capacity /\ ~IsEntry(claim.id)
          /\ capacity.state \in {"waiting", "running"}
    <3>1. capacity' # NoEntry => capacity # NoEntry /\ capacity' = capacity /\ ~IsEntry(claim.id)
      BY <1>4
    <3>2. capacity # NoEntry => capacity.state \in EntryStates
      BY EntryTypedFields
    <3> QED
      BY <3>1, <3>2 DEF ClaimedOwned, IsEntry, EntryStates
  <2>3. Stopped' => Stopped
    BY <1>4, <2>2 DEF Stopped
  <2>4. StoppedRests'
    <3>1. Stopped' => capacity' = capacity
      BY <2>2 DEF Stopped
    <3> QED
      BY <1>0, <1>1, <1>4, <2>1, <2>3, <3>1, RestsStay
  <2>5. Stopped /\ ~subagent => Stopped'
    <3> SUFFICES ASSUME Stopped, ~subagent PROVE Stopped'
      OBVIOUS
    <3>1. claim = NoClaim
      BY <1>4
    <3>2. ~IsEntry(claim.id)
      <4>1. claim.id = 0
        BY <3>1 DEF NoClaim
      <4>2. capacity # NoEntry => capacity.id # 0
        BY EntryTypedFields
      <4> QED
        BY <4>1, <4>2 DEF IsEntry
    <3> QED
      BY <1>4, <3>2 DEF Stopped
  <2>6. SecondReport' /\ StoppedIsOwed'
    BY <1>0, <1>1, <1>4, <2>3, <2>5, ReportStays, OwedStays
  <2>7. ClaimFits'
    BY <1>4 DEF ClaimFits
  <2>8. CallsFit'
    <3> SUFFICES ASSUME NEW r \in Runs
                 PROVE  /\ run'[r].at \in {"manager", "covered", "switched"} => ~subagent'
                        /\ run'[r].at # "covered"
                        /\ run'[r].at = "switched" /\ capacity' # NoEntry /\ capacity'.id = run'[r].id =>
                             capacity'.state = "running"
      BY DEF CallsFit, IsEntry
    <3>1. run'[r].at \in {"manager", "covered", "switched"} => run[r].at \in {"manager", "covered", "switched"}
      BY <2>1
    <3>2. run'[r].at = "switched" => run[r].at \in {"covered", "switched"} /\ run'[r].id = run[r].id
      BY <2>1
    <3>3. run'[r].at # "covered"
      BY <2>1
    <3>4. CASE run[r].at = "covered"
      BY <1>0, <1>1, <2>1, <2>2, <3>3, <3>4 DEF CallsFit, IsEntry
    <3>5. CASE run[r].at # "covered"
      BY <1>0, <1>1, <2>1, <2>2, <3>1, <3>2, <3>3, <3>5 DEF CallsFit, IsEntry
    <3> QED
      BY <3>4, <3>5
  <2>9. EntryNumbered'
    BY <1>0, <1>1, <2>2 DEF EntryNumbered
  <2> QED
    BY <2>4, <2>6, <2>7, <2>8, <2>9 DEF EntryInOrder
<1> QED
  BY <1>2, <1>3, <1>4 DEF SwitchContinues

LEMMA EntryRunStep ==
  ASSUME CapacityTyped, EntryInOrder, NEW r \in Runs, RunStep(r)
  PROVE  EntryInOrder'
<1>0. StoppedRests /\ SecondReport /\ ClaimFits /\ CallsFit /\ StoppedIsOwed /\ EntryNumbered
  BY DEF EntryInOrder
<1>1. UNCHANGED <<childOut, childTurn, activeTurn, turnWork, latestWork, reported, subagent, switchAt>>
  BY <1>0, RunStepCases DEF turnVars, childVars, switchVars
<1>2. CASE CallClears(r)
  <2>1. EntryGone /\ EndRun(r) /\ (subagent \/ (capacity # NoEntry /\ capacity.state = "running"))
    BY <1>0, <1>2, ForceClearGone DEF CallClears
  <2>2. StoppedRests' /\ StoppedIsOwed' /\ EntryNumbered'
    BY <2>1 DEF EntryGone, StoppedRests, StoppedIsOwed, EntryNumbered, Stopped
  <2>3. ClaimFits'
    <3>1. switchAt = "read" => subagent
      BY <1>0, <2>1 DEF ClaimFits, IsEntry
    <3> QED
      BY <1>1, <2>1, <3>1 DEF EntryGone, ClaimFits
  <2>4. SecondReport'
    <3>1. ~(Stopped /\ ~subagent)
      BY <2>1 DEF Stopped
    <3> QED
      BY <1>0, <1>1, <3>1, ReportStays
  <2>5. CallsFit'
    <3>1. \A q \in Runs : run'[q].at \in {"manager", "covered", "switched"} => run'[q] = run[q]
      BY <2>1, EndRunEffect
    <3> QED
      BY <1>0, <1>1, <2>1, <3>1, CallsStay DEF EntryGone
  <2> QED
    BY <2>2, <2>3, <2>4, <2>5 DEF EntryInOrder
<1>3. CASE CallContinues(r) /\ ~subagent
  <2>1. capacity # NoEntry /\ capacity.state = "waiting" /\ RunAt(r, "start") /\ claim' = claim
        /\ capacity' = [capacity EXCEPT !.state = "running"]
    BY <1>3 DEF CallContinues, IsWaiting, IsEntry
  <2>2. capacity'.state = "running" /\ capacity'.id = capacity.id /\ capacity' \in EntriesMade
    BY <2>1, EntryTypedFields DEF EntriesMade, EntryStates
  <2>3. childOut = <<>>
    BY <1>0, <1>3, CallRests DEF CallContinues
  <2>4. ~Stopped'
    BY <2>2 DEF Stopped
  <2>5. StoppedRests' /\ StoppedIsOwed'
    BY <2>4 DEF StoppedRests, StoppedIsOwed
  <2>6. SecondReport'
    BY <1>0, <1>1, <2>3, ReportStays
  <2>7. claim = NoClaim
    BY <1>0, <2>1 DEF ClaimFits
  <2>8. ClaimFits'
    BY <1>0, <1>1, <2>1, <2>7 DEF ClaimFits
  <2>9. CallsFit'
    <3>1. \A q \in Runs : run'[q].at \in {"manager", "covered", "switched"} => run'[q] = run[q]
      BY <2>1, RunAtEffect DEF RunPositions
    <3> QED
      BY <1>1, <1>3, <2>2, <3>1 DEF CallsFit, IsEntry
  <2>10. EntryNumbered'
    BY <1>0, <1>1, <2>1 DEF EntryNumbered
  <2> QED
    BY <2>5, <2>6, <2>8, <2>9, <2>10 DEF EntryInOrder
<1>4. ASSUME UNCHANGED <<entryVars, childIn, owed>>, \A q \in Runs : q # r => run'[q] = run[q],
             \/ run'[r].id = 0 /\ run'[r].at = "off"
             \/ run'[r].id = run[r].id /\ run'[r].at = "manager" /\ ~subagent
      PROVE  EntryInOrder'
  <2>1. UNCHANGED <<capacity, claim>> /\ (Stopped' <=> Stopped)
    BY <1>1, <1>4 DEF entryVars, Stopped
  <2>2. capacity # NoEntry => capacity.id # 0
    BY EntryTypedFields
  <2>3. StoppedRests'
    <3>1. \A q \in Runs : run'[q].id = run[q].id \/ run'[q].id = 0
      BY <1>4
    <3>2. EndToCome => switchAt \in {"off", "pending"} \/ claim = NoClaim
      BY DEF EndToCome
    <3> QED
      BY <1>0, <1>1, <1>4, <2>1, <2>2, <3>1, <3>2, RestsStay DEF Stopped
  <2>4. SecondReport' /\ StoppedIsOwed'
    BY <1>0, <1>1, <1>4, <2>1, ReportStays, OwedStays
  <2>5. ClaimFits'
    BY <1>0, <1>1, <2>1 DEF ClaimFits, IsEntry
  <2>6. CallsFit'
    <3>1. \A q \in Runs : \/ run'[q] = run[q] \/ run'[q].at = "off"
                          \/ run'[q].at = "manager" /\ ~subagent
      BY <1>4
    <3> QED
      BY <1>0, <1>1, <2>1, <3>1 DEF CallsFit, IsEntry
  <2>7. EntryNumbered'
    BY <1>0, <1>1, <2>1 DEF EntryNumbered
  <2> QED
    BY <2>3, <2>4, <2>5, <2>6, <2>7 DEF EntryInOrder
<1>5. CASE CallLeaves(r)
  BY <1>4, <1>5, EndRunEffect DEF CallLeaves
<1>6. CASE CallAsks(r)
  BY <1>4, <1>6, RunAtEffect DEF CallAsks, RunPositions
<1> QED
  BY <1>0, <1>2, <1>3, <1>5, <1>6, RunStepCases

LEMMA EntryChild ==
  ASSUME CapacityTyped, TurnsInOrder, EntryInOrder, ChildTakesStart \/ ChildEndsTurn
  PROVE  EntryInOrder'
<1>0. StoppedRests /\ SecondReport /\ ClaimFits /\ CallsFit /\ StoppedIsOwed /\ EntryNumbered
  BY DEF EntryInOrder
<1>1. UNCHANGED <<capacity, claim, run, switchAt, activeTurn, turnWork, latestWork, reported, subagent, owed>>
  BY DEF ChildTakesStart, ChildEndsTurn, entryVars, workVars, switchVars, turnVars
<1>2. ~Stopped
  BY <1>0 DEF StoppedRests, ChildTakesStart, ChildEndsTurn
<1>3. ~Stopped'
  BY <1>1, <1>2 DEF Stopped
<1>4. StoppedRests' /\ StoppedIsOwed'
  BY <1>3 DEF StoppedRests, StoppedIsOwed
<1>5. ClaimFits'
  BY <1>0, <1>1 DEF ClaimFits, IsEntry
<1>6. CallsFit'
  BY <1>0, <1>1, CallsStay
<1>7. EntryNumbered'
  BY <1>0, <1>1 DEF EntryNumbered
<1>8. \A i \in 1..Len(childOut') :
        \/ i \in 1..Len(childOut) /\ childOut'[i] = childOut[i]
        \/ childOut'[i].type # "ended" \/ childOut'[i].turn \notin reported
  <2>1. CASE ChildTakesStart
    <3>1. PICK m \in Lines :
            /\ Len(childOut') = Len(childOut) + 1 /\ childOut'[Len(childOut) + 1] = m
            /\ \A i \in 1..Len(childOut) : childOut'[i] = childOut[i]
            /\ m.type \in {"yes", "no"}
      BY <2>1, TakenLine
    <3>2. \A i \in 1..Len(childOut') : i \in 1..Len(childOut) \/ i = Len(childOut) + 1
      BY <3>1, LinesTyped
    <3> QED
      BY <3>1, <3>2
  <2>2. CASE ChildEndsTurn
    <3>1. PICK n \in Nat, k \in Kinds :
            /\ n = Len(childOut) /\ \A i \in 1..n : childOut'[i] = childOut[i]
            /\ \A i \in 1..Len(childOut') : i \in 1..n \/ Ends(n, k, i)
      BY <2>2, EndedLines
    <3>2. childTurn \notin reported
      BY <2>2 DEF ChildEndsTurn, TurnsInOrder, TurnFits
    <3> QED
      BY <3>1, <3>2 DEF Ends
  <2> QED
    BY <2>1, <2>2
<1>9. SecondReport'
  <2> SUFFICES ASSUME NEW i \in 1..Len(childOut'), childOut'[i].type = "ended", childOut'[i].kind = "capacity",
                      childOut'[i].turn \in reported, turnWork[childOut'[i].turn] = latestWork
               PROVE  subagent
    BY <1>1 DEF SecondReport, Newest
  <2>1. i \in 1..Len(childOut) /\ childOut'[i] = childOut[i]
    BY <1>8
  <2> QED
    BY <1>0, <1>2, <2>1 DEF SecondReport, Newest
<1> QED
  BY <1>4, <1>5, <1>6, <1>7, <1>9 DEF EntryInOrder

LEMMA OwedStep == CapacityInv /\ OwedInv /\ [CapacityNext]_capacityVars => OwedInv'
<1> SUFFICES ASSUME CapacityInv, OwedInv, [CapacityNext]_capacityVars, ~continueLost'
             PROVE  WorkInOrder' /\ EntryInOrder'
  BY DEF OwedInv
<1>1. ~continueLost
  BY DEF CapacityNext, capacityVars, UserStart, RecoveryTimer, SwitchAsked, SwitchStep, SwitchDrains,
     SwitchContinues, SwitchGivenUp, ShimReads, ReadAccepted, ReadRejected, ReadFailure, ReadEnd,
     ContinueTimesOut, ChildTakesStart, ChildEndsTurn, RunStep, RunRead, RunAnswered
<1>2. /\ CapacityTyped /\ EntryIsLatest /\ ClaimedOwned
      /\ Numbered /\ Waited /\ TurnsInOrder /\ LatestIsLast /\ EntryInOrder /\ CallsFit
  BY <1>1 DEF OwedInv, CapacityInv, Owned, WorkInOrder, EntryInOrder
<1>3. WorkInOrder'
  BY <1>2, WorkStep, WaitedStep DEF WorkInOrder
<1>4. CASE UNCHANGED capacityVars
  <2>1. UNCHANGED <<capacity, claim, run, switchAt, activeTurn, turnWork, latestWork, reported, subagent, owed,
                    childIn, childOut, childTurn>>
    BY <1>4 DEF capacityVars, entryVars, workVars, switchVars, turnVars, childVars
  <2>2. StoppedRests' /\ SecondReport' /\ StoppedIsOwed'
    BY <1>2, <2>1 DEF EntryInOrder, StoppedRests, SecondReport, StoppedIsOwed, Stopped, EndToCome, Newest
  <2>3. ClaimFits' /\ CallsFit' /\ EntryNumbered'
    BY <1>2, <2>1 DEF EntryInOrder, ClaimFits, CallsFit, EntryNumbered, IsEntry
  <2> QED
    BY <1>3, <2>2, <2>3 DEF EntryInOrder
<1>5. CASE ShimReads
  <2>1. ClaimFits' /\ CallsFit' /\ SecondReport'
    BY <1>2, <1>5, ClaimFitsRead, CallsFitRead, SecondReportRead
  <2>2. StoppedRests'
    BY <1>2, <1>5, StoppedRestsRead
  <2>3. StoppedIsOwed' /\ EntryNumbered'
    BY <1>2, <1>5, StoppedIsOwedRead
  <2> QED
    BY <1>3, <2>1, <2>2, <2>3 DEF EntryInOrder
<1>6. CASE ContinueTimesOut
  BY <1>6 DEF ContinueTimesOut
<1>7. CASE SwitchAsked \/ SwitchStep
  BY <1>2, <1>3, <1>7, EntrySwitchAsked, EntrySwitchDrains, EntrySwitchContinues, EntrySwitchGivenUp DEF SwitchStep
<1> QED
  BY <1>2, <1>3, <1>4, <1>5, <1>6, <1>7, EntryUserStart, EntryTimer, EntryChild, EntryRunStep DEF CapacityNext

LEMMA OwedInit == CapacityInit => OwedInv
<1> SUFFICES ASSUME CapacityInit PROVE WorkInOrder /\ EntryInOrder
  BY DEF OwedInv
<1>1. Len(childIn) = 0 /\ Len(childOut) = 0 /\ 1..0 = {}
  BY DEF CapacityInit
<1>2. capacity = NoEntry /\ claim = NoClaim /\ switchAt = "off" /\ childTurn = 0 /\ turnsSoFar = 0
      /\ latestWork = 0 /\ reported = {} /\ endedTurns = {} /\ ~userStart
      /\ \A r \in Runs : run[r].at = "off"
  BY DEF CapacityInit, NoRun
<1>3. \A t \in Turns : turnWork[t] = 0
  BY DEF CapacityInit, Turns
<1>4. Numbered
  BY <1>1, <1>2, <1>3 DEF Numbered
<1>5. Waited
  BY <1>2 DEF Waited
<1>6. TurnsInOrder
  BY <1>1, <1>2, <1>3 DEF TurnsInOrder, TurnFits, LinesFit, LinesFollow, Unread
<1>7. LatestIsLast
  BY <1>1, <1>2 DEF LatestIsLast, StartsLast, AnswersLast, EndingsLast, TurnLast
<1>8. EntryInOrder
  BY <1>1, <1>2 DEF EntryInOrder, StoppedRests, SecondReport, ClaimFits, CallsFit, StoppedIsOwed, EntryNumbered, Stopped
<1> QED
  BY <1>4, <1>5, <1>6, <1>7, <1>8 DEF WorkInOrder

(* A step that sends a Continue while the thread is owed one.               *)
LEMMA ContinueIsOwed ==
  ASSUME CapacityInv, OwedInv, [CapacityNext]_capacityVars, SendsContinue, ~continueLost
  PROVE  owed
<1>1. /\ CapacityTyped /\ StoppedRests /\ ClaimFits /\ CallsFit /\ StoppedIsOwed
  BY DEF OwedInv, CapacityInv, EntryInOrder
<1>2. Len(childIn) \in Nat /\ childIn \in Seq(Starts)
  BY <1>1 DEF CapacityTyped, QueuesTyped
<1>3. childIn' # childIn /\ Len(childIn') > Len(childIn)
  BY <1>2 DEF SendsContinue
<1>4. CASE UserStart
  <2>1. childIn' = Append(childIn, [by |-> "user", gen |-> latestWork + 1])
    BY <1>4 DEF UserStart, SendStart
  <2>2. Len(childIn') = Len(childIn) + 1 /\ childIn'[Len(childIn) + 1] = [by |-> "user", gen |-> latestWork + 1]
    BY <1>2, <2>1
  <2>3. childIn'[Len(childIn')].by = "user"
    BY <2>2
  <2> QED
    BY <2>3 DEF SendsContinue
<1>5. CASE ChildTakesStart
  <2>1. Len(childIn') = Len(childIn) - 1
    BY <1>1, <1>5, TakenStart
  <2> QED
    BY <1>2, <1>3, <2>1
<1>6. CASE ContinueTimesOut
  <2>1. PICK by \in Runs \cup {"switch"} : childIn' = Disown(childIn, by)
    BY <1>1, <1>6, ContinueTimesOutEffect
  <2>2. Len(childIn') = Len(childIn)
    BY <1>2, <2>1, DisownStarts
  <2> QED
    BY <1>2, <1>3, <2>2
<1>7. CASE SwitchContinues
  <2>1. switchAt = "read" /\ ~subagent
    BY <1>3, <1>7 DEF SwitchContinues
  <2>2. claim # NoClaim
    BY <1>1, <2>1 DEF ClaimFits
  <2>3. Stopped
    BY <1>1, <2>1, <2>2, ClaimRests
  <2> QED
    BY <1>1, <2>1, <2>3 DEF StoppedIsOwed
<1>8. ASSUME NEW r \in Runs, RunStep(r) PROVE owed
  <2>1. CallContinues(r) /\ ~subagent
    BY <1>1, <1>3, <1>8, RunStepCases DEF CallClears, CallLeaves, CallAsks
  <2>2. Stopped
    BY <2>1 DEF CallContinues, IsWaiting, IsEntry, Stopped
  <2> QED
    BY <1>1, <2>1, <2>2 DEF StoppedIsOwed
<1>9. ~(UNCHANGED capacityVars \/ RecoveryTimer \/ SwitchAsked \/ SwitchDrains \/ SwitchGivenUp \/ ShimReads \/ ChildEndsTurn)
  BY <1>3 DEF capacityVars, RecoveryTimer, SwitchAsked, SwitchDrains, SwitchGivenUp, ShimReads, ReadAccepted,
     ReadRejected, ReadFailure, ReadEnd, ChildEndsTurn
<1> QED
  BY <1>4, <1>5, <1>6, <1>7, <1>8, <1>9 DEF CapacityNext, SwitchStep

(* No thread is continued twice for one failure, nor when newer work has    *)
(* superseded it: whether a timer, a call left over from an earlier timer   *)
(* or a switch sends the Continue, the thread's last failure is unanswered, *)
(* as long as no answer to a Continue has come too late.                    *)
THEOREM ContinuesAreOwed == CapacitySpec => ContinueOnlyWhenOwed
<1>1. CapacityInit => OwedInv
  BY OwedInit
<1>2. CapacityInv /\ OwedInv /\ [CapacityNext]_capacityVars => OwedInv'
  BY OwedStep
<1>3. CapacityInv /\ OwedInv /\ [CapacityNext]_capacityVars => [SendsContinue /\ ~continueLost => owed]_capacityVars
  BY ContinueIsOwed
<1> QED
  BY <1>1, <1>2, <1>3, CapacityIsOrderly, PTL DEF CapacitySpec, ContinueOnlyWhenOwed
===============================================================================
