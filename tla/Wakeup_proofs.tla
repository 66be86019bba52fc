---------------------------- MODULE Wakeup_proofs ----------------------------
(***************************************************************************)
(* Theorems about Wakeup, for any number of hosts, runs, edits and faults. *)
(***************************************************************************)
EXTENDS Wakeup, TLAPS

(* Where the runner of a host is while it changes the file.                 *)
ChangePlaces == \A h \in WakeHosts : change[h] # NoChange =>
  /\ change[h].kind \in {"claim", "write claim", "write"} => runner[h].at = "claim"
  /\ change[h].kind = "finish" => runner[h].at \in {"sent", "finish"}
  /\ runner[h].at # "dead"

(* The host has made the claim file of d and may still ask for the request.  *)
Claims(h, d) ==
  /\ runner[h].trigger = "scheduled" /\ runner[h].due = d
  /\ (change[h] # NoChange /\ change[h].kind = "write claim") \/ runner[h].at = "check"

(* One host at most has a claim that has not been used.                     *)
ClaimsInv ==
  /\ \A d \in Dues : requested[d] <= 1 /\ (requested[d] # 0 => d \in claimed)
  /\ \A h \in WakeHosts, d \in Dues : Claims(h, d) => d \in claimed /\ requested[d] = 0
  /\ \A g, h \in WakeHosts, d \in Dues : Claims(g, d) /\ Claims(h, d) => g = h

(* Until a host sleeps, the locks are held by those who took them.           *)
NobodySlept == \A g \in wakeFaults : runner[g].at = "dead"
LocksInv ==
  /\ \A k \in lockStale : lockOf[k] \in WakeHosts /\ runner[lockOf[k]].at = "dead"
  /\ \A h \in WakeHosts :
       /\ change[h] # NoChange => lockOf["state"] = h
       /\ runner[h].at \in {"claim", "check", "sent", "finish", "release"} => lockOf["run"] = h

(* ... and a run that a host executes is running in the file, and in every   *)
(* copy of the file that is written while it does.                          *)
RunsInv ==
  /\ \A h \in WakeHosts, i \in RunIds : Executing(h, i) => tasksFile.runs[i] = "running"
  /\ \A h \in WakeHosts : change[h] # NoChange /\ change[h].kind = "write claim" =>
       runner[h].id \in RunIds /\ change[h].saw.runs[runner[h].id] = "running"
  /\ \A h \in WakeHosts : change[h] # NoChange /\ change[h].kind = "recover" =>
       \A g \in WakeHosts, i \in RunIds : Executing(g, i) => change[h].saw.runs[i] = "running"

WakeInv == WakeTypeOK /\ ChangePlaces /\ ClaimsInv /\ (NobodySlept => LocksInv /\ RunsInv)

-----------------------------------------------------------------------------
(* The next run of a daily task is an occurrence.                           *)
LEMMA NextDueIsDue ==
  ASSUME NEW now \in 0..MaxWakeTime
  PROVE  NextDue(now) \in Dues
<1>1. now \in Nat /\ now <= MaxWakeTime /\ MaxWakeTime \in Nat
  BY WakeupAssumption
<1>2. (now + 1) \in 1..(MaxWakeTime + 2) /\ (now + 2) \in 1..(MaxWakeTime + 2)
  BY <1>1
<1>3. now % 2 = 0 => (now + 1) % 2 = 1
  BY <1>1
<1>4. now % 2 # 0 => (now + 2) % 2 = 1
  BY <1>1
<1>5. QED
  BY <1>2, <1>3, <1>4 DEF NextDue, Dues

(* The clock and the edits start at zero.                                   *)
LEMMA ZeroIsATime == 0 \in 0..MaxWakeTime /\ 0 \in 0..MaxWakeEdits
<1>1. MaxWakeTime \in Nat /\ MaxWakeEdits \in Nat
  BY WakeupAssumption
<1>2. QED
  BY <1>1

(* A file that is read and changed is one.                                  *)
LEMMA FileFields ==
  ASSUME NEW f \in TasksFiles
  PROVE  /\ f.due \in Dues /\ f.last \in Dues \cup {0} /\ f.version \in 0..MaxWakeEdits
         /\ f.enabled \in BOOLEAN /\ f.runs \in [RunIds -> RunStatus]
         /\ \A due \in Dues : [f EXCEPT !.due = due] \in TasksFiles
         /\ \A runs \in [RunIds -> RunStatus] : [f EXCEPT !.runs = runs] \in TasksFiles
         /\ \A i \in RunIds, s \in RunStatus :
              [f EXCEPT !.runs[i] = s] \in TasksFiles /\ [f EXCEPT !.runs[i] = s].runs[i] = s
         /\ \A due \in Dues, last \in Dues : [f EXCEPT !.due = due, !.last = last] \in TasksFiles
BY DEF TasksFiles

(* Taking and releasing a lock.                                             *)
LEMMA LockTypes ==
  ASSUME WakeTypeOK, NEW h \in WakeHosts, NEW k \in Locks,
         Takes(h, k) \/ \E noticed \in BOOLEAN : Releases(k, noticed)
  PROVE  lockOf' \in [Locks -> WakeHosts \cup {NoHost}] /\ lockStale' \subseteq Locks
BY DEF WakeTypeOK, Takes, Releases

LEMMA EndChangeTypes ==
  ASSUME WakeTypeOK, NEW h \in WakeHosts, NEW file \in TasksFiles, NEW told, EndChange(h, file, told)
  PROVE  /\ tasksFile' \in TasksFiles /\ lockOf' \in [Locks -> WakeHosts \cup {NoHost}]
         /\ lockStale' \subseteq Locks /\ change' \in [WakeHosts -> Changes \cup {NoChange}]
<1>1. \E late \in BOOLEAN : Releases("state", late)
  BY DEF EndChange, Noticed
<1>2. lockOf' \in [Locks -> WakeHosts \cup {NoHost}] /\ lockStale' \subseteq Locks
  BY <1>1, LockTypes DEF Locks
<1>3. QED
  BY <1>2 DEF EndChange, WakeTypeOK

LEMMA BeginChangeTypes ==
  ASSUME WakeTypeOK, NEW h \in WakeHosts, NEW kind \in {"claim", "finish", "recover"},
         BeginChange(h, kind)
  PROVE  /\ lockOf' \in [Locks -> WakeHosts \cup {NoHost}] /\ lockStale' \subseteq Locks
         /\ change' \in [WakeHosts -> Changes \cup {NoChange}]
<1>1. lockOf' \in [Locks -> WakeHosts \cup {NoHost}] /\ lockStale' \subseteq Locks
  BY LockTypes DEF BeginChange, Locks
<1>2. change' \in [WakeHosts -> Changes \cup {NoChange}]
  BY DEF BeginChange, WakeTypeOK, Changes
<1>3. QED
  BY <1>1, <1>2

LEMMA RunnerTypes ==
  ASSUME WakeTypeOK, NEW h \in WakeHosts, NEW position, RunnerTo(h, position),
         position \in {"none", "lease", "claim", "check", "sent", "finish", "release", "dead"}
  PROVE  /\ runner' \in [WakeHosts -> Runners] /\ runner'[h].at = position
         /\ runner'[h].trigger = runner[h].trigger /\ runner'[h].due = runner[h].due
         /\ runner'[h].id = runner[h].id
         /\ \A g \in WakeHosts \ {h} : runner'[g] = runner[g]
<1>1. runner \in [WakeHosts -> Runners]
  BY DEF WakeTypeOK
<1>2. runner' = [runner EXCEPT ![h].at = position]
  BY DEF RunnerTo
<1>3. runner[h] \in Runners
  BY <1>1
<1>4. [runner[h] EXCEPT !.at = position] \in Runners
  BY <1>3 DEF Runners
<1>5. runner'[h] = [runner[h] EXCEPT !.at = position]
  BY <1>1, <1>2
<1>6. QED
  BY <1>1, <1>2, <1>3, <1>4, <1>5 DEF Runners

LEMMA StartRunTypes ==
  ASSUME WakeTypeOK, NEW h \in WakeHosts, StartRun(h)
  PROVE  WakeTypeOK' /\ runner'[h].at = "lease" /\ runner[h].at = "none"
         /\ \A g \in WakeHosts \ {h} : runner'[g] = runner[g]
<1>1. runner \in [WakeHosts -> Runners] /\ tasksFile.due \in Dues
  BY FileFields DEF WakeTypeOK
<1>2. 1 \in Dues
  BY NextDueIsDue, WakeupAssumption DEF Dues
<1>3. PICK trigger \in {"scheduled", "manual"} :
        runner' = [runner EXCEPT ![h] = [Resting EXCEPT !.at = "lease", !.trigger = trigger,
                     !.due = IF trigger = "scheduled" THEN tasksFile.due ELSE 1]]
  BY DEF StartRun
<1>4. [Resting EXCEPT !.at = "lease", !.trigger = trigger,
                     !.due = IF trigger = "scheduled" THEN tasksFile.due ELSE 1] \in Runners
  <2>1. PICK d \in Dues : d = IF trigger = "scheduled" THEN tasksFile.due ELSE 1
    BY <1>1, <1>2
  <2>2. 0 \in 0..MaxWakeTime /\ 0 \in 0..MaxWakeEdits
    BY WakeupAssumption
  <2>3. [Resting EXCEPT !.at = "lease", !.trigger = trigger, !.due = d] \in Runners
    BY <2>2 DEF Resting, Runners
  <2>4. QED
    BY <2>1, <2>3
<1>5. runner' \in [WakeHosts -> Runners] /\ runner'[h].at = "lease"
  BY <1>1, <1>3, <1>4 DEF Resting
<1>6. QED
  BY <1>1, <1>3, <1>5 DEF WakeTypeOK, StartRun

(* What DecideClaim does: it goes on to write, without a claim or with one   *)
(* that nobody had.                                                         *)
LEMMA DecideClaimCases ==
  ASSUME WakeTypeOK, NEW h \in WakeHosts, DecideClaim(h)
  PROVE  \E kind \in {"write", "write claim"}, file \in TasksFiles :
           /\ change' = [change EXCEPT ![h].kind = kind, ![h].saw = file]
           /\ nextRun' \in 1..(MaxWakeRuns + 1)
           /\ \/ kind = "write" /\ UNCHANGED <<claimed, runner>>
              \/ /\ kind = "write claim" /\ nextRun \in RunIds /\ file.runs[nextRun] = "running"
                 /\ runner' = [runner EXCEPT ![h].id = nextRun, ![h].now = 0,
                                             ![h].version = change[h].saw.version]
                 /\ \/ runner[h].trigger # "scheduled" /\ UNCHANGED claimed
                    \/ /\ runner[h].trigger = "scheduled" /\ runner[h].due \notin claimed
                       /\ claimed' = claimed \cup {runner[h].due}
<1> DEFINE r == runner[h]
           saw == change[h].saw
           scheduled == r.trigger = "scheduled"
           next == IF scheduled THEN Advanced(r, saw) ELSE saw
<1>1. /\ r \in Runners /\ change[h] \in Changes /\ nextRun \in 1..(MaxWakeRuns + 1)
      /\ MaxWakeRuns \in Nat
  BY WakeupAssumption DEF WakeTypeOK, DecideClaim
<1>2. saw \in TasksFiles /\ r.due \in Dues /\ r.now \in 0..MaxWakeTime
  BY <1>1 DEF Changes, Runners
<1>3. NextDue(r.now) \in Dues
  BY <1>2, NextDueIsDue
<1>4. next \in TasksFiles /\ next.due \in Dues
  <2>1. Advanced(r, saw) \in TasksFiles
    BY <1>2, <1>3, FileFields DEF Advanced
  <2>2. next \in TasksFiles
    BY <1>2, <2>1
  <2> HIDE DEF next
  <2>3. QED
    BY <2>2, FileFields
<1>5. nextRun <= MaxWakeRuns => nextRun \in RunIds /\ nextRun + 1 \in 1..(MaxWakeRuns + 1)
  BY <1>1 DEF RunIds
<1>6. \/ \E file \in TasksFiles :
           /\ change' = [change EXCEPT ![h].kind = "write", ![h].saw = file]
           /\ UNCHANGED <<claimed, nextRun, runner>>
      \/ /\ nextRun <= MaxWakeRuns /\ nextRun' = nextRun + 1 /\ UNCHANGED <<claimed, runner>>
         /\ \E file \in TasksFiles : change' = [change EXCEPT ![h].kind = "write", ![h].saw = file]
      \/ /\ nextRun <= MaxWakeRuns /\ nextRun' = nextRun + 1
         /\ scheduled => r.due \notin claimed
         /\ change' = [change EXCEPT ![h].kind = "write claim",
                                     ![h].saw = [next EXCEPT !.runs[nextRun] = "running"]]
         /\ claimed' = IF scheduled THEN claimed \cup {r.due} ELSE claimed
         /\ runner' = [runner EXCEPT ![h].id = nextRun, ![h].now = 0, ![h].version = saw.version]
  <2>1. [saw EXCEPT !.due = next.due] \in TasksFiles
    BY <1>2, <1>4, FileFields
  <2>2. nextRun <= MaxWakeRuns => [next EXCEPT !.runs[nextRun] = "missed"] \in TasksFiles
    BY <1>4, <1>5, FileFields DEF RunStatus
  <2>3. QED
    BY <1>2, <1>4, <2>1, <2>2 DEF DecideClaim, ClaimFileExists
<1> HIDE DEF r, saw, next
<1>7. nextRun <= MaxWakeRuns =>
        /\ [next EXCEPT !.runs[nextRun] = "running"] \in TasksFiles
        /\ [next EXCEPT !.runs[nextRun] = "running"].runs[nextRun] = "running"
  BY <1>4, <1>5, FileFields DEF RunStatus
<1>8. CASE \E file \in TasksFiles :
             /\ change' = [change EXCEPT ![h].kind = "write", ![h].saw = file]
             /\ UNCHANGED <<claimed, nextRun, runner>>
  BY <1>1, <1>8
<1>9. CASE /\ nextRun <= MaxWakeRuns /\ nextRun' = nextRun + 1 /\ UNCHANGED <<claimed, runner>>
           /\ \E file \in TasksFiles : change' = [change EXCEPT ![h].kind = "write", ![h].saw = file]
  BY <1>5, <1>9
<1>10. CASE /\ nextRun <= MaxWakeRuns /\ nextRun' = nextRun + 1
            /\ scheduled => r.due \notin claimed
            /\ change' = [change EXCEPT ![h].kind = "write claim",
                                        ![h].saw = [next EXCEPT !.runs[nextRun] = "running"]]
            /\ claimed' = IF scheduled THEN claimed \cup {r.due} ELSE claimed
            /\ runner' = [runner EXCEPT ![h].id = nextRun, ![h].now = 0, ![h].version = saw.version]
  <2>1. PICK file \in TasksFiles : /\ file = [next EXCEPT !.runs[nextRun] = "running"]
                                   /\ file.runs[nextRun] = "running"
    BY <1>7, <1>10
  <2>2. change' = [change EXCEPT ![h].kind = "write claim", ![h].saw = file]
    BY <1>10, <2>1
  <2>3. nextRun \in RunIds /\ nextRun' \in 1..(MaxWakeRuns + 1)
    BY <1>5, <1>10
  <2>4. runner' = [runner EXCEPT ![h].id = nextRun, ![h].now = 0, ![h].version = change[h].saw.version]
    BY <1>10 DEF saw
  <2>5. \/ runner[h].trigger # "scheduled" /\ UNCHANGED claimed
        \/ /\ runner[h].trigger = "scheduled" /\ runner[h].due \notin claimed
           /\ claimed' = claimed \cup {runner[h].due}
    BY <1>10 DEF r
  <2>6. QED
    BY <2>1, <2>2, <2>3, <2>4, <2>5
<1>11. QED
  BY <1>6, <1>8, <1>9, <1>10

-----------------------------------------------------------------------------
(* Every variable keeps its type.                                           *)
LEMMA WakeTypeStep ==
  ASSUME WakeTypeOK, [WakeNext]_wakeVars
  PROVE  WakeTypeOK'
<1>1. CASE UNCHANGED wakeVars
  BY <1>1 DEF wakeVars, WakeTypeOK
<1>2. ASSUME NEW h \in WakeHosts, StartRun(h) PROVE WakeTypeOK'
  BY <1>2, StartRunTypes
<1>3. ASSUME NEW h \in WakeHosts, TakeRunLock(h) PROVE WakeTypeOK'
  <2>1. lockOf' \in [Locks -> WakeHosts \cup {NoHost}] /\ lockStale' \subseteq Locks
    BY <1>3, LockTypes DEF TakeRunLock, Locks
  <2>2. runner' \in [WakeHosts -> Runners]
    <3>1. runner \in [WakeHosts -> Runners] /\ wakeNow \in 0..MaxWakeTime /\ 0 \in 0..MaxWakeTime
      BY WakeupAssumption DEF WakeTypeOK
    <3>2. PICK now \in 0..MaxWakeTime : runner' = [runner EXCEPT ![h].at = "claim", ![h].now = now]
      BY <1>3, <3>1 DEF TakeRunLock
    <3>3. [[runner[h] EXCEPT !.at = "claim"] EXCEPT !.now = now] \in Runners
      <4>1. runner[h] \in Runners
        BY <3>1
      <4>2. QED
        BY <4>1 DEF Runners
    <3>4. runner' = [runner EXCEPT ![h] = [[runner[h] EXCEPT !.at = "claim"] EXCEPT !.now = now]]
      BY <3>1, <3>2
    <3>5. QED
      BY <3>1, <3>3, <3>4
  <2>3. QED
    BY <1>3, <2>1, <2>2 DEF WakeTypeOK, TakeRunLock
<1>4. ASSUME NEW h \in WakeHosts, RunLockBusy(h) PROVE WakeTypeOK'
  <2>1. runner' \in [WakeHosts -> Runners]
    BY <1>4, RunnerTypes DEF RunLockBusy
  <2>2. QED
    BY <1>4, <2>1 DEF WakeTypeOK, RunLockBusy
<1>5. ASSUME NEW h \in WakeHosts, BeginClaim(h) \/ BeginFinish(h) \/ BeginRecover(h) PROVE WakeTypeOK'
  <2>1. UNCHANGED <<wakeNow, tasksFile, claimed, nextRun, wakeFaults, requested>>
    BY <1>5 DEF BeginClaim, BeginFinish, BeginRecover
  <2>2. CASE \E kind \in {"claim", "finish", "recover"} : BeginChange(h, kind) /\ UNCHANGED runner
    <3>1. /\ lockOf' \in [Locks -> WakeHosts \cup {NoHost}] /\ lockStale' \subseteq Locks
          /\ change' \in [WakeHosts -> Changes \cup {NoChange}]
      BY <2>2, BeginChangeTypes
    <3>2. QED
      BY <2>1, <2>2, <3>1 DEF WakeTypeOK
  <2>3. CASE RunnerTo(h, "release") /\ UNCHANGED <<change, lockOf, lockStale>>
    <3>1. runner' \in [WakeHosts -> Runners]
      BY <2>3, RunnerTypes
    <3>2. QED
      BY <2>1, <2>3, <3>1 DEF WakeTypeOK
  <2>4. QED
    BY <1>5, <2>2, <2>3 DEF BeginClaim, BeginFinish, BeginRecover
<1>6. ASSUME NEW h \in WakeHosts, DecideClaim(h) PROVE WakeTypeOK'
  <2>1. PICK kind \in {"write", "write claim"}, file \in TasksFiles :
           /\ change' = [change EXCEPT ![h].kind = kind, ![h].saw = file]
           /\ nextRun' \in 1..(MaxWakeRuns + 1)
           /\ \/ kind = "write" /\ UNCHANGED <<claimed, runner>>
              \/ /\ kind = "write claim" /\ nextRun \in RunIds /\ file.runs[nextRun] = "running"
                 /\ runner' = [runner EXCEPT ![h].id = nextRun, ![h].now = 0,
                                             ![h].version = change[h].saw.version]
                 /\ \/ runner[h].trigger # "scheduled" /\ UNCHANGED claimed
                    \/ /\ runner[h].trigger = "scheduled" /\ runner[h].due \notin claimed
                       /\ claimed' = claimed \cup {runner[h].due}
    BY <1>6, DecideClaimCases
  <2>2. change[h] \in Changes /\ change[h].saw \in TasksFiles /\ runner[h] \in Runners
    BY <1>6 DEF WakeTypeOK, DecideClaim, Changes
  <2>3. change' \in [WakeHosts -> Changes \cup {NoChange}]
    BY <2>1, <2>2 DEF WakeTypeOK, Changes
  <2>4. runner' \in [WakeHosts -> Runners] /\ claimed' \subseteq Dues
    <3>1. 0 \in 0..MaxWakeTime
      BY ZeroIsATime
    <3>2. PICK version \in 0..MaxWakeEdits : version = change[h].saw.version
      BY <2>2 DEF TasksFiles
    <3>3. PICK r \in Runners : r = runner[h]
      BY <2>2
    <3>4. r.due \in Dues /\ \A id \in RunIds :
            [[[r EXCEPT !.id = id] EXCEPT !.now = 0] EXCEPT !.version = version] \in Runners
      BY <3>1 DEF Runners
    <3>5. kind = "write claim" => runner' = [runner EXCEPT ![h] =
            [[[r EXCEPT !.id = nextRun] EXCEPT !.now = 0] EXCEPT !.version = version]]
      BY <2>1, <3>2, <3>3 DEF WakeTypeOK
    <3>6. runner' \in [WakeHosts -> Runners]
      <4>1. runner \in [WakeHosts -> Runners]
        BY DEF WakeTypeOK
      <4>2. CASE kind = "write"
        BY <2>1, <4>1, <4>2
      <4>3. CASE kind = "write claim"
        <5>1. PICK new \in Runners : runner' = [runner EXCEPT ![h] = new]
          BY <2>1, <3>4, <3>5, <4>3
        <5>2. QED
          BY <4>1, <5>1
      <4>4. QED
        BY <4>2, <4>3
    <3>7. claimed' \subseteq Dues
      BY <2>1, <3>3, <3>4 DEF WakeTypeOK
    <3>8. QED
      BY <3>6, <3>7
  <2>5. QED
    BY <1>6, <2>1, <2>3, <2>4 DEF WakeTypeOK, DecideClaim
<1>7. ASSUME NEW h \in WakeHosts, EndClaim(h) PROVE WakeTypeOK'
  <2>1. change[h].saw \in TasksFiles
    BY <1>7 DEF WakeTypeOK, EndClaim, Changes
  <2>2. PICK told \in BOOLEAN : /\ EndChange(h, change[h].saw, told)
                                /\ \E position \in {"check", "release"} : RunnerTo(h, position)
    BY <1>7 DEF EndClaim
  <2>3. runner' \in [WakeHosts -> Runners]
    BY <2>2, RunnerTypes
  <2>4. /\ tasksFile' \in TasksFiles /\ lockOf' \in [Locks -> WakeHosts \cup {NoHost}]
        /\ lockStale' \subseteq Locks /\ change' \in [WakeHosts -> Changes \cup {NoChange}]
    BY <2>1, <2>2, EndChangeTypes
  <2>5. QED
    BY <1>7, <2>3, <2>4 DEF WakeTypeOK, EndClaim
<1>8. ASSUME NEW h \in WakeHosts, CheckAndRequest(h) PROVE WakeTypeOK'
  <2>1. runner' \in [WakeHosts -> Runners]
    BY <1>8, RunnerTypes DEF CheckAndRequest
  <2>2. runner[h].due \in Dues
    BY DEF WakeTypeOK, Runners
  <2>3. requested' \in [Dues -> Nat]
    BY <1>8, <2>2 DEF WakeTypeOK, CheckAndRequest
  <2>4. QED
    BY <1>8, <2>1, <2>3 DEF WakeTypeOK, CheckAndRequest
<1>9. ASSUME NEW h \in WakeHosts, EndFinish(h) PROVE WakeTypeOK'
  <2>1. change[h].saw \in TasksFiles
    BY <1>9 DEF WakeTypeOK, EndFinish, Changes
  <2>2. [change[h].saw EXCEPT !.runs[runner[h].id] = "ended"] \in TasksFiles
    BY <2>1 DEF TasksFiles, RunStatus
  <2>3. PICK file \in TasksFiles, told \in BOOLEAN : EndChange(h, file, told)
    BY <1>9, <2>1, <2>2 DEF EndFinish
  <2>4. runner' \in [WakeHosts -> Runners]
    BY <1>9, RunnerTypes DEF EndFinish
  <2>5. /\ tasksFile' \in TasksFiles /\ lockOf' \in [Locks -> WakeHosts \cup {NoHost}]
        /\ lockStale' \subseteq Locks /\ change' \in [WakeHosts -> Changes \cup {NoChange}]
    BY <2>3, EndChangeTypes
  <2>6. QED
    BY <1>9, <2>4, <2>5 DEF WakeTypeOK, EndFinish
<1>10. ASSUME NEW h \in WakeHosts, ReleaseRunLock(h) PROVE WakeTypeOK'
  <2>1. \E lost \in BOOLEAN : Releases("run", lost)
    BY <1>10 DEF ReleaseRunLock, Noticed
  <2>2. lockOf' \in [Locks -> WakeHosts \cup {NoHost}] /\ lockStale' \subseteq Locks
    BY <2>1, LockTypes DEF Locks
  <2>3. Resting \in Runners
    <3>1. 1 \in Dues
      BY NextDueIsDue, WakeupAssumption DEF Dues
    <3>2. QED
      BY <3>1, WakeupAssumption DEF Resting, Runners
  <2>4. QED
    BY <1>10, <2>2, <2>3 DEF WakeTypeOK, ReleaseRunLock
<1>11. ASSUME NEW h \in WakeHosts, EndRecover(h) PROVE WakeTypeOK'
  <2>1. change[h].saw \in TasksFiles
    BY <1>11 DEF WakeTypeOK, EndRecover, Changes
  <2> DEFINE gone == [i \in RunIds |-> IF change[h].saw.runs[i] = "running" THEN "interrupted"
                                       ELSE change[h].saw.runs[i]]
  <2>2. gone \in [RunIds -> RunStatus]
    <3>1. PICK runs \in [RunIds -> RunStatus] : runs = change[h].saw.runs
      BY <2>1 DEF TasksFiles
    <3>2. \A i \in RunIds : (IF runs[i] = "running" THEN "interrupted" ELSE runs[i]) \in RunStatus
      BY DEF RunStatus
    <3>3. QED
      BY <3>1, <3>2
  <2>3. [change[h].saw EXCEPT !.runs = gone] \in TasksFiles
    <3> HIDE DEF gone
    <3> QED BY <2>1, <2>2, FileFields
  <2>4. PICK file \in TasksFiles, told \in BOOLEAN : EndChange(h, file, told)
    <3>1. PICK told \in BOOLEAN :
            EndChange(h, IF RunIsHeld(h) THEN change[h].saw ELSE [change[h].saw EXCEPT !.runs = gone], told)
      BY <1>11 DEF EndRecover
    <3> HIDE DEF gone
    <3>2. PICK file \in TasksFiles :
            file = IF RunIsHeld(h) THEN change[h].saw ELSE [change[h].saw EXCEPT !.runs = gone]
      BY <2>1, <2>3
    <3>3. EndChange(h, file, told)
      BY <3>1, <3>2
    <3>4. QED
      BY <3>3
  <2>5. /\ tasksFile' \in TasksFiles /\ lockOf' \in [Locks -> WakeHosts \cup {NoHost}]
        /\ lockStale' \subseteq Locks /\ change' \in [WakeHosts -> Changes \cup {NoChange}]
    BY <2>4, EndChangeTypes
  <2>6. QED
    BY <1>11, <2>5 DEF WakeTypeOK, EndRecover
<1>12. ASSUME NEW h \in WakeHosts, HostSleeps(h) PROVE WakeTypeOK'
  BY <1>12 DEF WakeTypeOK, HostSleeps
<1>13. ASSUME NEW h \in WakeHosts, HostDies(h) PROVE WakeTypeOK'
  <2>1. runner' \in [WakeHosts -> Runners]
    BY <1>13, RunnerTypes DEF HostDies, RunnerTo
  <2>2. QED
    BY <1>13, <2>1 DEF WakeTypeOK, HostDies
<1>14. CASE EditTask
  <2>1. tasksFile \in TasksFiles /\ wakeNow \in 0..MaxWakeTime
    BY DEF WakeTypeOK
  <2>2. PICK enabled \in BOOLEAN :
          tasksFile' = [tasksFile EXCEPT !.version = @ + 1, !.enabled = enabled,
                          !.due = IF enabled THEN NextDue(wakeNow) ELSE @]
    BY <1>14 DEF EditTask
  <2>3. NextDue(wakeNow) \in Dues
    BY <2>1, NextDueIsDue
  <2>4. tasksFile.version + 1 \in 0..MaxWakeEdits
    <3>1. PICK version \in 0..MaxWakeEdits : version = tasksFile.version
      BY <2>1 DEF TasksFiles
    <3>2. version < MaxWakeEdits
      BY <1>14, <3>1 DEF EditTask
    <3>3. version + 1 \in 0..MaxWakeEdits
      BY <3>2, WakeupAssumption
    <3>4. QED
      BY <3>1, <3>3
  <2>5. PICK due \in Dues, version \in 0..MaxWakeEdits :
          tasksFile' = [tasksFile EXCEPT !.version = version, !.enabled = enabled, !.due = due]
    <3>1. PICK due \in Dues : due = IF enabled THEN NextDue(wakeNow) ELSE tasksFile.due
      BY <2>1, <2>3, FileFields
    <3>2. QED
      BY <2>2, <2>4, <3>1
  <2>6. tasksFile' \in TasksFiles
    BY <2>1, <2>5 DEF TasksFiles
  <2>7. QED
    BY <1>14, <2>6 DEF WakeTypeOK, EditTask
<1>15. CASE WakeTick
  BY <1>15, WakeupAssumption DEF WakeTypeOK, WakeTick
<1>16. CASE DeadLocksAge
  BY <1>16 DEF WakeTypeOK, DeadLocksAge
<1>17. QED
  BY <1>1, <1>2, <1>3, <1>4, <1>5, <1>6, <1>7, <1>8, <1>9, <1>10, <1>11, <1>12, <1>13, <1>14, <1>15,
     <1>16 DEF WakeNext

-----------------------------------------------------------------------------
(* What a host does, and what that leaves alone.                            *)
HostStep(h) ==
  \/ StartRun(h) \/ TakeRunLock(h) \/ RunLockBusy(h) \/ BeginClaim(h) \/ DecideClaim(h)
  \/ EndClaim(h) \/ CheckAndRequest(h) \/ BeginFinish(h)
  \/ EndFinish(h) \/ ReleaseRunLock(h) \/ BeginRecover(h) \/ EndRecover(h)
  \/ HostSleeps(h)
  \/ HostDies(h)

(* The mutation a host begins or ends is its own, and it begins one at a time. *)
LEMMA ChangeOfBegin ==
  ASSUME WakeTypeOK, NEW h \in WakeHosts, NEW kind, BeginChange(h, kind)
  PROVE  /\ change[h] = NoChange /\ change'[h].kind = kind /\ change'[h].saw = tasksFile
         /\ \A g \in WakeHosts \ {h} : change'[g] = change[g]
<1>1. \A new : new = [kind |-> kind, saw |-> tasksFile] => new.kind = kind /\ new.saw = tasksFile
  OBVIOUS
<1>2. PICK new : new = [kind |-> kind, saw |-> tasksFile]
  OBVIOUS
<1>3. change' = [change EXCEPT ![h] = new] /\ change[h] = NoChange
  BY <1>2 DEF BeginChange
<1>4. change'[h] = new /\ \A g \in WakeHosts \ {h} : change'[g] = change[g]
  BY <1>3 DEF WakeTypeOK
<1>5. QED
  BY <1>1, <1>2, <1>3, <1>4

LEMMA ChangeOfEnd ==
  ASSUME WakeTypeOK, NEW h \in WakeHosts, NEW file, NEW told, EndChange(h, file, told)
  PROVE  /\ change'[h] = NoChange
         /\ \A g \in WakeHosts \ {h} : change'[g] = change[g]
BY DEF EndChange, WakeTypeOK

(* What a step does to the runner and the mutation of its own host.          *)
LEMMA OwnStep ==
  ASSUME WakeTypeOK, NEW h \in WakeHosts, HostStep(h)
  PROVE  /\ \A g \in WakeHosts \ {h} : runner'[g] = runner[g] /\ change'[g] = change[g]
         /\ StartRun(h) => runner[h].at = "none" /\ runner'[h].at = "lease" /\ change'[h] = change[h]
         /\ TakeRunLock(h) => /\ runner[h].at = "lease" /\ runner'[h].at = "claim" /\ change'[h] = change[h]
                              /\ runner'[h].id = runner[h].id
         /\ RunLockBusy(h) => runner[h].at = "lease" /\ runner'[h].at = "none" /\ change'[h] = change[h]
         /\ BeginClaim(h) => /\ runner[h].at = "claim" /\ change[h] = NoChange
                             /\ \/ /\ runner'[h] = runner[h]
                                   /\ change'[h].kind = "claim" /\ change'[h].saw = tasksFile
                                \/ runner'[h].at = "release" /\ change'[h] = NoChange
         /\ DecideClaim(h) => /\ change[h] # NoChange /\ change[h].kind = "claim"
                              /\ runner'[h].at = runner[h].at /\ runner'[h].due = runner[h].due
                              /\ runner'[h].trigger = runner[h].trigger
                              /\ change'[h] # NoChange /\ change'[h].kind \in {"write", "write claim"}
         /\ EndClaim(h) => /\ change[h] # NoChange /\ change[h].kind \in {"write", "write claim"}
                           /\ change'[h] = NoChange /\ runner'[h].at \in {"check", "release"}
                           /\ runner'[h].at = "check" => change[h].kind = "write claim"
                           /\ runner'[h].due = runner[h].due /\ runner'[h].trigger = runner[h].trigger
                           /\ runner'[h].id = runner[h].id
         /\ CheckAndRequest(h) => /\ runner[h].at = "check" /\ runner'[h].at \in {"finish", "sent"}
                                  /\ change'[h] = change[h] /\ runner'[h].id = runner[h].id
         /\ BeginFinish(h) => /\ runner[h].at \in {"sent", "finish"} /\ change[h] = NoChange
                              /\ \/ /\ runner'[h] = runner[h]
                                    /\ change'[h].kind = "finish" /\ change'[h].saw = tasksFile
                                 \/ runner'[h].at = "release" /\ change'[h] = NoChange
         /\ EndFinish(h) => /\ change[h] # NoChange /\ change[h].kind = "finish"
                            /\ change'[h] = NoChange /\ runner'[h].at = "release"
         /\ ReleaseRunLock(h) => runner[h].at = "release" /\ runner'[h].at = "none" /\ change'[h] = change[h]
         /\ BeginRecover(h) => /\ runner[h].at # "dead" /\ runner'[h] = runner[h] /\ change[h] = NoChange
                               /\ change'[h].kind = "recover" /\ change'[h].saw = tasksFile
         /\ EndRecover(h) => /\ change[h] # NoChange /\ change[h].kind = "recover"
                             /\ runner'[h] = runner[h] /\ change'[h] = NoChange
         /\ HostSleeps(h) => runner'[h] = runner[h] /\ change'[h] = change[h]
         /\ HostDies(h) => runner'[h].at = "dead" /\ change'[h] = NoChange
<1>1. runner \in [WakeHosts -> Runners] /\ change \in [WakeHosts -> Changes \cup {NoChange}]
  BY DEF WakeTypeOK
<1> DEFINE Others == \A g \in WakeHosts \ {h} : runner'[g] = runner[g] /\ change'[g] = change[g]
<1>2. StartRun(h) => Others /\ runner[h].at = "none" /\ runner'[h].at = "lease" /\ change'[h] = change[h]
  BY StartRunTypes DEF StartRun
<1>3. TakeRunLock(h) =>
        /\ Others /\ runner[h].at = "lease" /\ runner'[h].at = "claim" /\ change'[h] = change[h]
        /\ runner'[h].id = runner[h].id
  <2> SUFFICES ASSUME TakeRunLock(h)
               PROVE  /\ Others /\ runner[h].at = "lease" /\ runner'[h].at = "claim"
                      /\ change'[h] = change[h] /\ runner'[h].id = runner[h].id
    OBVIOUS
  <2>1. PICK now : now = IF runner[h].trigger = "scheduled" THEN wakeNow ELSE 0
    OBVIOUS
  <2>2. runner' = [runner EXCEPT ![h].at = "claim", ![h].now = now]
    BY <2>1 DEF TakeRunLock
  <2>3. PICK r \in Runners : r = runner[h]
    BY <1>1
  <2>4. runner'[h] = [[r EXCEPT !.at = "claim"] EXCEPT !.now = now]
    BY <1>1, <2>2, <2>3
  <2>5. \A g \in WakeHosts \ {h} : runner'[g] = runner[g]
    BY <1>1, <2>2
  <2>6. runner[h].at = "lease" /\ UNCHANGED change
    BY DEF TakeRunLock
  <2>7. runner'[h].at = "claim" /\ runner'[h].id = runner[h].id
    BY <2>3, <2>4 DEF Runners
  <2>8. QED
    BY <2>5, <2>6, <2>7
<1>4. RunLockBusy(h) => Others /\ runner[h].at = "lease" /\ runner'[h].at = "none" /\ change'[h] = change[h]
  BY RunnerTypes DEF RunLockBusy
<1>5. BeginClaim(h) => /\ Others /\ runner[h].at = "claim" /\ change[h] = NoChange
                       /\ \/ /\ runner'[h] = runner[h]
                             /\ change'[h].kind = "claim" /\ change'[h].saw = tasksFile
                          \/ runner'[h].at = "release" /\ change'[h] = NoChange
  BY RunnerTypes, ChangeOfBegin DEF BeginClaim, LockBusy
<1>6. DecideClaim(h) =>
        /\ Others /\ change[h] # NoChange /\ change[h].kind = "claim"
        /\ runner'[h].at = runner[h].at /\ runner'[h].due = runner[h].due
        /\ runner'[h].trigger = runner[h].trigger
        /\ change'[h] # NoChange /\ change'[h].kind \in {"write", "write claim"}
  <2> SUFFICES ASSUME DecideClaim(h)
               PROVE  /\ Others /\ change[h] # NoChange /\ change[h].kind = "claim"
                      /\ runner'[h].at = runner[h].at /\ runner'[h].due = runner[h].due
                      /\ runner'[h].trigger = runner[h].trigger
                      /\ change'[h] # NoChange /\ change'[h].kind \in {"write", "write claim"}
    OBVIOUS
  <2>1. PICK kind \in {"write", "write claim"}, file \in TasksFiles :
           /\ change' = [change EXCEPT ![h].kind = kind, ![h].saw = file]
           /\ \/ UNCHANGED runner
              \/ runner' = [runner EXCEPT ![h].id = nextRun, ![h].now = 0,
                                          ![h].version = change[h].saw.version]
    BY DecideClaimCases
  <2>2. change[h] # NoChange /\ change[h].kind = "claim" /\ change[h] \in Changes
    BY <1>1 DEF DecideClaim
  <2>3. change'[h] = [[change[h] EXCEPT !.kind = kind] EXCEPT !.saw = file]
    BY <1>1, <2>1
  <2>4. change'[h].kind = kind /\ change'[h] # NoChange
    <3>1. PICK c \in Changes : c = change[h]
      BY <2>2
    <3>2. [[c EXCEPT !.kind = kind] EXCEPT !.saw = file].kind = kind
      BY DEF Changes
    <3>3. [[c EXCEPT !.kind = kind] EXCEPT !.saw = file] # NoChange
      BY NoChangeAssumption DEF Changes
    <3>4. QED
      BY <2>3, <3>1, <3>2, <3>3
  <2>5. /\ runner'[h].at = runner[h].at /\ runner'[h].due = runner[h].due
        /\ runner'[h].trigger = runner[h].trigger
        /\ \A g \in WakeHosts \ {h} : runner'[g] = runner[g]
    <3>1. CASE UNCHANGED runner
      BY <3>1
    <3>2. CASE runner' = [runner EXCEPT ![h].id = nextRun, ![h].now = 0,
                                        ![h].version = change[h].saw.version]
      <4>1. PICK r \in Runners : r = runner[h]
        BY <1>1
      <4>2. runner'[h] = [[[r EXCEPT !.id = nextRun] EXCEPT !.now = 0] EXCEPT !.version = change[h].saw.version]
        BY <1>1, <3>2, <4>1
      <4>3. QED
        BY <1>1, <3>2, <4>1, <4>2 DEF Runners
    <3>3. QED
      BY <2>1, <3>1, <3>2
  <2>6. \A g \in WakeHosts \ {h} : change'[g] = change[g]
    BY <1>1, <2>1
  <2>7. QED
    BY <2>2, <2>4, <2>5, <2>6
<1>7. EndClaim(h) => /\ Others /\ change[h] # NoChange /\ change[h].kind \in {"write", "write claim"}
                     /\ change'[h] = NoChange /\ runner'[h].at \in {"check", "release"}
                     /\ runner'[h].at = "check" => change[h].kind = "write claim"
                     /\ runner'[h].due = runner[h].due /\ runner'[h].trigger = runner[h].trigger
                     /\ runner'[h].id = runner[h].id
  <2> SUFFICES ASSUME EndClaim(h)
               PROVE  /\ Others /\ change'[h] = NoChange /\ runner'[h].at \in {"check", "release"}
                      /\ runner'[h].at = "check" => change[h].kind = "write claim"
                      /\ runner'[h].due = runner[h].due /\ runner'[h].trigger = runner[h].trigger
                      /\ runner'[h].id = runner[h].id
    BY DEF EndClaim
  <2>1. PICK told \in BOOLEAN :
          /\ EndChange(h, change[h].saw, told)
          /\ RunnerTo(h, IF told /\ change[h].kind = "write claim" THEN "check" ELSE "release")
    BY DEF EndClaim
  <2>2. change'[h] = NoChange /\ \A g \in WakeHosts \ {h} : change'[g] = change[g]
    BY <2>1, ChangeOfEnd
  <2>3. PICK position \in {"check", "release"} :
          RunnerTo(h, position) /\ (position = "check" => change[h].kind = "write claim")
    BY <2>1
  <2>4. QED
    BY <2>2, <2>3, RunnerTypes
<1>8. CheckAndRequest(h) =>
        /\ Others /\ runner[h].at = "check" /\ runner'[h].at \in {"finish", "sent"}
        /\ change'[h] = change[h] /\ runner'[h].id = runner[h].id
  BY RunnerTypes DEF CheckAndRequest
<1>9. BeginFinish(h) => /\ Others /\ runner[h].at \in {"sent", "finish"} /\ change[h] = NoChange
                        /\ \/ /\ runner'[h] = runner[h]
                              /\ change'[h].kind = "finish" /\ change'[h].saw = tasksFile
                           \/ runner'[h].at = "release" /\ change'[h] = NoChange
  BY RunnerTypes, ChangeOfBegin DEF BeginFinish, LockBusy
<1>10. EndFinish(h) => /\ Others /\ change[h] # NoChange /\ change[h].kind = "finish"
                       /\ change'[h] = NoChange /\ runner'[h].at = "release"
  BY RunnerTypes, ChangeOfEnd DEF EndFinish
<1>11. ReleaseRunLock(h) =>
         Others /\ runner[h].at = "release" /\ runner'[h].at = "none" /\ change'[h] = change[h]
  BY <1>1 DEF ReleaseRunLock, Resting
<1>12. BeginRecover(h) => /\ Others /\ runner[h].at # "dead" /\ runner'[h] = runner[h] /\ change[h] = NoChange
                          /\ change'[h].kind = "recover" /\ change'[h].saw = tasksFile
  BY ChangeOfBegin DEF BeginRecover, Awake
<1>13. EndRecover(h) => /\ Others /\ change[h] # NoChange /\ change[h].kind = "recover"
                        /\ runner'[h] = runner[h] /\ change'[h] = NoChange
  BY ChangeOfEnd DEF EndRecover
<1>14. HostSleeps(h) => Others /\ runner'[h] = runner[h] /\ change'[h] = change[h]
  BY DEF HostSleeps
<1>15. HostDies(h) => Others /\ runner'[h].at = "dead" /\ change'[h] = NoChange
  BY <1>1, RunnerTypes DEF HostDies, RunnerTo
<1> HIDE DEF Others
<1>16. Others
  BY <1>2, <1>3, <1>4, <1>5, <1>6, <1>7, <1>8, <1>9, <1>10, <1>11, <1>12, <1>13, <1>14, <1>15 DEF HostStep
<1>17. \A g \in WakeHosts \ {h} : runner'[g] = runner[g] /\ change'[g] = change[g]
  BY <1>16 DEF Others
<1>18. QED
  BY <1>17, <1>2, <1>3, <1>4, <1>5, <1>6, <1>7, <1>8, <1>9, <1>10, <1>11, <1>12, <1>13, <1>14, <1>15

(* While a host changes the file it is where the change belongs.             *)
LEMMA ChangePlacesStep ==
  ASSUME WakeTypeOK, ChangePlaces, NEW h \in WakeHosts, HostStep(h)
  PROVE  ChangePlaces'
<1>1. SUFFICES ASSUME NEW g \in WakeHosts, change'[g] # NoChange
               PROVE  /\ change'[g].kind \in {"claim", "write claim", "write"} => runner'[g].at = "claim"
                      /\ change'[g].kind = "finish" => runner'[g].at \in {"sent", "finish"}
                      /\ runner'[g].at # "dead"
  BY DEF ChangePlaces
<1>2. CASE g # h
  <2>1. runner'[g] = runner[g] /\ change'[g] = change[g]
    BY <1>2, OwnStep
  <2>2. QED
    BY <1>1, <2>1 DEF ChangePlaces
<1>3. CASE g = h
  <2>1. change'[h] # NoChange
    BY <1>1, <1>3
  <2>2. ChangePlaces!(h)
    BY DEF ChangePlaces
  <2>3. CASE StartRun(h) \/ TakeRunLock(h) \/ RunLockBusy(h) \/ ReleaseRunLock(h)
    <3>1. /\ change'[h] = change[h] /\ runner'[h].at # "dead"
          /\ runner[h].at \notin {"claim", "sent", "finish"}
      BY <2>3, OwnStep
    <3>2. QED
      BY <1>3, <2>1, <2>2, <3>1
  <2>8. CASE CheckAndRequest(h) \/ HostSleeps(h)
    <3>1. /\ change'[h] = change[h]
          /\ \/ runner[h].at = "check" /\ runner'[h].at # "dead"
             \/ runner'[h] = runner[h]
      BY <2>8, OwnStep
    <3>2. QED
      BY <1>3, <2>1, <2>2, <3>1
  <2>4. CASE BeginClaim(h) \/ BeginFinish(h) \/ BeginRecover(h)
    BY <1>3, <2>1, <2>2, <2>4, OwnStep
  <2>5. CASE DecideClaim(h)
    BY <1>3, <2>1, <2>2, <2>5, OwnStep
  <2>6. CASE EndClaim(h) \/ EndFinish(h) \/ EndRecover(h) \/ HostDies(h)
    BY <2>1, <2>6, OwnStep
  <2>7. QED
    BY <2>3, <2>8, <2>4, <2>5, <2>6 DEF HostStep
<1>4. QED
  BY <1>2, <1>3

(* What a step does to the claims of its host, the claim files and the        *)
(* requests: only the decision of a claim makes one, and where there was none, *)
(* and only its use makes a request.                                         *)
LEMMA ClaimsOfStep ==
  ASSUME WakeTypeOK, ChangePlaces, NEW h \in WakeHosts, HostStep(h)
  PROVE  \/ UNCHANGED <<claimed, requested>> /\ \A d \in Dues : Claims(h, d)' => Claims(h, d)
         \/ /\ UNCHANGED claimed /\ Claims(h, runner[h].due)
            /\ requested' = [requested EXCEPT ![runner[h].due] = @ + 1]
            /\ \A d \in Dues : ~Claims(h, d)'
         \/ /\ runner[h].due \notin claimed /\ claimed' = claimed \cup {runner[h].due}
            /\ UNCHANGED requested
            /\ \A d \in Dues : Claims(h, d)' => d = runner[h].due
<1>1. CASE DecideClaim(h)
  <2>1. PICK kind \in {"write", "write claim"}, file \in TasksFiles :
           /\ change' = [change EXCEPT ![h].kind = kind, ![h].saw = file]
           /\ \/ kind = "write" /\ UNCHANGED <<claimed, runner>>
              \/ /\ kind = "write claim"
                 /\ \/ runner[h].trigger # "scheduled" /\ UNCHANGED claimed
                    \/ /\ runner[h].trigger = "scheduled" /\ runner[h].due \notin claimed
                       /\ claimed' = claimed \cup {runner[h].due}
    BY <1>1, DecideClaimCases
  <2>2. /\ runner'[h].at = runner[h].at /\ runner'[h].due = runner[h].due
        /\ runner'[h].trigger = runner[h].trigger /\ runner[h].at = "claim"
    BY <1>1, OwnStep DEF ChangePlaces
  <2>3. change'[h].kind = kind
    <3>1. PICK c \in Changes : c = change[h]
      BY <1>1 DEF DecideClaim, WakeTypeOK
    <3>2. change'[h] = [[c EXCEPT !.kind = kind] EXCEPT !.saw = file]
      BY <2>1, <3>1 DEF WakeTypeOK
    <3>3. QED
      BY <3>2 DEF Changes
  <2>4. UNCHANGED requested
    BY <1>1 DEF DecideClaim
  <2>5. QED
    BY <2>1, <2>2, <2>3, <2>4 DEF Claims
<1>2. CASE CheckAndRequest(h)
  <2>1. runner[h].at = "check" /\ runner'[h].at \in {"finish", "sent"} /\ change'[h] = change[h]
    BY <1>2, OwnStep
  <2>2. \A d \in Dues : ~Claims(h, d)'
    BY <2>1 DEF Claims, ChangePlaces
  <2>3. UNCHANGED claimed
    BY <1>2 DEF CheckAndRequest
  <2>4. \/ UNCHANGED requested
        \/ runner[h].trigger # "manual" /\ requested' = [requested EXCEPT ![runner[h].due] = @ + 1]
    BY <1>2 DEF CheckAndRequest
  <2>5. runner[h].trigger # "manual" => Claims(h, runner[h].due)
    BY <2>1 DEF Claims, WakeTypeOK, Runners
  <2>6. QED
    BY <2>2, <2>3, <2>4, <2>5
<1>3. CASE ~DecideClaim(h) /\ ~CheckAndRequest(h)
  <2>1. UNCHANGED <<claimed, requested>>
    BY <1>3 DEF HostStep, StartRun, TakeRunLock, RunLockBusy, BeginClaim, EndClaim, BeginFinish,
       EndFinish, ReleaseRunLock, BeginRecover, EndRecover, HostSleeps, HostDies
  <2>2. ASSUME NEW d \in Dues, Claims(h, d)' PROVE Claims(h, d)
    <3>1. /\ runner'[h].trigger = "scheduled" /\ runner'[h].due = d
          /\ (change'[h] # NoChange /\ change'[h].kind = "write claim") \/ runner'[h].at = "check"
      BY <2>2 DEF Claims
    <3>2. CASE EndClaim(h)
      <4>1. /\ change[h] # NoChange /\ change'[h] = NoChange
            /\ runner'[h].at = "check" => change[h].kind = "write claim"
            /\ runner'[h].due = runner[h].due /\ runner'[h].trigger = runner[h].trigger
        BY <3>2, OwnStep
      <4>2. change[h].kind = "write claim"
        BY <3>1, <4>1
      <4>3. QED
        BY <3>1, <4>1, <4>2 DEF Claims
    <3>3. CASE BeginRecover(h) \/ EndRecover(h) \/ HostSleeps(h)
      <4>1. /\ runner'[h] = runner[h]
            /\ change'[h] = change[h] \/ change'[h] = NoChange
               \/ change'[h].kind = "recover"
        BY <3>3, OwnStep
      <4>2. change'[h] = change[h] \/ runner'[h].at = "check"
        BY <3>1, <4>1
      <4>3. QED
        BY <3>1, <4>1, <4>2 DEF Claims
    <3>4. CASE StartRun(h) \/ TakeRunLock(h) \/ RunLockBusy(h) \/ ReleaseRunLock(h)
      BY <3>1, <3>4, OwnStep DEF ChangePlaces
    <3>5. CASE BeginClaim(h) \/ BeginFinish(h) \/ EndFinish(h) \/ HostDies(h)
      <4>1. runner'[h].at # "check"
        BY <3>5, OwnStep
      <4>2. \/ change'[h] = NoChange
            \/ change'[h].kind \in {"claim", "finish"}
        BY <3>5, OwnStep
      <4>3. QED
        BY <3>1, <4>1, <4>2
    <3>6. QED
      BY <1>3, <3>2, <3>3, <3>4, <3>5 DEF HostStep
  <2>3. QED
    BY <2>1, <2>2
<1>4. QED
  BY <1>1, <1>2, <1>3

(* The claim that is used is nobody else's, and one that is made was nobody's. *)
LEMMA ClaimsStep ==
  ASSUME WakeTypeOK, ChangePlaces, ClaimsInv, NEW h \in WakeHosts, HostStep(h)
  PROVE  ClaimsInv'
<1>1. \A g \in WakeHosts \ {h}, d \in Dues : Claims(g, d)' => Claims(g, d)
  <2>1. \A g \in WakeHosts \ {h} : runner'[g] = runner[g] /\ change'[g] = change[g]
    BY OwnStep
  <2>2. QED
    BY <2>1 DEF Claims
<1>2. requested \in [Dues -> Nat] /\ runner[h].due \in Dues
  BY DEF WakeTypeOK, Runners
<1>3. CASE UNCHANGED <<claimed, requested>> /\ \A d \in Dues : Claims(h, d)' => Claims(h, d)
  <2>1. \A g \in WakeHosts, d \in Dues : Claims(g, d)' => Claims(g, d)
    BY <1>1, <1>3
  <2>2. QED
    BY <1>3, <2>1 DEF ClaimsInv
<1>4. CASE /\ UNCHANGED claimed /\ Claims(h, runner[h].due)
           /\ requested' = [requested EXCEPT ![runner[h].due] = @ + 1]
           /\ \A d \in Dues : ~Claims(h, d)'
  <2>1. \A g \in WakeHosts, d \in Dues : Claims(g, d)' => Claims(g, d) /\ g # h
    BY <1>1, <1>4
  <2>2. PICK due \in Dues : due = runner[h].due
    BY <1>2
  <2>3. requested[due] = 0 /\ due \in claimed /\ requested' = [requested EXCEPT ![due] = requested[due] + 1]
    BY <1>4, <2>2 DEF ClaimsInv
  <2>4. requested'[due] = 1 /\ \A d \in Dues \ {due} : requested'[d] = requested[d]
    BY <1>2, <2>3
  <2>5. \A d \in Dues : requested'[d] <= 1 /\ (requested'[d] # 0 => d \in claimed)
    BY <2>3, <2>4 DEF ClaimsInv
  <2>6. \A g \in WakeHosts, d \in Dues : Claims(g, d)' => d # due
    BY <1>4, <2>1, <2>2 DEF ClaimsInv
  <2>7. QED
    BY <1>4, <2>1, <2>4, <2>5, <2>6 DEF ClaimsInv
<1>5. CASE /\ runner[h].due \notin claimed /\ claimed' = claimed \cup {runner[h].due}
           /\ UNCHANGED requested
           /\ \A d \in Dues : Claims(h, d)' => d = runner[h].due
  <2>1. requested[runner[h].due] = 0 /\ \A g \in WakeHosts : ~Claims(g, runner[h].due)
    BY <1>2, <1>5 DEF ClaimsInv
  <2>2. \A g \in WakeHosts, d \in Dues : Claims(g, d)' => (g # h /\ Claims(g, d)) \/ (g = h /\ d = runner[h].due)
    BY <1>1, <1>5
  <2>3. \A g \in WakeHosts, d \in Dues : Claims(g, d)' => d \in claimed' /\ requested'[d] = 0
    BY <1>5, <2>1, <2>2 DEF ClaimsInv
  <2>4. \A f, g \in WakeHosts, d \in Dues : Claims(f, d)' /\ Claims(g, d)' => f = g
    BY <2>1, <2>2 DEF ClaimsInv
  <2>5. QED
    BY <1>5, <2>3, <2>4 DEF ClaimsInv
<1>6. QED
  BY <1>3, <1>4, <1>5, ClaimsOfStep

-----------------------------------------------------------------------------
(* A host has slept at the latest when it is at fault and alive, and it does  *)
(* not die afterwards.                                                      *)
LEMMA SleepersStaySo ==
  ASSUME WakeTypeOK, ChangePlaces, NEW h \in WakeHosts, HostStep(h), NobodySlept'
  PROVE  NobodySlept /\ ~HostSleeps(h)
<1>1. wakeFaults \subseteq wakeFaults' /\ wakeFaults \subseteq WakeHosts
  BY DEF WakeTypeOK, HostStep, StartRun, TakeRunLock, RunLockBusy, BeginClaim, DecideClaim, EndClaim,
     CheckAndRequest, BeginFinish, EndFinish, ReleaseRunLock, BeginRecover, EndRecover, HostSleeps,
     HostDies
<1>2. ~HostSleeps(h)
  BY OwnStep DEF HostSleeps, NobodySlept, Awake
<1>3. \A g \in wakeFaults : g # h => runner[g].at = "dead"
  <2>1. \A g \in WakeHosts \ {h} : runner'[g] = runner[g]
    BY OwnStep
  <2>2. \A g \in wakeFaults : runner'[g].at = "dead"
    BY <1>1 DEF NobodySlept
  <2>3. QED
    BY <1>1, <2>1, <2>2
<1>4. h \in wakeFaults => runner[h].at = "dead"
  <2>1. SUFFICES ASSUME h \in wakeFaults PROVE runner[h].at = "dead"
    OBVIOUS
  <2>2. runner'[h].at = "dead"
    BY <1>1, <2>1 DEF NobodySlept
  <2>3. ~HostDies(h)
    BY <2>1 DEF HostDies
  <2>4. ~StartRun(h) /\ ~TakeRunLock(h) /\ ~RunLockBusy(h) /\ ~CheckAndRequest(h) /\ ~ReleaseRunLock(h)
    BY <2>2, OwnStep
  <2>5. ~EndClaim(h) /\ ~EndFinish(h) /\ ~BeginRecover(h)
    BY <2>2, OwnStep
  <2>6. BeginClaim(h) \/ BeginFinish(h) \/ EndRecover(h) \/ DecideClaim(h) => runner'[h].at = runner[h].at
    BY <2>2, OwnStep
  <2>7. QED
    BY <1>2, <2>2, <2>3, <2>4, <2>5, <2>6 DEF HostStep
<1>5. QED
  BY <1>2, <1>3, <1>4 DEF NobodySlept

(* A lock that is taken was held by nobody who is alive.                     *)
LEMMA TakenIsFree ==
  ASSUME WakeTypeOK, LocksInv, NEW h \in WakeHosts, NEW k \in Locks, Takes(h, k)
  PROVE  /\ \A g \in WakeHosts : lockOf[k] = g => runner[g].at = "dead"
         /\ lockOf' = [lockOf EXCEPT ![k] = h] /\ lockStale' = lockStale \ {k}
<1>1. lockOf[k] = NoHost => lockOf[k] \notin WakeHosts
  BY WakeupAssumption
<1>2. QED
  BY <1>1 DEF Takes, LocksInv

(* A host that still has the lock writes its copy, and the lock is free.     *)
LEMMA EndedAsHolder ==
  ASSUME WakeTypeOK, NEW h \in WakeHosts, NEW file, NEW told, EndChange(h, file, told),
         lockOf["state"] = h
  PROVE  /\ tasksFile' = file /\ lockOf' = [lockOf EXCEPT !["state"] = NoHost]
         /\ lockStale' = lockStale \ {"state"}
BY DEF EndChange, Noticed, Releases

(* A host that keeps its locks while another one dies or goes on with its own. *)
LEMMA LocksKept ==
  ASSUME WakeTypeOK, LocksInv, NEW h \in WakeHosts, HostStep(h), UNCHANGED <<lockOf, lockStale>>,
         runner[h].at # "dead",
         runner'[h].at \in {"claim", "check", "sent", "finish", "release"} =>
           runner[h].at \in {"claim", "check", "sent", "finish", "release"},
         change'[h] # NoChange => change[h] # NoChange
  PROVE  LocksInv'
<1>1. \A g \in WakeHosts \ {h} : runner'[g] = runner[g] /\ change'[g] = change[g]
  BY OwnStep
<1>2. \A k \in lockStale' : lockOf'[k] \in WakeHosts /\ lockOf'[k] # h /\ runner'[lockOf'[k]].at = "dead"
  BY <1>1 DEF LocksInv
<1>3. \A g \in WakeHosts : change'[g] # NoChange => lockOf'["state"] = g
  BY <1>1 DEF LocksInv
<1>4. \A g \in WakeHosts :
        runner'[g].at \in {"claim", "check", "sent", "finish", "release"} => lockOf'["run"] = g
  BY <1>1 DEF LocksInv
<1>5. QED
  BY <1>2, <1>3, <1>4 DEF LocksInv

(* A lock that was free is taken.                                           *)
LEMMA LocksTaken ==
  ASSUME WakeTypeOK, ChangePlaces, LocksInv, NEW h \in WakeHosts, HostStep(h), NEW k \in Locks,
         Takes(h, k), runner[h].at # "dead",
         k = "state" => /\ change[h] = NoChange
                        /\ runner'[h].at = runner[h].at,
         k = "run" => /\ runner[h].at \notin {"claim", "check", "sent", "finish", "release"}
                      /\ UNCHANGED change
  PROVE  LocksInv'
<1>1. \A g \in WakeHosts \ {h} : runner'[g] = runner[g] /\ change'[g] = change[g]
  BY OwnStep
<1>2. /\ \A g \in WakeHosts : lockOf[k] = g => runner[g].at = "dead"
      /\ lockOf' = [lockOf EXCEPT ![k] = h] /\ lockStale' = lockStale \ {k}
  BY TakenIsFree
<1>3. lockOf'[k] = h /\ \A j \in Locks \ {k} : lockOf'[j] = lockOf[j]
  BY <1>2 DEF WakeTypeOK
<1>4. lockStale \subseteq Locks /\ "state" \in Locks /\ "run" \in Locks /\ k \in {"state", "run"}
  BY DEF WakeTypeOK, Locks
<1>5. \A j \in lockStale' : lockOf'[j] \in WakeHosts /\ runner'[lockOf'[j]].at = "dead"
  <2>1. SUFFICES ASSUME NEW j \in lockStale'
                 PROVE  lockOf'[j] \in WakeHosts /\ runner'[lockOf'[j]].at = "dead"
    OBVIOUS
  <2>2. j \in lockStale /\ lockOf'[j] = lockOf[j]
    BY <1>2, <1>3, <1>4, <2>1
  <2>3. lockOf[j] \in WakeHosts /\ runner[lockOf[j]].at = "dead"
    BY <2>2 DEF LocksInv
  <2>4. QED
    BY <1>1, <2>2, <2>3
<1>6. ASSUME NEW g \in WakeHosts, change'[g] # NoChange PROVE lockOf'["state"] = g
  <2>1. CASE k = "run"
    BY <1>3, <1>4, <1>6, <2>1 DEF LocksInv
  <2>2. CASE k = "state"
    BY <1>1, <1>2, <1>3, <1>6, <2>2 DEF LocksInv, ChangePlaces
  <2>3. QED
    BY <1>4, <2>1, <2>2
<1>7. ASSUME NEW g \in WakeHosts, runner'[g].at \in {"claim", "check", "sent", "finish", "release"}
      PROVE  lockOf'["run"] = g
  <2>1. CASE k = "state"
    BY <1>1, <1>3, <1>4, <1>7, <2>1 DEF LocksInv
  <2>2. CASE k = "run"
    BY <1>1, <1>2, <1>3, <1>7, <2>2 DEF LocksInv
  <2>3. QED
    BY <1>4, <2>1, <2>2
<1>8. QED
  BY <1>5, <1>6, <1>7 DEF LocksInv

(* A lock that its host has is released.                                     *)
LEMMA LocksReleased ==
  ASSUME WakeTypeOK, LocksInv, NEW h \in WakeHosts, HostStep(h), NEW k \in Locks,
         runner[h].at # "dead",
         lockOf[k] = h, lockOf' = [lockOf EXCEPT ![k] = NoHost], lockStale' = lockStale \ {k},
         change'[h] # NoChange => change[h] # NoChange /\ k # "state",
         runner'[h].at \in {"claim", "check", "sent", "finish", "release"} =>
           runner[h].at \in {"claim", "check", "sent", "finish", "release"} /\ k # "run"
  PROVE  LocksInv'
<1>1. \A g \in WakeHosts \ {h} : runner'[g] = runner[g] /\ change'[g] = change[g]
  BY OwnStep
<1>2. \A j \in Locks \ {k} : lockOf'[j] = lockOf[j]
  BY DEF WakeTypeOK
<1>3. lockStale \subseteq Locks /\ "state" \in Locks /\ "run" \in Locks
  BY DEF WakeTypeOK, Locks
<1>4. \A j \in lockStale' : lockOf'[j] \in WakeHosts /\ runner'[lockOf'[j]].at = "dead"
  <2>1. SUFFICES ASSUME NEW j \in lockStale'
                 PROVE  lockOf'[j] \in WakeHosts /\ runner'[lockOf'[j]].at = "dead"
    OBVIOUS
  <2>2. j \in lockStale /\ lockOf'[j] = lockOf[j]
    BY <1>2, <1>3, <2>1
  <2>3. lockOf[j] \in WakeHosts /\ runner[lockOf[j]].at = "dead"
    BY <2>2 DEF LocksInv
  <2>4. QED
    BY <1>1, <2>2, <2>3
<1>5. ASSUME NEW g \in WakeHosts, change'[g] # NoChange PROVE lockOf'["state"] = g
  BY <1>1, <1>2, <1>3, <1>5 DEF LocksInv
<1>6. ASSUME NEW g \in WakeHosts, runner'[g].at \in {"claim", "check", "sent", "finish", "release"}
      PROVE  lockOf'["run"] = g
  BY <1>1, <1>2, <1>3, <1>6 DEF LocksInv
<1>7. QED
  BY <1>4, <1>5, <1>6 DEF LocksInv

(* A step of a host that does not put it to sleep leaves the locks in order.  *)
LEMMA LocksStep ==
  ASSUME WakeTypeOK, ChangePlaces, LocksInv, NEW h \in WakeHosts, HostStep(h), ~HostSleeps(h)
  PROVE  LocksInv'
<1>1. CASE StartRun(h) \/ RunLockBusy(h) \/ CheckAndRequest(h) \/ DecideClaim(h) \/ HostDies(h)
  <2>1. UNCHANGED <<lockOf, lockStale>> /\ runner[h].at # "dead"
    <3>1. UNCHANGED <<lockOf, lockStale>>
      BY <1>1 DEF StartRun, RunLockBusy, CheckAndRequest, DecideClaim, HostDies
    <3>2. runner[h].at # "dead"
      BY <1>1, OwnStep DEF ChangePlaces, HostDies, Awake
    <3>3. QED
      BY <3>1, <3>2
  <2>2. runner'[h].at \in {"claim", "check", "sent", "finish", "release"} =>
          runner[h].at \in {"claim", "check", "sent", "finish", "release"}
    BY <1>1, OwnStep
  <2>3. change'[h] # NoChange => change[h] # NoChange
    BY <1>1, OwnStep
  <2>4. QED
    BY <2>1, <2>2, <2>3, LocksKept
<1>2. CASE TakeRunLock(h)
  <2>1. Takes(h, "run") /\ UNCHANGED change /\ runner[h].at = "lease"
    BY <1>2 DEF TakeRunLock
  <2>2. QED
    BY <2>1, LocksTaken DEF Locks
<1>3. CASE BeginClaim(h) \/ BeginFinish(h) \/ BeginRecover(h)
  <2>1. CASE Takes(h, "state") /\ UNCHANGED runner
    <3>1. change[h] = NoChange /\ runner[h].at # "dead"
      BY <1>3, OwnStep
    <3>2. QED
      BY <2>1, <3>1, LocksTaken DEF Locks
  <2>2. CASE /\ UNCHANGED <<change, lockOf, lockStale>> /\ RunnerTo(h, "release")
             /\ runner[h].at \in {"claim", "sent", "finish"}
    BY <2>2, LocksKept
  <2>3. QED
    BY <1>3, <2>1, <2>2 DEF BeginClaim, BeginFinish, BeginRecover, BeginChange
<1>4. CASE EndClaim(h) \/ EndFinish(h) \/ EndRecover(h)
  <2>1. lockOf["state"] = h /\ runner[h].at # "dead"
    BY <1>4, OwnStep DEF LocksInv, ChangePlaces
  <2>2. \E file, told : EndChange(h, file, told)
    BY <1>4 DEF EndClaim, EndFinish, EndRecover
  <2>3. lockOf' = [lockOf EXCEPT !["state"] = NoHost] /\ lockStale' = lockStale \ {"state"}
    BY <2>1, <2>2, EndedAsHolder
  <2>4. change'[h] = NoChange
    BY <1>4, OwnStep
  <2>5. runner'[h].at \in {"claim", "check", "sent", "finish", "release"} =>
          runner[h].at \in {"claim", "check", "sent", "finish", "release"}
    BY <1>4, OwnStep DEF ChangePlaces
  <2>6. QED
    BY <2>1, <2>3, <2>4, <2>5, LocksReleased DEF Locks
<1>5. CASE ReleaseRunLock(h)
  <2>1. runner[h].at = "release" /\ runner'[h].at = "none" /\ change'[h] = change[h]
    BY <1>5, OwnStep
  <2>2. lockOf["run"] = h
    BY <2>1 DEF LocksInv
  <2>3. lockOf' = [lockOf EXCEPT !["run"] = NoHost] /\ lockStale' = lockStale \ {"run"}
    BY <1>5, <2>2 DEF ReleaseRunLock, Noticed, Releases
  <2>4. QED
    BY <2>1, <2>2, <2>3, LocksReleased DEF Locks
<1>6. QED
  BY <1>1, <1>2, <1>3, <1>4, <1>5 DEF HostStep

-----------------------------------------------------------------------------
(* A host comes to execute a run when its claim has been written.            *)
LEMMA ExecutingOfStep ==
  ASSUME WakeTypeOK, ChangePlaces, NEW h \in WakeHosts, HostStep(h),
         NEW g \in WakeHosts, NEW i \in RunIds, Executing(g, i)'
  PROVE  Executing(g, i) \/ (g = h /\ EndClaim(h) /\ change[h].kind = "write claim" /\ runner[h].id = i)
<1>1. runner'[g].id = i /\ runner'[g].at \in {"check", "sent"}
  BY DEF Executing
<1>2. CASE g # h
  <2>1. runner'[g] = runner[g]
    BY <1>2, OwnStep
  <2>2. QED
    BY <1>1, <2>1 DEF Executing
<1>3. CASE g = h
  <2>1. CASE EndClaim(h)
    BY <1>1, <1>3, <2>1, OwnStep
  <2>2. CASE CheckAndRequest(h)
    BY <1>1, <1>3, <2>2, OwnStep DEF Executing
  <2>3. CASE BeginRecover(h) \/ EndRecover(h) \/ HostSleeps(h)
    <3>1. runner'[h] = runner[h]
      BY <2>3, OwnStep
    <3>2. QED
      BY <1>1, <1>3, <3>1 DEF Executing
  <2>4. CASE BeginClaim(h) \/ BeginFinish(h)
    <3>1. runner'[h] = runner[h] \/ runner'[h].at = "release"
      BY <2>4, OwnStep
    <3>2. QED
      BY <1>1, <1>3, <3>1 DEF Executing
  <2>5. ~StartRun(h) /\ ~TakeRunLock(h) /\ ~RunLockBusy(h)
    BY <1>1, <1>3, OwnStep
  <2>6. ~EndFinish(h) /\ ~ReleaseRunLock(h) /\ ~HostDies(h)
    BY <1>1, <1>3, OwnStep
  <2>7. ~DecideClaim(h)
    BY <1>1, <1>3, OwnStep DEF ChangePlaces
  <2>8. QED
    BY <2>1, <2>2, <2>3, <2>4, <2>5, <2>6, <2>7 DEF HostStep
<1>4. QED
  BY <1>2, <1>3

(* A mutation under way was so before with the same copy, or has just read the *)
(* file, or decided the claim.                                              *)
LEMMA ChangeOfStep ==
  ASSUME WakeTypeOK, ChangePlaces, NEW h \in WakeHosts, HostStep(h),
         NEW g \in WakeHosts, change'[g] # NoChange
  PROVE  \/ change'[g] = change[g] /\ (change[g].kind = "write claim" => runner'[g].id = runner[g].id)
         \/ g = h /\ change'[h].kind \in {"claim", "finish", "recover"} /\ change'[h].saw = tasksFile
            /\ UNCHANGED tasksFile
         \/ g = h /\ DecideClaim(h)
<1>1. CASE g # h
  BY <1>1, OwnStep
<1>2. CASE g = h
  <2>1. CASE BeginClaim(h) \/ BeginFinish(h) \/ BeginRecover(h)
    <3>1. UNCHANGED tasksFile
      BY <2>1 DEF BeginClaim, BeginFinish, BeginRecover
    <3>2. QED
      BY <1>2, <2>1, <3>1, OwnStep
  <2>2. CASE StartRun(h) \/ RunLockBusy(h) \/ ReleaseRunLock(h) \/ CheckAndRequest(h)
    <3>1. change'[h] = change[h] /\ runner[h].at # "claim"
      BY <2>2, OwnStep
    <3>2. QED
      BY <1>2, <3>1 DEF ChangePlaces
  <2>3. CASE TakeRunLock(h) \/ HostSleeps(h)
    BY <1>2, <2>3, OwnStep
  <2>4. ~EndClaim(h) /\ ~EndFinish(h) /\ ~EndRecover(h) /\ ~HostDies(h)
    BY <1>2, OwnStep
  <2>5. QED
    BY <1>2, <2>1, <2>2, <2>3, <2>4 DEF HostStep
<1>3. QED
  BY <1>1, <1>2

(* What a host writes while another one executes a run keeps that running,   *)
(* and what it writes to begin a run has it running.                        *)
LEMMA FileOfStep ==
  ASSUME WakeTypeOK, ChangePlaces, LocksInv, RunsInv, NEW h \in WakeHosts, HostStep(h),
         NEW g \in WakeHosts, NEW i \in RunIds, Executing(g, i)'
  PROVE  tasksFile'.runs[i] = "running"
<1>1. CASE EndClaim(h)
  <2>1. /\ lockOf["state"] = h /\ lockOf["run"] = h
    BY <1>1, OwnStep DEF LocksInv, ChangePlaces
  <2>2. tasksFile' = change[h].saw
    BY <1>1, <2>1, EndedAsHolder DEF EndClaim
  <2>3. ~Executing(g, i)
    <3>1. runner[h].at = "claim"
      BY <1>1, OwnStep DEF ChangePlaces
    <3>2. Executing(g, i) => lockOf["run"] = g
      BY DEF LocksInv, Executing
    <3>3. QED
      BY <2>1, <3>1, <3>2 DEF Executing
  <2>4. change[h] # NoChange /\ change[h].kind = "write claim" /\ runner[h].id = i
    <3>1. change[h].kind = "write claim" /\ runner[h].id = i
      BY <2>3, ExecutingOfStep
    <3>2. change[h] # NoChange
      BY <1>1, OwnStep
    <3>3. QED
      BY <3>1, <3>2
  <2>5. change[h].saw.runs[runner[h].id] = "running"
    BY <2>4 DEF RunsInv
  <2>6. QED
    BY <2>2, <2>4, <2>5
<1>2. CASE ~EndClaim(h)
  <2>1. Executing(g, i)
    BY <1>2, ExecutingOfStep
  <2>2. tasksFile.runs[i] = "running" /\ lockOf["run"] = g /\ runner[g].at # "dead"
    BY <2>1 DEF RunsInv, LocksInv, Executing
  <2>3. CASE EndFinish(h)
    <3>1. runner[h].at \in {"sent", "finish"} /\ runner'[h].at = "release"
      BY <2>3, OwnStep DEF ChangePlaces
    <3>2. g = h
      BY <2>2, <3>1 DEF LocksInv
    <3>3. QED
      BY <3>1, <3>2 DEF Executing
  <2>4. CASE EndRecover(h)
    <3>1. change[h] # NoChange /\ change[h].kind = "recover"
      BY <2>4, OwnStep
    <3>2. lockOf["state"] = h /\ change[h].saw.runs[i] = "running"
      BY <2>1, <3>1 DEF LocksInv, RunsInv
    <3>3. "run" \notin lockStale /\ g # NoHost
      BY <2>2, WakeupAssumption DEF LocksInv
    <3>4. RunIsHeld(h)
      BY <2>2, <3>3 DEF RunIsHeld
    <3>5. tasksFile' = change[h].saw
      BY <2>4, <3>2, <3>4, EndedAsHolder DEF EndRecover
    <3>6. QED
      BY <3>2, <3>5
  <2>5. CASE ~EndFinish(h) /\ ~EndRecover(h)
    <3>1. UNCHANGED tasksFile
      BY <1>2, <2>5 DEF HostStep, StartRun, TakeRunLock, RunLockBusy, BeginClaim, DecideClaim,
         CheckAndRequest, BeginFinish, ReleaseRunLock, BeginRecover, HostSleeps, HostDies
    <3>2. QED
      BY <2>2, <3>1
  <2>6. QED
    BY <2>3, <2>4, <2>5
<1>3. QED
  BY <1>1, <1>2

(* Runs stay as their hosts think they are.                                  *)
LEMMA RunsStep ==
  ASSUME WakeTypeOK, ChangePlaces, LocksInv, RunsInv, NEW h \in WakeHosts, HostStep(h)
  PROVE  RunsInv'
<1>1. \A g \in WakeHosts, i \in RunIds : Executing(g, i)' => tasksFile'.runs[i] = "running"
  BY FileOfStep
<1>2. ASSUME NEW g \in WakeHosts, change'[g] # NoChange, change'[g].kind = "write claim"
      PROVE  runner'[g].id \in RunIds /\ change'[g].saw.runs[runner'[g].id] = "running"
  <2>1. CASE change'[g] = change[g] /\ (change[g].kind = "write claim" => runner'[g].id = runner[g].id)
    BY <1>2, <2>1 DEF RunsInv
  <2>2. CASE g = h /\ DecideClaim(h)
    <3>1. PICK kind \in {"write", "write claim"}, file \in TasksFiles :
             /\ change' = [change EXCEPT ![h].kind = kind, ![h].saw = file]
             /\ \/ kind = "write"
                \/ /\ kind = "write claim" /\ nextRun \in RunIds /\ file.runs[nextRun] = "running"
                   /\ runner' = [runner EXCEPT ![h].id = nextRun, ![h].now = 0,
                                               ![h].version = change[h].saw.version]
      BY <2>2, DecideClaimCases
    <3>2. PICK c \in Changes : c = change[h]
      BY <2>2 DEF DecideClaim, WakeTypeOK
    <3>3. change'[h] = [[c EXCEPT !.kind = kind] EXCEPT !.saw = file]
      BY <3>1, <3>2 DEF WakeTypeOK
    <3>4. change'[h].kind = kind /\ change'[h].saw = file
      BY <3>3 DEF Changes
    <3>5. PICK r \in Runners : r = runner[h]
      BY DEF WakeTypeOK
    <3>6. /\ nextRun \in RunIds /\ file.runs[nextRun] = "running"
          /\ runner'[h] = [[[r EXCEPT !.id = nextRun] EXCEPT !.now = 0] EXCEPT !.version = change[h].saw.version]
      BY <1>2, <2>2, <3>1, <3>4, <3>5 DEF WakeTypeOK
    <3>7. runner'[h].id = nextRun
      BY <3>5, <3>6 DEF Runners
    <3>8. QED
      BY <2>2, <3>4, <3>6, <3>7
  <2>3. QED
    BY <1>2, <2>1, <2>2, ChangeOfStep
<1>3. ASSUME NEW g \in WakeHosts, change'[g] # NoChange, change'[g].kind = "recover",
             NEW f \in WakeHosts, NEW i \in RunIds, Executing(f, i)'
      PROVE  change'[g].saw.runs[i] = "running"
  <2>1. CASE change'[g] = change[g]
    <3>1. lockOf["state"] = g /\ change[g] # NoChange /\ change[g].kind = "recover"
      BY <1>3, <2>1 DEF LocksInv
    <3>2. Executing(f, i)
      <4>1. SUFFICES ASSUME EndClaim(h) PROVE FALSE
        BY <1>3, ExecutingOfStep
      <4>2. change[h] # NoChange /\ change[h].kind # "recover" /\ lockOf["state"] = h
        BY <4>1, OwnStep DEF LocksInv
      <4>3. QED
        BY <3>1, <4>2
    <3>3. change[g].saw.runs[i] = "running"
      BY <3>1, <3>2 DEF RunsInv
    <3>4. QED
      BY <2>1, <3>3
  <2>2. CASE change'[g].saw = tasksFile /\ UNCHANGED tasksFile
    BY <1>1, <1>3, <2>2
  <2>3. CASE g = h /\ DecideClaim(h)
    BY <1>3, <2>3, OwnStep
  <2>4. QED
    BY <1>3, <2>1, <2>2, <2>3, ChangeOfStep
<1>4. QED
  BY <1>1, <1>2, <1>3 DEF RunsInv

-----------------------------------------------------------------------------
(* The invariant holds at the start and after every step.                   *)
LEMMA WakeInvInit ==
  ASSUME WakeInit
  PROVE  WakeInv
<1>1. 1 \in Dues /\ 0 \in 0..MaxWakeTime /\ 0 \in 0..MaxWakeEdits
  BY NextDueIsDue, ZeroIsATime DEF Dues, NextDue
<1>2. Resting \in Runners
  BY <1>1 DEF Resting, Runners
<1>3. tasksFile \in TasksFiles
  BY <1>1 DEF WakeInit, TasksFiles, RunStatus
<1>4. nextRun \in 1..(MaxWakeRuns + 1)
  <2>1. MaxWakeRuns \in Nat
    BY WakeupAssumption
  <2>2. QED
    BY <2>1 DEF WakeInit
<1>5. WakeTypeOK
  BY <1>1, <1>2, <1>3, <1>4 DEF WakeInit, WakeTypeOK
<1>6. \A h \in WakeHosts : runner[h].at = "none" /\ change[h] = NoChange
  BY DEF WakeInit, Resting
<1>7. ChangePlaces /\ \A h \in WakeHosts, d \in Dues : ~Claims(h, d)
  BY <1>6 DEF ChangePlaces, Claims
<1>8. ClaimsInv
  BY <1>7 DEF ClaimsInv, WakeInit
<1>9. LocksInv /\ RunsInv
  BY <1>6 DEF LocksInv, RunsInv, Executing, WakeInit
<1>10. QED
  BY <1>5, <1>7, <1>8, <1>9 DEF WakeInv

(* A step that leaves the hosts and their locks alone, and the runs of the file. *)
LEMMA QuietStep ==
  ASSUME WakeInv, UNCHANGED <<claimed, lockOf, lockStale, runner, change, wakeFaults, requested>>,
         tasksFile'.runs = tasksFile.runs
  PROVE  ChangePlaces' /\ ClaimsInv' /\ (NobodySlept' => LocksInv' /\ RunsInv')
<1>1. ChangePlaces'
  BY DEF WakeInv, ChangePlaces
<1>2. \A h \in WakeHosts, d \in Dues : Claims(h, d)' = Claims(h, d)
  BY DEF Claims
<1>3. ClaimsInv'
  BY <1>2 DEF WakeInv, ClaimsInv
<1>4. NobodySlept' => NobodySlept
  BY DEF NobodySlept
<1>5. LocksInv => LocksInv'
  BY DEF LocksInv
<1>6. \A h \in WakeHosts, i \in RunIds : Executing(h, i)' = Executing(h, i)
  BY DEF Executing
<1>7. RunsInv => RunsInv'
  BY <1>6 DEF RunsInv
<1>8. QED
  BY <1>1, <1>3, <1>4, <1>5, <1>7 DEF WakeInv

(* Every step, those of the clock, of an edit and of a lock that ages included. *)
LEMMA WakeInvStep ==
  ASSUME WakeInv, [WakeNext]_wakeVars
  PROVE  WakeInv'
<1>1. WakeTypeOK'
  BY WakeTypeStep DEF WakeInv
<1>2. CASE UNCHANGED wakeVars
  <2>1. UNCHANGED <<claimed, lockOf, lockStale, runner, change, wakeFaults, requested, tasksFile>>
    BY <1>2 DEF wakeVars
  <2>2. QED
    BY <1>1, <2>1, QuietStep DEF WakeInv
<1>3. ASSUME NEW h \in WakeHosts, HostStep(h) PROVE WakeInv'
  <2>1. ChangePlaces' /\ ClaimsInv'
    BY <1>3, ChangePlacesStep, ClaimsStep DEF WakeInv
  <2>2. ASSUME NobodySlept' PROVE LocksInv' /\ RunsInv'
    <3>1. NobodySlept /\ ~HostSleeps(h)
      BY <1>3, <2>2, SleepersStaySo DEF WakeInv
    <3>2. QED
      BY <1>3, <3>1, LocksStep, RunsStep DEF WakeInv
  <2>3. QED
    BY <1>1, <2>1, <2>2 DEF WakeInv
<1>4. CASE EditTask
  <2>1. UNCHANGED <<claimed, lockOf, lockStale, runner, change, wakeFaults, requested>>
    BY <1>4 DEF EditTask
  <2>2. tasksFile'.runs = tasksFile.runs
    BY <1>4 DEF EditTask, WakeInv, WakeTypeOK, TasksFiles
  <2>3. QED
    BY <1>1, <2>1, <2>2, QuietStep DEF WakeInv
<1>5. CASE WakeTick
  <2>1. UNCHANGED <<claimed, lockOf, lockStale, runner, change, wakeFaults, requested, tasksFile>>
    BY <1>5 DEF WakeTick
  <2>2. QED
    BY <1>1, <2>1, QuietStep DEF WakeInv
<1>6. CASE DeadLocksAge
  <2>1. UNCHANGED <<claimed, lockOf, runner, change, wakeFaults, requested, tasksFile>>
    BY <1>6 DEF DeadLocksAge
  <2>2. PICK k \in Locks : /\ lockOf[k] # NoHost /\ runner[lockOf[k]].at = "dead"
                           /\ lockStale' = lockStale \cup {k}
    BY <1>6 DEF DeadLocksAge, Awake
  <2>3. lockOf[k] \in WakeHosts
    BY <2>2 DEF WakeInv, WakeTypeOK
  <2>4. LocksInv => LocksInv'
    BY <2>1, <2>2, <2>3 DEF LocksInv
  <2>5. (RunsInv => RunsInv') /\ (NobodySlept' => NobodySlept)
    <3>1. \A h \in WakeHosts, i \in RunIds : Executing(h, i)' = Executing(h, i)
      BY <2>1 DEF Executing
    <3>2. RunsInv => RunsInv'
      BY <2>1, <3>1 DEF RunsInv
    <3>3. NobodySlept' => NobodySlept
      BY <2>1 DEF NobodySlept
    <3>4. QED
      BY <3>2, <3>3
  <2>6. ChangePlaces' /\ ClaimsInv'
    <3>1. \A h \in WakeHosts, d \in Dues : Claims(h, d)' = Claims(h, d)
      BY <2>1 DEF Claims
    <3>2. ClaimsInv'
      BY <2>1, <3>1 DEF WakeInv, ClaimsInv
    <3>3. ChangePlaces'
      BY <2>1 DEF WakeInv, ChangePlaces
    <3>4. QED
      BY <3>2, <3>3
  <2>7. QED
    BY <1>1, <2>4, <2>5, <2>6 DEF WakeInv
<1>7. QED
  BY <1>2, <1>3, <1>4, <1>5, <1>6 DEF WakeNext, HostStep

(* The invariant that the theorems below follow from.                        *)
THEOREM WakeInvHolds == WakeSpec => []WakeInv
<1>1. WakeInit => WakeInv
  BY WakeInvInit
<1>2. WakeInv /\ [WakeNext]_wakeVars => WakeInv'
  BY WakeInvStep
<1>3. QED
  BY <1>1, <1>2, PTL DEF WakeSpec

(* Every variable has its type.                                             *)
THEOREM WakeTypeCorrect == WakeSpec => []WakeTypeOK
<1>1. WakeInv => WakeTypeOK
  BY DEF WakeInv
<1>2. QED
  BY <1>1, WakeInvHolds, PTL

(* An occurrence is paid for once, however many hosts there are and however   *)
(* many of them sleep through the loss of their locks: the claim file is      *)
(* created exclusively and never removed, and the host that created it is the  *)
(* only one that goes on to the request.                                    *)
THEOREM OccurrenceIsPaidOnce == WakeSpec => []OccurrenceRunsOnce
<1>1. WakeInv => OccurrenceRunsOnce
  BY DEF WakeInv, ClaimsInv, OccurrenceRunsOnce
<1>2. QED
  BY <1>1, WakeInvHolds, PTL

(* A run is shown as interrupted while its host executes it only when some    *)
(* host has slept: before that, the host that executes it holds the run lock,  *)
(* and what another one writes from an older copy has the run in it.          *)
THEOREM InterruptedIsGone == WakeSpec => []InterruptedMeansGone
<1>1. WakeInv => InterruptedMeansGone
  <2>1. SUFFICES ASSUME WakeInv, NEW i \in RunIds, NEW h \in WakeHosts,
                        tasksFile.runs[i] = "interrupted", Executing(h, i)
                 PROVE  \E g \in wakeFaults : runner[g].at # "dead"
    BY DEF InterruptedMeansGone
  <2>2. ~RunsInv
    BY <2>1 DEF RunsInv
  <2>3. ~NobodySlept
    BY <2>1, <2>2 DEF WakeInv
  <2>4. QED
    BY <2>3 DEF NobodySlept
<1>2. QED
  BY <1>1, WakeInvHolds, PTL
=============================================================================
