------------------------------- MODULE Wakeup -------------------------------
(***************************************************************************)
(* The wakeup tasks, paid requests made at set times, of which any extension *)
(* host may make each one (src/storage/wakeupStore.ts and                   *)
(* src/application/wakeup/service.ts), for one task of one account.  The     *)
(* hosts share tasks.json, which they rewrite under the state lock, the run   *)
(* lock of the task, held while it is executed, and a claim file for each     *)
(* occurrence.  The locks are those of proper-lockfile: a holder that sleeps  *)
(* for a minute loses them and learns of it some time after it has woken up.  *)
(* A day is two ticks, the first one in the grace of its occurrence.         *)
(***************************************************************************)
EXTENDS Naturals

CONSTANTS
  WakeHosts, NoHost, NoChange,
  MaxWakeTime,    \* bound: ticks of the clock
  MaxWakeRuns,    \* bound: runs in the history
  MaxWakeEdits,   \* bound: edits of the task
  Manned,         \* bound: hosts at which somebody may run the task at once
  Fragile         \* bound: hosts that may sleep or die, once each

ASSUME WakeupAssumption ==
  /\ NoHost \notin WakeHosts /\ Manned \cup Fragile \subseteq WakeHosts
  /\ MaxWakeTime \in Nat /\ MaxWakeRuns \in Nat /\ MaxWakeEdits \in Nat

VARIABLES
  wakeNow,      \* the time
  tasksFile,    \* tasks.json
  claimed,      \* occurrences with a claim file
  lockOf,       \* the holder of each lock's directory
  lockStale,    \* locks that nobody has touched for a minute
  runner,       \* the execution of the task in each host
  change,       \* the mutation under way in each host
  nextRun,      \* the next run's id
  wakeFaults,   \* hosts that have slept or died
  requested     \* the paid requests made for each occurrence

wakeVars ==
  <<wakeNow, tasksFile, claimed, lockOf, lockStale, runner, change, nextRun,
    wakeFaults, requested>>

Locks == {"state", "run"}
Dues == {d \in 1..(MaxWakeTime + 2) : d % 2 = 1}
RunIds == 1..MaxWakeRuns
RunStatus == {"none", "running", "ended", "interrupted", "missed"}
TasksFiles ==
  [due: Dues, last: Dues \cup {0}, version: 0..MaxWakeEdits, enabled: BOOLEAN,
   runs: [RunIds -> RunStatus]]
Runners ==
  [at: {"none", "lease", "claim", "check", "sent", "finish", "release", "dead"},
   trigger: {"scheduled", "manual"}, due: Dues, now: 0..MaxWakeTime, id: RunIds \cup {0},
   version: 0..MaxWakeEdits]
Changes ==
  [kind: {"claim", "write claim", "write", "finish", "recover"}, saw: TasksFiles]

(* No mutation of the file is the value for none.                            *)
ASSUME NoChangeAssumption == NoChange \notin Changes

(* nextWakeupAt of a daily task.                                             *)
NextDue(now) == IF now % 2 = 0 THEN now + 1 ELSE now + 2

Resting == [at |-> "none", trigger |-> "manual", due |-> 1, now |-> 0, id |-> 0, version |-> 0]

WakeInit ==
  /\ wakeNow = 0
  /\ tasksFile = [due |-> 1, last |-> 0, version |-> 0, enabled |-> TRUE,
                  runs |-> [i \in RunIds |-> "none"]]
  /\ claimed = {} /\ lockStale = {} /\ nextRun = 1 /\ wakeFaults = {}
  /\ lockOf = [k \in Locks |-> NoHost]
  /\ runner = [h \in WakeHosts |-> Resting]
  /\ change = [h \in WakeHosts |-> NoChange]
  /\ requested = [d \in Dues |-> 0]

Awake(h) == runner[h].at # "dead"
RunnerTo(h, position) == runner' = [runner EXCEPT ![h].at = position]

-----------------------------------------------------------------------------
(* The locks.                                                                *)

Takes(h, k) ==
  /\ lockOf[k] = NoHost \/ k \in lockStale
  /\ lockOf' = [lockOf EXCEPT ![k] = h]
  /\ lockStale' = lockStale \ {k}

(* Whether a host has learnt by now, from onCompromised, that it lost a lock.  *)
Noticed(h, k) == IF lockOf[k] = h THEN {FALSE} ELSE BOOLEAN

(* The directory is removed by its path, unless the loss has been noticed.    *)
Releases(k, noticed) ==
  IF noticed THEN UNCHANGED <<lockOf, lockStale>>
             ELSE lockOf' = [lockOf EXCEPT ![k] = NoHost] /\ lockStale' = lockStale \ {k}

-----------------------------------------------------------------------------
(* mutate: the lock, the read, the operation on the copy, the write.          *)

BeginChange(h, kind) ==
  /\ change[h] = NoChange
  /\ Takes(h, "state")
  /\ change' = [change EXCEPT ![h] = [kind |-> kind, saw |-> tasksFile]]

(* All the retries for the lock have failed.                                  *)
LockBusy(h) == change[h] = NoChange /\ lockOf["state"] # NoHost /\ "state" \notin lockStale

(* A compromised mutation writes nothing, and one that is found to be          *)
(* compromised after the write fails as well.                                 *)
EndChange(h, file, told) ==
  /\ \E early, late \in Noticed(h, "state") :
       /\ early => late
       /\ tasksFile' = IF early THEN tasksFile ELSE file
       /\ Releases("state", late)
       /\ told = ~late
  /\ change' = [change EXCEPT ![h] = NoChange]

-----------------------------------------------------------------------------
(* A host that executes the task.                                            *)

(* poll has read a due occurrence, or runNow is called; a poll takes up no    *)
(* task its own host is executing.                                           *)
StartRun(h) ==
  /\ runner[h].at = "none" /\ nextRun <= MaxWakeRuns
  /\ \E trigger \in {"scheduled", "manual"} :
       /\ trigger = "manual" => h \in Manned
       /\ trigger = "scheduled" => tasksFile.enabled /\ tasksFile.due <= wakeNow
       /\ runner' = [runner EXCEPT ![h] =
                       [Resting EXCEPT !.at = "lease", !.trigger = trigger,
                          !.due = IF trigger = "scheduled" THEN tasksFile.due ELSE 1]]
  /\ UNCHANGED <<wakeNow, tasksFile, claimed, lockOf, lockStale, change, nextRun,
                 wakeFaults, requested>>

TakeRunLock(h) ==
  /\ runner[h].at = "lease"
  /\ Takes(h, "run")
  /\ runner' = [runner EXCEPT ![h].at = "claim",
                     ![h].now = IF runner[h].trigger = "scheduled" THEN wakeNow ELSE 0]
  /\ UNCHANGED <<wakeNow, tasksFile, claimed, change, nextRun, wakeFaults, requested>>

RunLockBusy(h) ==
  /\ runner[h].at = "lease" /\ lockOf["run"] # NoHost /\ "run" \notin lockStale
  /\ RunnerTo(h, "none")
  /\ UNCHANGED <<wakeNow, tasksFile, claimed, lockOf, lockStale, change, nextRun,
                 wakeFaults, requested>>

BeginClaim(h) ==
  /\ runner[h].at = "claim"
  /\ \/ BeginChange(h, "claim") /\ UNCHANGED runner
     \/ LockBusy(h) /\ RunnerTo(h, "release") /\ UNCHANGED <<change, lockOf, lockStale>>
  /\ UNCHANGED <<wakeNow, tasksFile, claimed, nextRun, wakeFaults, requested>>

(* What the occurrence's turn has come to in the copy of the mutation.        *)
Obsolete(r, saw) ==
  r.trigger = "scheduled" /\ (~saw.enabled \/ saw.due # r.due \/ r.due > r.now)
Advanced(r, saw) == [saw EXCEPT !.due = NextDue(r.now), !.last = r.due]

(* Faulty: the claim file is opened with "w".                                 *)
FaultyClaimFile(due) == FALSE

(* The claim file is opened with "wx".                                        *)
ClaimFileExists(due) == due \in claimed

(* The claim is made in the copy, and the claim file created before the copy   *)
(* is written; a missed or already claimed occurrence only advances the task. *)
DecideClaim(h) ==
  /\ change[h] # NoChange /\ change[h].kind = "claim"
  /\ LET r == runner[h]
         saw == change[h].saw
         scheduled == r.trigger = "scheduled"
         next == IF scheduled THEN Advanced(r, saw) ELSE saw
         Goes(kind, file) ==
           change' = [change EXCEPT ![h].kind = kind, ![h].saw = file]
     IN IF Obsolete(r, saw)
          THEN Goes("write", saw) /\ UNCHANGED <<claimed, nextRun, runner>>
        ELSE IF scheduled /\ saw.last >= r.due
          THEN Goes("write", [saw EXCEPT !.due = next.due]) /\ UNCHANGED <<claimed, nextRun, runner>>
        ELSE IF scheduled /\ r.now > r.due
          THEN /\ nextRun <= MaxWakeRuns
               /\ Goes("write", [next EXCEPT !.runs[nextRun] = "missed"])
               /\ nextRun' = nextRun + 1 /\ UNCHANGED <<claimed, runner>>
        ELSE IF scheduled /\ ClaimFileExists(r.due)
          THEN Goes("write", next) /\ UNCHANGED <<claimed, nextRun, runner>>
        ELSE /\ nextRun <= MaxWakeRuns
             /\ Goes("write claim", [next EXCEPT !.runs[nextRun] = "running"])
             /\ claimed' = IF scheduled THEN claimed \cup {r.due} ELSE claimed
             /\ nextRun' = nextRun + 1
             /\ runner' = [runner EXCEPT ![h].id = nextRun, ![h].now = 0, ![h].version = saw.version]
  /\ UNCHANGED <<wakeNow, tasksFile, lockOf, lockStale, wakeFaults, requested>>

EndClaim(h) ==
  /\ change[h] # NoChange /\ change[h].kind \in {"write claim", "write"}
  /\ \E told \in BOOLEAN :
       /\ EndChange(h, change[h].saw, told)
       /\ RunnerTo(h, IF told /\ change[h].kind = "write claim" THEN "check" ELSE "release")
  /\ UNCHANGED <<wakeNow, claimed, nextRun, wakeFaults, requested>>

(* checkCancellation, and then the request unless the task has been edited or  *)
(* the run lock is known to be lost.                                         *)
CheckAndRequest(h) ==
  /\ runner[h].at = "check"
  /\ LET r == runner[h]
         edited == tasksFile.version # r.version \/ (r.trigger = "scheduled" /\ ~tasksFile.enabled)
     IN \E lost \in Noticed(h, "run") :
          /\ RunnerTo(h, IF edited \/ lost THEN "finish" ELSE "sent")
          /\ requested' = IF edited \/ lost \/ r.trigger = "manual" THEN requested
                          ELSE [requested EXCEPT ![r.due] = @ + 1]
  /\ UNCHANGED <<wakeNow, tasksFile, claimed, lockOf, lockStale, change, nextRun, wakeFaults>>

(* The request is answered, or none was made.                                 *)
BeginFinish(h) ==
  /\ runner[h].at \in {"sent", "finish"}
  /\ \/ BeginChange(h, "finish") /\ UNCHANGED runner
     \/ LockBusy(h) /\ RunnerTo(h, "release") /\ UNCHANGED <<change, lockOf, lockStale>>
  /\ UNCHANGED <<wakeNow, tasksFile, claimed, nextRun, wakeFaults, requested>>

EndFinish(h) ==
  /\ change[h] # NoChange /\ change[h].kind = "finish"
  /\ LET saw == change[h].saw
         id == runner[h].id
         ended == IF saw.runs[id] = "running" THEN [saw EXCEPT !.runs[id] = "ended"] ELSE saw
     IN \E told \in BOOLEAN : EndChange(h, ended, told)
  /\ RunnerTo(h, "release")
  /\ UNCHANGED <<wakeNow, claimed, nextRun, wakeFaults, requested>>

ReleaseRunLock(h) ==
  /\ runner[h].at = "release"
  /\ \E lost \in Noticed(h, "run") : Releases("run", lost)
  /\ runner' = [runner EXCEPT ![h] = Resting]
  /\ UNCHANGED <<wakeNow, tasksFile, claimed, change, nextRun, wakeFaults, requested>>

-----------------------------------------------------------------------------
(* What else a host does to the file.                                        *)

(* recoverInterrupted looks without the lock whether any run is running.      *)
BeginRecover(h) ==
  /\ Awake(h) /\ \E i \in RunIds : tasksFile.runs[i] = "running"
  /\ BeginChange(h, "recover")
  /\ UNCHANGED <<wakeNow, tasksFile, claimed, runner, nextRun, wakeFaults, requested>>

(* Faulty: a run is interrupted unless it is this host's own.                 *)
FaultyRunIsHeld(h) == runner[h].id # 0

(* check of the run lock.                                                     *)
RunIsHeld(h) == lockOf["run"] # NoHost /\ "run" \notin lockStale

(* A run whose task nobody holds the run lock of is interrupted.              *)
EndRecover(h) ==
  /\ change[h] # NoChange /\ change[h].kind = "recover"
  /\ LET saw == change[h].saw
         gone == [i \in RunIds |-> IF saw.runs[i] = "running" THEN "interrupted" ELSE saw.runs[i]]
     IN \E told \in BOOLEAN : EndChange(h, IF RunIsHeld(h) THEN saw ELSE [saw EXCEPT !.runs = gone], told)
  /\ UNCHANGED <<wakeNow, claimed, runner, nextRun, wakeFaults, requested>>

(* saveTask and setTaskEnabled; no host sleeps in the middle of one.          *)
EditTask ==
  /\ tasksFile.version < MaxWakeEdits /\ lockOf["state"] = NoHost
  /\ \E enabled \in BOOLEAN :
       tasksFile' = [tasksFile EXCEPT !.version = @ + 1, !.enabled = enabled,
                       !.due = IF enabled THEN NextDue(wakeNow) ELSE @]
  /\ UNCHANGED <<wakeNow, claimed, lockOf, lockStale, runner, change, nextRun, wakeFaults, requested>>

-----------------------------------------------------------------------------
(* Time and faults.                                                          *)

WakeTick ==
  /\ wakeNow < MaxWakeTime /\ wakeNow' = wakeNow + 1
  /\ UNCHANGED <<tasksFile, claimed, lockOf, lockStale, runner, change, nextRun,
                 wakeFaults, requested>>

(* The machine of a host sleeps, its locks become stale.                      *)
HostSleeps(h) ==
  /\ Awake(h) /\ h \in Fragile \ wakeFaults
  /\ \E k \in Locks : lockOf[k] = h
  /\ wakeFaults' = wakeFaults \cup {h}
  /\ lockStale' = lockStale \cup {k \in Locks : lockOf[k] = h}
  /\ UNCHANGED <<wakeNow, tasksFile, claimed, lockOf, runner, change, nextRun, requested>>

(* A killed host's locks become stale as well.                                *)
HostDies(h) ==
  /\ Awake(h) /\ h \in Fragile \ wakeFaults
  /\ wakeFaults' = wakeFaults \cup {h}
  /\ runner' = [runner EXCEPT ![h].at = "dead"]
  /\ change' = [change EXCEPT ![h] = NoChange]
  /\ UNCHANGED <<wakeNow, tasksFile, claimed, lockOf, lockStale, nextRun, requested>>

DeadLocksAge ==
  /\ \E k \in Locks \ lockStale :
       /\ lockOf[k] # NoHost /\ ~Awake(lockOf[k])
       /\ lockStale' = lockStale \cup {k}
  /\ UNCHANGED <<wakeNow, tasksFile, claimed, lockOf, runner, change, nextRun,
                 wakeFaults, requested>>

WakeNext ==
  \/ \E h \in WakeHosts :
       \/ StartRun(h) \/ TakeRunLock(h) \/ RunLockBusy(h) \/ BeginClaim(h) \/ DecideClaim(h)
       \/ EndClaim(h) \/ CheckAndRequest(h) \/ BeginFinish(h)
       \/ EndFinish(h) \/ ReleaseRunLock(h) \/ BeginRecover(h) \/ EndRecover(h)
       \/ HostSleeps(h)
       \/ HostDies(h)
  \/ EditTask \/ WakeTick \/ DeadLocksAge

WakeSpec == WakeInit /\ [][WakeNext]_wakeVars

-----------------------------------------------------------------------------

WakeTypeOK ==
  /\ wakeNow \in 0..MaxWakeTime /\ tasksFile \in TasksFiles /\ claimed \subseteq Dues
  /\ lockOf \in [Locks -> WakeHosts \cup {NoHost}] /\ lockStale \subseteq Locks
  /\ runner \in [WakeHosts -> Runners]
  /\ change \in [WakeHosts -> Changes \cup {NoChange}]
  /\ nextRun \in 1..(MaxWakeRuns + 1) /\ wakeFaults \subseteq WakeHosts
  /\ requested \in [Dues -> Nat]

(* No occurrence is paid for twice, although its hosts may die, sleep through  *)
(* the loss of both locks in the middle of a claim and overwrite tasks.json   *)
(* with a copy of before: the claim file is what cannot be taken back.        *)
OccurrenceRunsOnce == \A d \in Dues : requested[d] <= 1

(* A run is shown as interrupted while its host still executes it only when a *)
(* host has slept: recovery and the start of a run may come in any order, and  *)
(* hosts may die.  One that wakes up too late may release the run lock of its  *)
(* successor, by path, and with it what recovery goes by.                     *)
Executing(h, i) == runner[h].id = i /\ runner[h].at \in {"check", "sent"}
InterruptedMeansGone ==
  \A i \in RunIds, h \in WakeHosts :
    tasksFile.runs[i] = "interrupted" /\ Executing(h, i) =>
      \E g \in wakeFaults : runner[g].at # "dead"
=============================================================================
