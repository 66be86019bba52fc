-------------------------- MODULE UsageLimitBatch --------------------------
(***************************************************************************)
(* How the shim finds out that every conversation has used up the account's *)
(* limit (runtime/codex-app-server-shim.cjs): a batch of the threads active  *)
(* at the first such failure, and a journal of the threads that failed, from *)
(* which a switch takes those it continues.                                  *)
(***************************************************************************)
EXTENDS Naturals, Sequences, FiniteSets, SequencesExt

CONSTANTS
  LimitThreads,
  NoBatch, NoThread,
  MaxWorkStarts,     \* bound: official starts
  MaxLimitSwitches   \* bound: switch requests

(* usageLimitExhaustionBatch: its threads, those whose limit was seen, those   *)
(* whose turn has ended by it, and whether it may be acted upon.               *)
Batches ==
  [threads: SUBSET LimitThreads, limited: SUBSET LimitThreads, terminal: SUBSET LimitThreads,
   ready: BOOLEAN]

ASSUME UsageLimitAssumption ==
  /\ MaxWorkStarts \in Nat /\ MaxLimitSwitches \in Nat
  /\ NoBatch \notin Batches /\ NoThread \notin LimitThreads

VARIABLES
  doing,        \* each thread: "idle", "sent" (a start unanswered), "asked" (a Continue
                \* unanswered), "active"
  batch,        \* usageLimitExhaustionBatch
  suppressed,   \* usageLimitExhaustionObservationSuppressed
  journal,      \* recentUsageLimitedThreads, oldest first
  batchAge,     \* 0, 1: its deadline has passed, 2: ready for more than ten minutes
  hidden,       \* threads found to be hidden or ephemeral
  observing,    \* usageLimitObservationEnabled
  switchPhase,  \* "none", "pending", "login" (the transaction has begun), "continuing"
  recoverIds,   \* request.recoveryThreadIds: those the switch has still to continue
  awaited,      \* the thread whose Continue it awaits, or NoThread
  granted,      \* the child has accepted that Continue
  workStarts, limitSwitches,
  stopped,      \* threads whose last turn was reported to have hit the limit
  late,         \* threads whose Continue was given up unanswered since their last start
  atStart,      \* threads with counted work when the batch was made
  unseen,       \* a Continue was unanswered when the batch was made
  ended         \* how each thread's work has ended since, until the batch was ready:
                \* "limit", "other" or "not"

limitVars ==
  <<doing, batch, suppressed, journal, batchAge, hidden, observing, switchPhase, recoverIds,
    awaited, granted, workStarts, limitSwitches, stopped, late, atStart, unseen, ended>>
batchVars == <<batch, suppressed, batchAge, atStart, unseen, ended>>
bounds == <<workStarts, limitSwitches>>

LimitInit ==
  /\ doing = [t \in LimitThreads |-> "idle"]
  /\ batch = NoBatch /\ suppressed = FALSE /\ journal = <<>> /\ batchAge = 0
  /\ hidden = {} /\ observing = TRUE
  /\ switchPhase = "none" /\ recoverIds = {} /\ awaited = NoThread /\ granted = FALSE
  /\ workStarts = 0 /\ limitSwitches = 0 /\ stopped = {} /\ late = {}
  /\ atStart = {} /\ unseen = FALSE /\ ended = [t \in LimitThreads |-> "not"]

CountedActive(d) == {t \in LimitThreads \ hidden : d[t] \in {"sent", "active"}}

-----------------------------------------------------------------------------
(* The batch, as a record of batch and suppressed.                           *)

Suppressed == [batch |-> NoBatch, suppressed |-> TRUE]

(* maybeFinalizeUsageLimitExhaustionBatch, with the threads that count now.   *)
Finalized(b, counted) ==
  IF b.batch = NoBatch \/ b.batch.ready THEN b
  ELSE IF batchAge > 0 THEN [b EXCEPT !.batch.ready = TRUE]
  ELSE IF counted # {} THEN b
  ELSE IF b.batch.terminal = b.batch.threads /\ b.batch.limited = b.batch.threads
    THEN [b EXCEPT !.batch.ready = TRUE] ELSE Suppressed

(* observeUsageLimitExhaustionUsageLimited.                                   *)
NewBatch(t, counted) ==
  [threads |-> counted \cup {t}, limited |-> {}, terminal |-> {}, ready |-> FALSE]

LimitObserved(b, t, terminal, counted) ==
  IF b.batch = NoBatch /\ b.suppressed THEN b
  ELSE LET at == IF b.batch = NoBatch THEN NewBatch(t, counted) ELSE b.batch IN
       IF t \notin at.threads THEN Suppressed
       ELSE Finalized([b EXCEPT !.batch =
                         [at EXCEPT !.limited = @ \cup {t},
                                    !.terminal = @ \cup (IF terminal THEN {t} ELSE {})]], counted)

(* Faulty: a thread its user has interrupted counts as one at its limit.      *)
FaultyEndObserved(b, t, status, counted) ==
  IF b.batch = NoBatch \/ t \notin b.batch.threads THEN b
  ELSE IF t \in hidden \/ status = "completed" THEN Suppressed
  ELSE Finalized([b EXCEPT !.batch.limited = @ \cup {t}, !.batch.terminal = @ \cup {t}], counted)

(* observeUsageLimitExhaustionTerminal.                                       *)
EndObserved(b, t, status, counted) ==
  IF b.batch = NoBatch \/ t \notin b.batch.threads THEN b
  ELSE IF t \in hidden \/ status \in {"completed", "interrupted"}
          \/ (status # "limit" /\ t \notin b.batch.limited) THEN Suppressed
  ELSE Finalized([b EXCEPT !.batch.limited = @ \cup {t}, !.batch.terminal = @ \cup {t}], counted)

Now == [batch |-> batch, suppressed |-> suppressed]

(* The batch as it is afterwards; what is remembered of its making.           *)
Becomes(b, counted) ==
  /\ batch' = b.batch /\ suppressed' = b.suppressed
  /\ IF batch = NoBatch /\ b.batch # NoBatch
       THEN atStart' = counted /\ unseen' = \E t \in LimitThreads : doing[t] = "asked"
       ELSE UNCHANGED <<atStart, unseen>>
  /\ batchAge' = IF b.batch = NoBatch THEN 0 ELSE batchAge

Journaled(t) == Append(Remove(journal, t), t)

(* The request under way until its transaction begins.  A thread that is      *)
(* captured after its Goal has been looked at and before all have is left out. *)
Snapshots(t) == IF switchPhase = "pending" THEN {recoverIds, recoverIds \cup {t}} ELSE {recoverIds}
Forgotten(t) == IF switchPhase = "pending" THEN recoverIds \ {t} ELSE recoverIds

(* How a turn ended, as far as the property wants to know.                    *)
EndedBy(t, status) ==
  ended' = IF batch = NoBatch /\ batch' # NoBatch
             THEN [u \in LimitThreads |-> IF u = t /\ doing'[t] = "idle" THEN status ELSE "not"]
           ELSE IF batch # NoBatch /\ ~batch.ready /\ doing'[t] = "idle" THEN [ended EXCEPT ![t] = status]
           ELSE ended

-----------------------------------------------------------------------------
(* Work and its ends, as the shim reads of them.                             *)

(* Official work, which a switch under way holds back.                        *)
StartOfWork(t) ==
  /\ doing[t] = "idle" /\ switchPhase = "none" /\ workStarts < MaxWorkStarts
  /\ workStarts' = workStarts + 1
  /\ doing' = [doing EXCEPT ![t] = "sent"]
  /\ batch' = NoBatch /\ suppressed' = FALSE /\ batchAge' = 0
  /\ journal' = Remove(journal, t)
  /\ stopped' = stopped \ {t} /\ late' = late \ {t}
  /\ UNCHANGED <<hidden, observing, switchPhase, recoverIds, awaited, granted, limitSwitches,
                 atStart, unseen, ended>>

(* The child accepts a start, or the Continue that is awaited: what follows    *)
(* that await comes later (ContinueSettled).                                 *)
StartAccepted(t) ==
  /\ doing[t] \in {"sent", "asked"} \/ (awaited = t /\ ~granted)
  /\ doing' = [doing EXCEPT ![t] = "active"]
  /\ granted' = (granted \/ awaited = t)
  /\ stopped' = IF doing[t] = "sent" THEN stopped ELSE stopped \ {t}
  /\ UNCHANGED <<batchVars, journal, hidden, observing, switchPhase, recoverIds, awaited, bounds, late>>

(* captureUsageLimitedThread, and the rest of the handler that calls it.       *)
Captures(t, b, counted) ==
  IF observing /\ t \notin hidden
    THEN /\ Becomes(b, counted)
         /\ journal' = Journaled(t)
         /\ recoverIds' \in Snapshots(t)
    ELSE /\ UNCHANGED <<batch, suppressed, batchAge, atStart, unseen>>
         /\ journal' = IF observing THEN Remove(journal, t) ELSE journal
         /\ recoverIds' = IF observing THEN Forgotten(t) ELSE recoverIds

(* The child refuses an official start.                                      *)
StartRefused(t) ==
  /\ doing[t] = "sent"
  /\ doing' = [doing EXCEPT ![t] = "idle"]
  /\ LET counted == CountedActive(doing') IN
     \/ /\ Captures(t, LimitObserved(Now, t, TRUE, counted), counted)
        /\ EndedBy(t, "limit")
        /\ stopped' = stopped \cup {t}
     \/ /\ Becomes(EndObserved(Now, t, "rejected", counted), counted)
        /\ EndedBy(t, "other")
        /\ UNCHANGED <<journal, recoverIds, stopped>>
  /\ UNCHANGED <<hidden, observing, switchPhase, awaited, granted, bounds, late>>

(* It refuses the Continue that is awaited (observeRecoveryTurnFailure and the *)
(* catch in startRecoveryTurns): the thread stays in the journal.             *)
ContinueRefused(t) ==
  /\ awaited = t /\ ~granted
  /\ awaited' = NoThread
  /\ doing' = IF doing[t] = "asked" THEN [doing EXCEPT ![t] = "idle"] ELSE doing
  /\ LET counted == CountedActive(doing') IN
     \/ /\ Captures(t, LimitObserved(Now, t, TRUE, counted), counted)
        /\ EndedBy(t, "limit")
        /\ stopped' = stopped \cup {t}
     \/ UNCHANGED <<batchVars, journal, recoverIds, stopped>>
  /\ UNCHANGED <<hidden, observing, switchPhase, granted, bounds, late>>

(* The error notification before the end of the turn.                         *)
LimitError(t) ==
  /\ doing[t] = "active" /\ t \notin stopped
  /\ LET counted == CountedActive(doing) IN Captures(t, LimitObserved(Now, t, FALSE, counted), counted)
  /\ stopped' = stopped \cup {t}
  /\ UNCHANGED doing /\ EndedBy(t, "not")
  /\ UNCHANGED <<hidden, observing, switchPhase, awaited, granted, bounds, late>>

(* turn/completed: the turn still counts when its limit is observed, and no    *)
(* longer when its end is.                                                   *)
TurnEnds(t) ==
  /\ doing[t] = "active"
  /\ doing' = [doing EXCEPT ![t] = "idle"]
  /\ \E status \in {"completed", "interrupted", "failed", "limit"} :
       LET before == CountedActive(doing)
           b == IF status = "limit" /\ observing /\ t \notin hidden
                  THEN LimitObserved(Now, t, FALSE, before) ELSE Now
       IN /\ Becomes(EndObserved(b, t, status, CountedActive(doing')), before)
          /\ EndedBy(t, IF status = "limit" \/ (status = "failed" /\ t \in stopped) THEN "limit" ELSE "other")
          /\ IF status = "limit" /\ observing
               THEN IF t \in hidden
                 THEN journal' = Remove(journal, t) /\ recoverIds' = Forgotten(t)
                 ELSE journal' = Journaled(t) /\ recoverIds' \in Snapshots(t)
               ELSE UNCHANGED <<journal, recoverIds>>
          /\ stopped' = IF status = "limit" THEN stopped \cup {t} ELSE stopped
  /\ UNCHANGED <<hidden, observing, switchPhase, awaited, granted, bounds, late>>

(* rememberRuntimeThreadMetadata finds the thread to be no conversation of its *)
(* own.                                                                      *)
Classified(t) ==
  /\ t \notin hidden
  /\ hidden' = hidden \cup {t}
  /\ journal' = Remove(journal, t)
  /\ recoverIds' = Forgotten(t)
  /\ IF batch # NoBatch /\ t \in batch.threads
       THEN batch' = NoBatch /\ suppressed' = TRUE /\ batchAge' = 0
       ELSE UNCHANGED <<batch, suppressed, batchAge>>
  /\ UNCHANGED <<doing, observing, switchPhase, awaited, granted, bounds, stopped, late, atStart,
                 unseen, ended>>

(* Six hours have passed since the batch was made; ten minutes since it was    *)
(* ready.                                                                    *)
BatchAges ==
  /\ batch # NoBatch
  /\ \/ ~batch.ready /\ batchAge = 0 /\ batchAge' = 1
     \/ batch.ready /\ batchAge # 2 /\ batchAge' = 2
  /\ UNCHANGED <<doing, batch, suppressed, journal, hidden, observing, switchPhase, recoverIds,
                 awaited, granted, bounds, stopped, late, atStart, unseen, ended>>

(* The manager asks for the status.                                          *)
StatusRead ==
  /\ batch # NoBatch
  /\ Becomes(IF batchAge = 2 THEN Suppressed ELSE Finalized(Now, CountedActive(doing)), {})
  /\ UNCHANGED <<doing, journal, hidden, observing, switchPhase, recoverIds, awaited, granted,
                 bounds, stopped, late, ended>>

(* configureUsageLimitObservation and resetUsageLimitObservation.              *)
Configured ==
  /\ observing' \in BOOLEAN
  /\ batch' = NoBatch /\ suppressed' = FALSE /\ batchAge' = 0 /\ journal' = <<>>
  /\ UNCHANGED <<doing, hidden, switchPhase, recoverIds, awaited, granted, bounds, stopped, late,
                 atStart, unseen, ended>>

-----------------------------------------------------------------------------
(* A switch that recovers what the limit has stopped.                         *)

(* getRecoverableRecentUsageLimitedThreadIds: the batch's threads, otherwise   *)
(* the newest of the journal, unless that is older than ten minutes.          *)
Recoverable ==
  IF batch # NoBatch /\ batch.ready /\ batchAge < 2 THEN {batch.limited}
  ELSE LET visible == SelectSeq(journal, LAMBDA t : t \notin hidden) IN
       {{}} \cup (IF visible = <<>> THEN {} ELSE {{Last(visible)}})

LimitSwitchAsked ==
  /\ switchPhase = "none" /\ limitSwitches < MaxLimitSwitches
  /\ limitSwitches' = limitSwitches + 1
  /\ switchPhase' = "pending"
  /\ recoverIds' \in Recoverable
  /\ IF batchAge = 2 THEN batch' = NoBatch /\ suppressed' = TRUE /\ batchAge' = 0
                     ELSE UNCHANGED <<batch, suppressed, batchAge>>
  /\ UNCHANGED <<doing, journal, hidden, observing, awaited, granted, workStarts, stopped, late,
                 atStart, unseen, ended>>

(* drainPendingSwitch, once no turn is active: from here on the request takes  *)
(* up and forgets no thread.                                                 *)
LimitSwitchBegins ==
  /\ switchPhase = "pending" /\ \A u \in LimitThreads : doing[u] \in {"idle", "asked"}
  /\ switchPhase' = "login"
  /\ UNCHANGED <<batchVars, doing, journal, hidden, observing, recoverIds, awaited, granted, bounds,
                 stopped, late>>

LimitSwitchLoggedIn ==
  /\ switchPhase = "login"
  /\ switchPhase' = "continuing"
  /\ UNCHANGED <<batchVars, doing, journal, hidden, observing, recoverIds, awaited, granted, bounds,
                 stopped, late>>

(* It is cancelled or deferred, or the login or what resumes the Goals fails.  *)
LimitSwitchFails ==
  /\ switchPhase \in {"pending", "login"}
  /\ switchPhase' = "none" /\ recoverIds' = {}
  /\ UNCHANGED <<batchVars, doing, journal, hidden, observing, awaited, granted, bounds, stopped, late>>

(* startRecoveryTurns: one Continue after the other.  A thread that is busy    *)
(* with an older one is sent it, too.                                        *)
LimitSwitchContinues(t) ==
  /\ switchPhase = "continuing" /\ awaited = NoThread /\ t \in recoverIds
  /\ t \notin hidden
  /\ recoverIds' = recoverIds \ {t}
  /\ awaited' = t /\ granted' = FALSE
  /\ doing' = IF doing[t] = "idle" THEN [doing EXCEPT ![t] = "asked"] ELSE doing
  /\ UNCHANGED <<batchVars, journal, hidden, observing, switchPhase, bounds, stopped, late>>

(* A thread that is hidden or a subagent's, or whose Continue cannot be sent,  *)
(* is passed over.                                                           *)
LimitSwitchSkips(t) ==
  /\ switchPhase = "continuing" /\ awaited = NoThread /\ t \in recoverIds
  /\ recoverIds' = recoverIds \ {t}
  /\ UNCHANGED <<batchVars, doing, journal, hidden, observing, switchPhase, awaited, granted, bounds,
                 stopped, late>>

(* Faulty: the journal keeps a thread that was continued.                     *)
FaultyContinueSettled(t) ==
  /\ awaited = t /\ granted
  /\ awaited' = NoThread /\ granted' = FALSE
  /\ UNCHANGED <<batchVars, journal, doing, hidden, observing, switchPhase, recoverIds, bounds, stopped,
                 late>>

(* Only a Continue that was accepted takes its thread out of the journal       *)
(* (clearRecentUsageLimitedThread).                                          *)
ContinueSettled(t) ==
  /\ awaited = t /\ granted
  /\ awaited' = NoThread /\ granted' = FALSE
  /\ journal' = Remove(journal, t)
  /\ UNCHANGED <<batchVars, doing, hidden, observing, switchPhase, recoverIds, bounds, stopped, late>>

(* sendInternalRequest gives up: the answer will be read by nobody.            *)
ContinueTimesOut(t) ==
  /\ awaited = t /\ ~granted
  /\ awaited' = NoThread
  /\ late' = late \cup {t}
  /\ UNCHANGED <<batchVars, doing, journal, hidden, observing, switchPhase, recoverIds, granted,
                 bounds, stopped>>

(* The child refuses a Continue the shim has given up.                        *)
LateRefusal(t) ==
  /\ doing[t] = "asked" /\ awaited # t
  /\ doing' = [doing EXCEPT ![t] = "idle"]
  /\ UNCHANGED <<batchVars, journal, hidden, observing, switchPhase, recoverIds, awaited, granted,
                 bounds, stopped, late>>

LimitSwitchDone ==
  /\ switchPhase = "continuing" /\ recoverIds = {} /\ awaited = NoThread
  /\ switchPhase' = "none"
  /\ batch' = NoBatch /\ suppressed' = FALSE /\ batchAge' = 0
  /\ UNCHANGED <<doing, journal, hidden, observing, recoverIds, awaited, granted, bounds, stopped,
                 late, atStart, unseen, ended>>

LimitNext ==
  \/ \E t \in LimitThreads :
       \/ StartOfWork(t) \/ StartAccepted(t) \/ StartRefused(t) \/ LimitError(t) \/ TurnEnds(t)
       \/ Classified(t) \/ LimitSwitchContinues(t) \/ LimitSwitchSkips(t) \/ ContinueRefused(t)
       \/ ContinueSettled(t) \/ ContinueTimesOut(t) \/ LateRefusal(t)
  \/ BatchAges \/ StatusRead \/ Configured \/ LimitSwitchAsked \/ LimitSwitchBegins
  \/ LimitSwitchLoggedIn \/ LimitSwitchFails \/ LimitSwitchDone

LimitSpec == LimitInit /\ [][LimitNext]_limitVars

-----------------------------------------------------------------------------

LimitTypeOK ==
  /\ doing \in [LimitThreads -> {"idle", "sent", "asked", "active"}]
  /\ batch # NoBatch =>
       /\ batch.limited \cup batch.terminal \subseteq batch.threads
       /\ batch.threads \subseteq LimitThreads
  /\ suppressed => batch = NoBatch
  /\ Len(journal) <= Cardinality(LimitThreads)

(* A batch is ready before its deadline only when every thread that had work   *)
(* under way when it was made has ended it by the limit and nobody has begun   *)
(* official work since: one conversation that still goes on, ends well or is   *)
(* interrupted must keep the scheduler from switching for all of them.  A      *)
(* Continue that is unanswered does not count as work under way (line 3360),   *)
(* and one given up unanswered may meet a second one.                         *)
ReadyMeansExhausted ==
  batch # NoBatch /\ batch.ready /\ batchAge = 0 /\ ~unseen =>
    \A t \in atStart \ (hidden \cup late) : ended[t] = "limit"

(* A switch continues a thread only if its last turn hit the limit: no thread  *)
(* is continued by one switch after another for one failure, from the journal  *)
(* and the batch, and none whose user has gone on since.  A Continue that is   *)
(* refused is no turn.  Only after one that was given up unanswered may the    *)
(* next switch continue a thread that has long gone on: it is still in the     *)
(* journal.                                                                  *)
ContinuesStoppedOnly ==
  [][\A t \in LimitThreads : awaited # t /\ awaited' = t => t \in stopped \cup late]_limitVars
=============================================================================
