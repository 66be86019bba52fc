--------------------------- MODULE SeamlessSwitch ---------------------------
(***************************************************************************)
(* The decisions to change accounts, which every extension host makes for    *)
(* the one runtime of a machine (src/application/accounts/quota.ts,           *)
(* balanceScheduler.ts, runtimeSwitchCoordinator.ts): when it has refreshed   *)
(* the quota of the active account, when the runtime reports threads at their *)
(* limit or a model without capacity.  The switch itself is that of           *)
(* SwitchBarrier: at once in the runtime and in the index, or not at all.     *)
(* A quota is a band, that of the five hours, or of the week for an account   *)
(* without a five-hour window; the weekly quotas of the others are ample.     *)
(* The hosts differ in the account they take for the current one, which they  *)
(* may have read five seconds ago; the quotas known are the same for all.     *)
(***************************************************************************)
EXTENDS Naturals

CONSTANTS
  SwitchHosts, NoSwitch,
  PoolAccounts,
  CapacityHosts,      \* hosts the runtime may ask about a thread without capacity
  Reserves,           \* accounts that may have no five-hour window
  NoBand,             \* no band has been recorded
  MaxBand,
  SwitchThreshold,    \* seamlessSwitchThreshold, 0 for "after exhaustion"
  MaxUse,             \* bound: bands used up
  MaxSwitchFaults     \* bound: switches that fail, polls with an old copy

ASSUME SeamlessSwitchAssumption ==
  /\ Reserves \subseteq PoolAccounts /\ CapacityHosts \subseteq SwitchHosts
  /\ MaxBand \in Nat /\ SwitchThreshold \in Nat /\ NoBand \notin Nat
  /\ NoSwitch \notin SwitchHosts \cup PoolAccounts
  /\ MaxUse \in Nat /\ MaxSwitchFaults \in Nat

VARIABLES
  reserves,       \* accounts without a five-hour window
  left,           \* the quota that is left of each account
  known,          \* the one in the index
  current,        \* the account in the runtime and in the index
  copy,           \* the current account in readIndex of each host
  bands,          \* hourlyBands of each host
  attempt,        \* seamlessSwitchInFlight of each host
  seamlessLease,  \* the holder of the lease "seamless-switch", never renewed
  switchLease,    \* the holder of the lease "runtime-switch"
  limitSignal,    \* the runtime reports threads stopped by the limit
  limitPending,   \* hosts with retryPending in their monitor
  used, switchFaults

hostVars == <<copy, bands, attempt, seamlessLease, limitPending>>
countVars == <<used, switchFaults>>
seamlessVars == <<reserves, left, known, current, switchLease, limitSignal, hostVars, countVars>>

Quotas == 0..MaxBand
Triggers == {"refresh", "limit", "capacity"}
NoAttempt == [at |-> "none"]
(* seen is listAccounts, as it was for the decision.                          *)
Attempts ==
  [at: {"switch", "switching"}, trigger: Triggers, saw: PoolAccounts,
   next: PoolAccounts, seen: [PoolAccounts -> Quotas]]

SeamlessInit ==
  /\ reserves \in {{}, Reserves} /\ current \in PoolAccounts \ reserves
  /\ left \in {[a \in PoolAccounts |-> full] : full \in Quotas \ {0}} /\ known = left
  /\ copy = [h \in SwitchHosts |-> current]
  /\ bands = [h \in SwitchHosts |-> [a \in PoolAccounts |-> NoBand]]
  /\ attempt = [h \in SwitchHosts |-> NoAttempt]
  /\ seamlessLease = NoSwitch /\ switchLease = NoSwitch
  /\ limitSignal = FALSE /\ limitPending = {}
  /\ used = 0 /\ switchFaults \in 0..MaxSwitchFaults

-----------------------------------------------------------------------------
(* What is decided for an account.                                           *)

Threshold(trigger) == IF trigger = "capacity" THEN 0 ELSE SwitchThreshold
Windowed(a) == a \notin reserves

(* thresholdSwitch.                                                          *)
AtLimit(trigger, quota) ==
  trigger = "limit" \/ (trigger = "refresh" /\ SwitchThreshold > 0 /\ quota <= SwitchThreshold)

(* didQuotaBandDrop.                                                         *)
Dropped(recorded, a, quota) == Windowed(a) /\ recorded # NoBand /\ quota < recorded

(* The accounts with a quota to go on with.                                   *)
Recovering(quotas, threshold) == {a \in PoolAccounts : quotas[a] > threshold}

(* The accounts selectBalanceCandidate chooses from; which of them it takes    *)
(* is a matter of the user's order.                                          *)
Candidates(trigger, a, quotas) ==
  LET threshold == Threshold(trigger)
      recovered == Recovering(quotas, threshold) \ {a}
      windowed == recovered \ reserves
  IN IF a \in reserves /\ quotas[a] > threshold /\ ~AtLimit(trigger, quotas[a]) THEN {}
     ELSE IF a \in reserves \/ quotas[a] <= threshold \/ trigger # "refresh"
       THEN IF windowed # {} THEN windowed ELSE recovered
     ELSE {b \in PoolAccounts \ reserves : quotas[b] > quotas[a]}

(* observeSeamlessQuotaBand: a drop is not recorded until it is acknowledged.  *)
Observed(recorded, a, quota) ==
  IF Windowed(a) /\ ~Dropped(recorded, a, quota) THEN quota ELSE recorded

-----------------------------------------------------------------------------
(* An attempt of a host.                                                     *)

(* executeSeamlessBalanceSwitch up to the choice, with the accounts as listed. *)
(* Without the lease, or while an attempt of the host goes on, nothing is done. *)
Decide(h, trigger, a, quotas) ==
  IF attempt[h] # NoAttempt \/ seamlessLease # NoSwitch
  THEN UNCHANGED <<bands, attempt, seamlessLease>>
  ELSE LET recorded == bands[h][a]
           called == trigger = "capacity" \/ AtLimit(trigger, quotas[a])
                       \/ Dropped(recorded, a, quotas[a])
           from == IF called THEN Candidates(trigger, a, quotas) ELSE {}
       IN /\ bands' = IF trigger = "capacity" THEN bands
                      ELSE [bands EXCEPT ![h][a] = Observed(recorded, a, quotas[a])]
          /\ IF from = {} THEN UNCHANGED <<attempt, seamlessLease>>
             ELSE /\ seamlessLease' = h
                  /\ \E next \in from :
                       attempt' = [attempt EXCEPT ![h] =
                         [at |-> "switch", trigger |-> trigger, saw |-> a, next |-> next,
                          seen |-> quotas]]

(* Faulty: the quota asked for is used for the decision and not stored.        *)
FaultyRefreshQuota(h, a) ==
  /\ IF copy[h] = a THEN Decide(h, "refresh", a, [known EXCEPT ![a] = left[a]])
     ELSE UNCHANGED <<bands, attempt, seamlessLease>>
  /\ UNCHANGED <<reserves, left, known, current, copy, switchLease, limitSignal, limitPending, countVars>>

(* refreshSingleQuota, and the attempt that follows for the active account.    *)
RefreshQuota(h, a) ==
  /\ known' = [known EXCEPT ![a] = left[a]]
  /\ IF copy[h] = a THEN Decide(h, "refresh", a, known')
     ELSE UNCHANGED <<bands, attempt, seamlessLease>>
  /\ UNCHANGED <<reserves, left, current, copy, switchLease, limitSignal, limitPending, countVars>>

(* pollRuntime and handleCapacityRecovery know the account of the runtime.  A  *)
(* host with another one in its copy asks for a switch to that one at once.    *)
Signalled(h, trigger) ==
  /\ attempt[h] = NoAttempt
  /\ IF copy[h] = current THEN Decide(h, trigger, current, known)
     ELSE /\ attempt' = [attempt EXCEPT ![h] =
               [at |-> "switch", trigger |-> trigger, saw |-> copy[h], next |-> copy[h],
                seen |-> known]]
          /\ UNCHANGED <<bands, seamlessLease>>
  /\ UNCHANGED <<reserves, left, known, current, copy, switchLease, limitSignal, limitPending, used>>

PollLimit(h) ==
  /\ limitSignal /\ h \in limitPending /\ switchLease = NoSwitch
  /\ IF copy[h] = current THEN UNCHANGED switchFaults
     ELSE switchFaults < MaxSwitchFaults /\ switchFaults' = switchFaults + 1
  /\ Signalled(h, "limit")

CapacityAsked(h) ==
  h \in CapacityHosts /\ Signalled(h, "capacity") /\ UNCHANGED switchFaults

(* A switch that takes longer than the lease lets another host decide.        *)
SeamlessLeaseEnds ==
  /\ seamlessLease # NoSwitch /\ attempt[seamlessLease].at = "switching"
  /\ seamlessLease' = NoSwitch
  /\ UNCHANGED <<reserves, left, known, current, copy, bands, attempt, switchLease, limitSignal,
                 limitPending, countVars>>

DropAttempt(h) == attempt' = [attempt EXCEPT ![h] = NoAttempt]
DropLease(h) == seamlessLease' = IF seamlessLease = h THEN NoSwitch ELSE seamlessLease

(* The view that handleCapacityRecovery hands over is the one of the refresh   *)
(* coordinator, which has no switchRuntimeAccount.                           *)
ViewSwitches(trigger) == trigger # "capacity"

(* RuntimeSwitchCoordinator.switchAccount.                                    *)
AskSwitch(h) ==
  /\ attempt[h].at = "switch"
  /\ IF ViewSwitches(attempt[h].trigger) /\ switchLease = NoSwitch
       THEN /\ switchLease' = h /\ UNCHANGED seamlessLease
            /\ attempt' = [attempt EXCEPT ![h].at = "switching"]
       ELSE DropAttempt(h) /\ DropLease(h) /\ UNCHANGED switchLease
  /\ UNCHANGED <<reserves, left, known, current, copy, bands, limitSignal, limitPending, countVars>>

(* account/activate is answered by one of the hosts, which then knows.         *)
Activated(a) ==
  /\ current' = a
  /\ \E g \in SwitchHosts : copy' = [copy EXCEPT ![g] = a]

(* recoverRecentUsageLimitedTurns: the switch takes up the threads that have   *)
(* stopped.                                                                  *)
TakesUpStopped(r) == SwitchThreshold = 0 \/ AtLimit(r.trigger, r.seen[r.saw])

(* A success is followed by acknowledgeSeamlessQuotaBand of the account that    *)
(* was left and recordSeamlessSelection of the other; the monitor is told.  A   *)
(* poll without a signal clears retryPending.                                *)
SwitchSucceeds(h) ==
  /\ attempt[h].at = "switching"
  /\ Activated(attempt[h].next)
  /\ limitSignal' = (limitSignal /\ ~TakesUpStopped(attempt[h]))
  /\ limitPending' = IF ~limitSignal' THEN {}
                     ELSE IF attempt[h].trigger = "limit" THEN limitPending \ {h} ELSE limitPending
  /\ LET saw == attempt[h].saw
         next == attempt[h].next
         seen == attempt[h].seen
     IN bands' = IF next = saw THEN bands
                 ELSE [bands EXCEPT ![h] = [a \in PoolAccounts |->
                         IF a \in {saw, next} /\ Windowed(a) THEN seen[a]
                         ELSE IF a = next THEN NoBand ELSE @[a]]]
  /\ DropAttempt(h) /\ DropLease(h) /\ switchLease' = NoSwitch
  /\ UNCHANGED <<reserves, left, known, countVars>>

(* It fails or is deferred, or succeeds after the coordinator has stopped      *)
(* asking for its outcome.                                                   *)
SwitchFails(h) ==
  /\ attempt[h].at = "switching"
  /\ switchFaults < MaxSwitchFaults /\ switchFaults' = switchFaults + 1
  /\ \/ UNCHANGED <<current, copy>>
     \/ Activated(attempt[h].next)
  /\ DropAttempt(h) /\ DropLease(h) /\ switchLease' = NoSwitch
  /\ UNCHANGED <<reserves, left, known, bands, limitSignal, limitPending, used>>

-----------------------------------------------------------------------------
(* The conversations and the time.                                           *)

UseQuota ==
  /\ used < MaxUse /\ left[current] > 0
  /\ left' = [left EXCEPT ![current] = @ - 1]
  /\ used' = used + 1
  /\ UNCHANGED <<reserves, known, current, switchLease, limitSignal, hostVars, switchFaults>>

(* A turn, the Continue of an earlier switch for one, meets the limit.         *)
TurnMeetsLimit ==
  /\ left[current] = 0 /\ ~limitSignal
  /\ limitSignal' = TRUE /\ limitPending' = SwitchHosts
  /\ UNCHANGED <<reserves, left, known, current, copy, bands, attempt, seamlessLease, switchLease,
                 countVars>>

(* The batch gets too old (expireStaleUsageLimitExhaustionBatch).              *)
SignalExpires ==
  /\ limitSignal /\ limitSignal' = FALSE /\ limitPending' = {}
  /\ UNCHANGED <<reserves, left, known, current, copy, bands, attempt, seamlessLease, switchLease, countVars>>

CopyExpires(h) ==
  /\ copy[h] # current
  /\ copy' = [copy EXCEPT ![h] = current]
  /\ UNCHANGED <<reserves, left, known, current, bands, attempt, seamlessLease, switchLease, limitSignal,
                 limitPending, countVars>>

AttemptStep(h) ==
  AskSwitch(h) \/ SwitchSucceeds(h) \/ SwitchFails(h)

SeamlessNext ==
  \/ \E h \in SwitchHosts :
       \/ \E a \in PoolAccounts : RefreshQuota(h, a)
       \/ PollLimit(h) \/ CapacityAsked(h) \/ AttemptStep(h)
       \/ CopyExpires(h)
  \/ SeamlessLeaseEnds \/ UseQuota \/ TurnMeetsLimit \/ SignalExpires

SeamlessSpec == SeamlessInit /\ [][SeamlessNext]_seamlessVars

(* An attempt goes on; one of the hosts refreshes each quota time and again.   *)
SeamlessFairness ==
  /\ \A h \in SwitchHosts : WF_seamlessVars(AttemptStep(h))
  /\ \A a \in PoolAccounts : SF_seamlessVars(\E h \in SwitchHosts : RefreshQuota(h, a))

FairSeamlessSpec == SeamlessSpec /\ SeamlessFairness

-----------------------------------------------------------------------------

SeamlessTypeOK ==
  /\ reserves \subseteq PoolAccounts
  /\ left \in [PoolAccounts -> Quotas] /\ known \in [PoolAccounts -> Quotas]
  /\ current \in PoolAccounts /\ copy \in [SwitchHosts -> PoolAccounts]
  /\ bands \in [SwitchHosts -> [PoolAccounts -> Quotas \cup {NoBand}]]
  /\ attempt \in [SwitchHosts -> Attempts \cup {NoAttempt}]
  /\ {seamlessLease, switchLease} \subseteq SwitchHosts \cup {NoSwitch}
  /\ limitSignal \in BOOLEAN /\ limitPending \subseteq SwitchHosts

(* The accounts are not changed for ever: threads at their limit go on with    *)
(* the next account, meet its limit there and come back as long as the quotas  *)
(* known are not those that are left, but no longer.  A host with an old copy   *)
(* of the current account has the runtime follow it back each time, which is   *)
(* why such polls are bounded.                                               *)
RotationEnds == <>[][current' = current]_seamlessVars

(* For a thread without capacity the manager first switches when there is a    *)
(* fresh candidate (docs/HOT_SWITCH.md:41): once one is chosen and no other    *)
(* switch is under way, the runtime is asked.                                *)
CapacitySwitches ==
  [][\A h \in SwitchHosts :
       attempt[h].at = "switch" /\ attempt[h].trigger = "capacity" /\ attempt'[h] = NoAttempt
         => switchLease # NoSwitch]_seamlessVars
=============================================================================
