---------------------------- MODULE MCRecovery -----------------------------
(* What goes on by itself, for TLC: the recovery of a thread without capacity, *)
(* the automatic switches, the election of the owner of a Codex home.  The    *)
(* modules share no state, so a behaviour is one of one of them, the others   *)
(* resting.                                                                  *)
EXTENDS CapacityRecovery, SeamlessSwitch, RuntimeOwner

CONSTANTS h1, h2, x, y, s1, s2, s3, d1, d2

(* A shim killed between making the directory and creating its record       *)
(* leaves a directory nobody removes.                                       *)
NotBeforeRecord == Positions \ {"new", "dead", "write"}

(* Two ways to begin: with ample quotas, which are balanced, and no faults;    *)
(* with scarce ones, a reserve, and faults.                                  *)
EvenQuotas == left[x] = MaxBand /\ switchFaults = MaxSwitchFaults
ScarceQuotas == left[x] = 1 /\ switchFaults = 0

VARIABLE cause

recoveryVars == <<capacityVars, seamlessVars, vars, cause>>

RecoveryInit ==
  /\ CapacityInit /\ SeamlessInit /\ Init
  /\ cause \in {"capacity", "quota", "home"}
  /\ cause # "capacity" => ~subagent
  /\ IF cause = "quota" /\ reserves = {} THEN EvenQuotas ELSE ScarceQuotas /\ reserves = Reserves
  /\ cause # "quota" => current = x
  /\ cause # "home" => dir = NoDir

RecoveryNext ==
  /\ UNCHANGED cause
  /\ \/ /\ cause = "capacity" /\ CapacityNext
        /\ UNCHANGED <<seamlessVars, vars>>
     \/ /\ cause = "quota" /\ SeamlessNext
        /\ UNCHANGED <<capacityVars, vars>>
     \/ /\ cause = "home" /\ Next
        /\ UNCHANGED <<capacityVars, seamlessVars>>

(* CapacityFairness, SeamlessFairness and the fairness of FairSpec, each for  *)
(* its own behaviours.                                                       *)
InCapacity(A) == cause = "capacity" /\ A
InQuota(A) == cause = "quota" /\ A
InHome(A) == cause = "home" /\ A
RecoveryFairness ==
  /\ WF_capacityVars(InCapacity(RecoveryTimer)) /\ WF_capacityVars(InCapacity(ShimReads))
  /\ WF_capacityVars(InCapacity(SwitchStep)) /\ WF_capacityVars(InCapacity(ChildTakesStart))
  /\ WF_capacityVars(InCapacity(ChildEndsTurn))
  /\ \A r \in Runs : WF_capacityVars(InCapacity(RunStep(r)))
  /\ \A h \in SwitchHosts : WF_seamlessVars(InQuota(AttemptStep(h)))
  /\ \A a \in PoolAccounts :
       SF_seamlessVars(InQuota(\E h \in SwitchHosts : RefreshQuota(h, a)))
  /\ \A s \in Running :
       /\ WF_vars(InHome(ShimStep(s))) /\ SF_vars(InHome(GiveUp(s)))
       /\ WF_vars(InHome(Renew(s))) /\ WF_vars(InHome(ChildKilled(s)))
  /\ \A d \in Dirs : WF_vars(InHome(RecordExpires(d))) /\ WF_vars(InHome(DirAges(d)))

RecoverySpec == RecoveryInit /\ [][RecoveryNext]_recoveryVars /\ RecoveryFairness

(* The types of the modules; that of RuntimeOwner is proved.                  *)
RecoveryTypesOK == CapacityTypeOK /\ SeamlessTypeOK
=============================================================================
