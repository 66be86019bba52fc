-------------------------- MODULE MCSwitchBarrier --------------------------
(* Instances of SwitchBarrier for TLC. *)
EXTENDS SwitchBarrier, TLC

CONSTANTS t1, t2, a1, a2

OneThread == {t1}
TwoThreads == {t1, t2}
TwoAccounts == {a1, a2}
AnyGoal == [Threads -> {"none", "active", "limited"}]
FirstGoal == {[t \in Threads |-> IF t = t1 THEN "active" ELSE "none"]}
AnyRecent == SUBSET Threads
NothingRecent == {{}}
NoTimeouts == {}
AllTimeouts == TimedCalls
(* Without those whose late arrival breaks a promise of its own: see the      *)
(* README, section 6.                                                        *)
SafeTimeouts == TimedCalls \ {"login", "pause", "interrupt", "continue"}
=============================================================================
