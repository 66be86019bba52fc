--------------------------- MODULE AccountCutover ---------------------------
(***************************************************************************)
(* What an account switch promises its users (docs/HOT_SWITCH.md): the     *)
(* child, the manager and the shim change account together, at one point,  *)
(* and only when the switch succeeds.  A switch that is deferred, canceled *)
(* or failed leaves the account alone, except that a failed rollback makes *)
(* the account untrusted until a later switch succeeds.                    *)
(***************************************************************************)
EXTENDS Naturals

CONSTANTS Accounts, InitAccount, MaxSwitches

Parties == {"child", "manager", "shim"}
Together(a) == [p \in Parties |-> a]
Untrusted == Together("untrusted")

VARIABLES
  outcome,    \* what became of every switch
  target,     \* the account asked for last
  holds       \* the account of every party, or Untrusted

vars == <<outcome, target, holds>>

Init ==
  /\ outcome = [o \in 1..MaxSwitches |-> "unknown"]
  /\ target = InitAccount
  /\ holds = Together(InitAccount)

Open(o) == outcome[o] = "open"

(* A switch is asked for when no other one is open.                         *)
Request(o, a) ==
  /\ outcome[o] = "unknown" /\ \A p \in 1..MaxSwitches : ~Open(p)
  /\ outcome' = [outcome EXCEPT ![o] = "open"]
  /\ target' = a
  /\ UNCHANGED holds

Succeed(o) ==
  /\ Open(o)
  /\ outcome' = [outcome EXCEPT ![o] = "switched"]
  /\ holds' = Together(target)
  /\ UNCHANGED target

GiveUp(o) ==
  /\ Open(o)
  /\ outcome' \in {[outcome EXCEPT ![o] = r] : r \in {"deferred", "failed"}}
  /\ UNCHANGED <<target, holds>>

RollbackFails(o) ==
  /\ Open(o)
  /\ holds' = Untrusted
  /\ UNCHANGED <<outcome, target>>

Next == \E o \in 1..MaxSwitches :
  \/ \E a \in Accounts : Request(o, a)
  \/ Succeed(o) \/ GiveUp(o) \/ RollbackFails(o)

Spec == Init /\ [][Next]_vars
=============================================================================
