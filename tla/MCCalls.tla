------------------------------ MODULE MCCalls ------------------------------
(* The calls of windows, for TLC: what becomes of them in the queues of a      *)
(* thread, on the way between windows and the app-server, and at the limit of *)
(* the account.  The modules share no state, so a behaviour is one of one of   *)
(* them, the others resting.                                                 *)
EXTENDS MCSessionQueue, AttachedCalls, UsageLimitBatch

CONSTANTS w1, w2, w3,
  Stages  \* which of "queue", "windows" and "limit" a run looks at

(* The first owner works, another window makes a second call of each kind.    *)
WindowPlans ==
  {<<"initialize">>, <<"initialize", "work">>, <<"initialize", "read">>, <<"initialize", "initialize">>}
FirstPlans == plan[w1] = <<"initialize", "work">> /\ Len(plan[w2]) = 2 /\ Len(plan[w3]) = 1

VARIABLE stage

callsVars == <<vars, attachedVars, limitVars, stage>>

CallsInit ==
  /\ Init /\ AttachedInit /\ LimitInit /\ hub = w1 /\ FirstPlans
  /\ stage \in Stages
  /\ stage # "windows" => plan[w2] = <<"initialize", "work">>

CallsNext ==
  /\ UNCHANGED stage
  /\ \/ stage = "queue" /\ Next /\ UNCHANGED <<attachedVars, limitVars>>
     \/ stage = "windows" /\ AttachedNext /\ UNCHANGED <<vars, limitVars>>
     \/ stage = "limit" /\ LimitNext /\ UNCHANGED <<vars, attachedVars>>

(* Fairness and AttachedFairness, each for its own behaviours.                *)
InQueue(A) == stage = "queue" /\ A
InWindows(A) == stage = "windows" /\ A
CallsFairness ==
  /\ WF_vars(InQueue(FlushDeferred)) /\ WF_vars(InQueue(LowerBarrier)) /\ WF_vars(InQueue(ChildTake))
  /\ WF_vars(InQueue(\E a \in owed : ChildAnswer(a)))
  /\ \A t \in Threads : WF_vars(InQueue(Read(t))) /\ WF_vars(InQueue(ChildFinish(t)))
  /\ \A w \in Windows : WF_attachedVars(InWindows(WindowStep(w)))
  /\ WF_attachedVars(InWindows(ChildStep)) /\ WF_attachedVars(InWindows(PromotionStep))

CallsSpec == CallsInit /\ [][CallsNext]_callsVars
FairCallsSpec == CallsSpec /\ CallsFairness
=============================================================================
