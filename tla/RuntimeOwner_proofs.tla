------------------------ MODULE RuntimeOwner_proofs ------------------------
(***************************************************************************)
(* Theorems about RuntimeOwner, for every set of shims and directories,    *)
(* every place a shim may be killed at, and with late renewals; and about  *)
(* AttachedCalls, for every set of windows and every plan of calls.        *)
(***************************************************************************)
EXTENDS RuntimeOwner, AttachedCalls, FiniteSetTheorems, TLAPS

(* What an open owner.json, and a record, say of each other.  A record being *)
(* created is nobody's yet and open in one shim only; one that is being      *)
(* renewed belongs to the shim that has it open.                             *)
RecordsOK ==
  /\ \A d \in Dirs :
       /\ rec[d].text = "none" => rec[d].owner = NoShim
       /\ rec[d].text = "whole" => rec[d].owner # NoShim
  /\ \A p \in Shims :
       /\ pc[p] = "fill" => rec[handle[p]].owner = NoShim /\ rec[handle[p]].text = "torn"
       /\ pc[p] # "fill" /\ handle[p] # NoDir => rec[handle[p]].owner = p
  /\ \A p, q \in Shims :
       pc[p] = "fill" /\ pc[q] = "fill" /\ p # q => handle[p] # handle[q]

IInv == TypeOK /\ RecordsOK

-----------------------------------------------------------------------------
(* Initially every record is absent or a killed owner's.                    *)
LEMMA InitKeepsRecords == Init => IInv
<1> SUFFICES ASSUME Init
             PROVE  IInv
  OBVIOUS
<1>1. \A d \in Dirs : rec[d] \in Records /\ (rec[d].text = "none" <=> rec[d].owner = NoShim)
  <2>1. CASE dir = NoDir /\ rec = [d \in Dirs |-> NoRecord]
    BY <2>1 DEF Records, NoRecord
  <2>2. CASE /\ dir \in Dirs
             /\ \E p \in Before, text \in {"torn", "whole"} :
                  rec = [d \in Dirs |-> IF d # dir THEN NoRecord
                                        ELSE [owner |-> p, text |-> text, expired |-> FALSE]]
    BY <2>2, RuntimeOwnerAssumption DEF Records, NoRecord
  <2> QED
    BY <2>1, <2>2 DEF Init
<1>2. rec \in [Dirs -> Records]
  <2>1. rec = [d \in Dirs |-> rec[d]]
    BY DEF Init
  <2> QED
    BY <1>1, <2>1
<1>3. TypeOK
  BY <1>2, RuntimeOwnerAssumption DEF Init, TypeOK, Positions, Serving
<1>4. RecordsOK
  BY <1>1, <1>3 DEF Init, RecordsOK, Records, TypeOK
<1> QED
  BY <1>3, <1>4 DEF IInv

-----------------------------------------------------------------------------
(* A record with another text or expiry is a record of the same owner.      *)
LEMMA RecordField ==
  ASSUME NEW r \in [Dirs -> Records], NEW d \in Dirs
  PROVE  /\ \A text \in {"none", "torn", "whole"} :
              /\ [r EXCEPT ![d].text = text] \in [Dirs -> Records]
              /\ \A e \in Dirs : [r EXCEPT ![d].text = text][e].owner = r[e].owner
         /\ [r EXCEPT ![d].expired = TRUE] \in [Dirs -> Records]
         /\ \A e \in Dirs : /\ [r EXCEPT ![d].expired = TRUE][e].owner = r[e].owner
                            /\ [r EXCEPT ![d].expired = TRUE][e].text = r[e].text
<1>1. /\ r[d] \in Records
      /\ \A text \in {"none", "torn", "whole"} : [r[d] EXCEPT !.text = text] \in Records
      /\ [r[d] EXCEPT !.expired = TRUE] \in Records
  BY DEF Records
<1> QED
  BY <1>1 DEF Records

-----------------------------------------------------------------------------
(* Every operation of a shim keeps the records.                             *)
LEMMA ShimKeepsRecords ==
  ASSUME IInv, NEW p \in Shims,
         \/ Start(p) \/ ShimStep(p) \/ GiveUp(p) \/ RenewBegin(p) \/ RenewEnd(p)
         \/ Shutdown(p) \/ ChildExits(p) \/ Crash(p)
  PROVE  IInv'
<1> USE DEF IInv
<1>1. ASSUME Start(p)
     PROVE  IInv'
  <2>1. TypeOK'
    BY <1>1, RuntimeOwnerAssumption
    DEF TypeOK, Goto, Positions, Serving, Start
  <2>2. RecordsOK'
    BY <1>1
    DEF TypeOK, RecordsOK, Goto, Positions, Serving, Start
  <2> QED
    BY <2>1, <2>2 DEF IInv
<1>2. ASSUME Look(p)
     PROVE  IInv'
  <2>1. TypeOK'
    BY <1>2, RuntimeOwnerAssumption
    DEF TypeOK, Goto, Positions, Serving, RecordsOK, Records, Look, Attachable
  <2>2. RecordsOK'
    BY <1>2
    DEF TypeOK, RecordsOK, Goto, Positions, Serving, Look, Attachable
  <2> QED
    BY <2>1, <2>2 DEF IInv
<1>3. ASSUME Disconnected(p)
     PROVE  IInv'
  <2>1. TypeOK'
    BY <1>3, RuntimeOwnerAssumption
    DEF TypeOK, Goto, Positions, Serving, Disconnected
  <2>2. RecordsOK'
    BY <1>3
    DEF TypeOK, RecordsOK, Goto, Positions, Serving, Disconnected
  <2> QED
    BY <2>1, <2>2 DEF IInv
<1>4. ASSUME MakeDir(p)
     PROVE  IInv'
  <2>1. CASE dir # NoDir
    BY <1>4, <2>1, RuntimeOwnerAssumption DEF TypeOK, RecordsOK, Goto, Positions, Serving, MakeDir
  <2>2. CASE dir = NoDir
    <3>1. \A d \in Dirs : rec'[d] = rec[d] \/ rec'[d] = NoRecord
      BY <1>4, <2>2 DEF TypeOK, MakeDir
    <3>2. \A q \in Shims : handle[q] \in Dirs => rec'[handle[q]] = rec[handle[q]]
      BY <1>4, <2>2 DEF TypeOK, MakeDir, Opened
    <3>3. NoRecord \in Records
      BY DEF NoRecord, Records
    <3>4. rec' \in [Dirs -> Records]
      <4>1. rec' = [d \in Dirs |-> IF d \in Opened THEN rec[d] ELSE NoRecord]
        BY <1>4, <2>2 DEF MakeDir
      <4> QED
        BY <4>1, <3>3 DEF TypeOK
    <3>5. TypeOK'
      BY <1>4, <2>2, <3>4, RuntimeOwnerAssumption DEF TypeOK, Goto, Positions, Serving, MakeDir
    <3>6. RecordsOK'
      BY <1>4, <2>2, <3>1, <3>2, RuntimeOwnerAssumption
      DEF TypeOK, RecordsOK, Goto, MakeDir, NoRecord
    <3> QED
      BY <3>5, <3>6 DEF IInv
  <2> QED
    BY <2>1, <2>2
<1>5. ASSUME CreateRecord(p)
     PROVE  IInv'
  <2>1. rec' \in [Dirs -> Records] /\ \A d \in Dirs : rec'[d].owner = rec[d].owner
    <3>1. \/ rec' = rec
          \/ dir \in Dirs /\ rec' = [rec EXCEPT ![dir].text = "torn"]
      <4>1. dir \in Dirs \cup {NoDir}
        BY DEF TypeOK
      <4> QED
        BY <1>5, <4>1 DEF CreateRecord
    <3>2. rec \in [Dirs -> Records]
      BY DEF TypeOK
    <3>3. CASE rec' = rec
      BY <3>2, <3>3
    <3>4. CASE dir \in Dirs /\ rec' = [rec EXCEPT ![dir].text = "torn"]
      BY <3>2, <3>4, RecordField
    <3> QED
      BY <3>1, <3>3, <3>4
  <2>2. \A d \in Dirs : d # dir => rec'[d] = rec[d]
    BY <1>5 DEF TypeOK, CreateRecord
  <2>3. TypeOK'
    BY <1>5, <2>1, RuntimeOwnerAssumption DEF TypeOK, Goto, Positions, Serving, CreateRecord
  <2>4. CASE pc'[p] # "fill"
    BY <1>5, <2>4, RuntimeOwnerAssumption DEF TypeOK, RecordsOK, Goto, Positions, Serving, CreateRecord
  <2>5. CASE pc'[p] = "fill"
    <3>1. /\ dir \in Dirs /\ rec[dir].text = "none" /\ rec'[dir].text = "torn"
          /\ handle' = [handle EXCEPT ![p] = dir] /\ pc' = [pc EXCEPT ![p] = "fill"]
      BY <1>5, <2>5 DEF TypeOK, Goto, Positions, Serving, CreateRecord, Records
    <3>2. \A q \in Shims : pc[q] = "fill" => handle[q] # dir
      BY <3>1 DEF RecordsOK
    <3> QED
      BY <2>1, <2>2, <2>3, <3>1, <3>2 DEF RecordsOK, TypeOK
  <2> QED
    BY <2>3, <2>4, <2>5 DEF IInv
<1>6. ASSUME FillRecord(p)
     PROVE  IInv'
  <2>1. TypeOK'
    BY <1>6, RuntimeOwnerAssumption
    DEF TypeOK, Goto, Positions, Serving, Records, FillRecord
  <2>2. RecordsOK'
    BY <1>6, RuntimeOwnerAssumption
    DEF TypeOK, RecordsOK, Goto, Positions, Serving, Records, FillRecord
  <2> QED
    BY <2>1, <2>2 DEF IInv
<1>7. ASSUME RemoveDir(p)
     PROVE  IInv'
  <2>1. TypeOK'
    BY <1>7, RuntimeOwnerAssumption
    DEF TypeOK, Goto, Positions, Serving, RemoveDir
  <2>2. RecordsOK'
    BY <1>7
    DEF TypeOK, RecordsOK, Goto, Positions, Serving, RemoveDir
  <2> QED
    BY <2>1, <2>2 DEF IInv
<1>8. ASSUME ReadRecord(p)
     PROVE  IInv'
  <2>1. TypeOK'
    BY <1>8, RuntimeOwnerAssumption
    DEF TypeOK, Goto, Positions, Serving, ReadRecord, Stale, Alive
  <2>2. RecordsOK'
    BY <1>8
    DEF TypeOK, RecordsOK, Goto, Positions, Serving, ReadRecord, Stale, Alive
  <2> QED
    BY <2>1, <2>2 DEF IInv
<1>9. ASSUME MoveAside(p)
     PROVE  IInv'
  <2>1. TypeOK'
    BY <1>9, RuntimeOwnerAssumption
    DEF TypeOK, Goto, Positions, Serving, MoveAside
  <2>2. RecordsOK'
    BY <1>9
    DEF TypeOK, RecordsOK, Goto, Positions, Serving, MoveAside
  <2> QED
    BY <2>1, <2>2 DEF IInv
<1>10. ASSUME TryAgain(p)
     PROVE  IInv'
  <2>1. TypeOK'
    BY <1>10, RuntimeOwnerAssumption
    DEF TypeOK, Goto, Positions, Serving, TryAgain
  <2>2. RecordsOK'
    BY <1>10
    DEF TypeOK, RecordsOK, Goto, Positions, Serving, TryAgain
  <2> QED
    BY <2>1, <2>2 DEF IInv
<1>11. ASSUME GiveUp(p)
     PROVE  IInv'
  <2>1. TypeOK'
    BY <1>11, RuntimeOwnerAssumption
    DEF TypeOK, Goto, Positions, Serving, GiveUp
  <2>2. RecordsOK'
    BY <1>11
    DEF TypeOK, RecordsOK, Goto, Positions, Serving, GiveUp
  <2> QED
    BY <2>1, <2>2 DEF IInv
<1>12. ASSUME Launch(p)
     PROVE  IInv'
  <2>1. TypeOK'
    BY <1>12, RuntimeOwnerAssumption
    DEF TypeOK, Goto, Positions, Serving, Launch
  <2>2. RecordsOK'
    BY <1>12
    DEF TypeOK, RecordsOK, Goto, Positions, Serving, Launch
  <2> QED
    BY <2>1, <2>2 DEF IInv
<1>13. ASSUME RenewBegin(p)
     PROVE  IInv'
  <2>1. rec' \in [Dirs -> Records] /\ \A d \in Dirs : rec'[d].owner = rec[d].owner
    <3>1. \/ rec' = rec
          \/ dir \in Dirs /\ rec' = [rec EXCEPT ![dir].text = "torn"]
      <4>1. dir \in Dirs \cup {NoDir}
        BY DEF TypeOK
      <4> QED
        BY <1>13, <4>1 DEF RenewBegin, HoldsPath
    <3>2. rec \in [Dirs -> Records]
      BY DEF TypeOK
    <3>3. CASE rec' = rec
      BY <3>2, <3>3
    <3>4. CASE dir \in Dirs /\ rec' = [rec EXCEPT ![dir].text = "torn"]
      BY <3>2, <3>4, RecordField
    <3> QED
      BY <3>1, <3>3, <3>4
  <2>2. \A d \in Dirs : rec'[d] # rec[d] => rec'[d].text = "torn" /\ rec[d].text = "whole"
    BY <1>13 DEF TypeOK, RenewBegin, HoldsPath, Records
  <2>3. TypeOK'
    BY <1>13, <2>1, RuntimeOwnerAssumption
    DEF TypeOK, Goto, Positions, Serving, RenewBegin, HoldsPath, RenewalFails
  <2>4. \A q \in Shims : handle'[q] # handle[q] =>
          q = p /\ handle'[p] \in Dirs /\ rec[handle'[p]].owner = p
    BY <1>13 DEF TypeOK, RenewBegin, HoldsPath
  <2>5. pc[p] # "fill" /\ pc'[p] # "fill" /\ \A q \in Shims : q # p => pc'[q] = pc[q]
    BY <1>13 DEF TypeOK, RenewBegin, RenewalFails, Goto, Serving
  <2>6. RecordsOK'
    BY <2>1, <2>2, <2>3, <2>4, <2>5, RuntimeOwnerAssumption DEF RecordsOK, TypeOK
  <2> QED
    BY <2>3, <2>6 DEF IInv
<1>14. ASSUME RenewEnd(p)
     PROVE  IInv'
  <2>1. TypeOK'
    BY <1>14, RuntimeOwnerAssumption
    DEF TypeOK, Goto, Positions, Serving, Records, RenewEnd
  <2>2. RecordsOK'
    BY <1>14, RuntimeOwnerAssumption
    DEF TypeOK, RecordsOK, Goto, Positions, Serving, Records, RenewEnd
  <2> QED
    BY <2>1, <2>2 DEF IInv
<1>15. ASSUME Shutdown(p)
     PROVE  IInv'
  <2>1. TypeOK'
    BY <1>15, RuntimeOwnerAssumption
    DEF TypeOK, Goto, Positions, Serving, Shutdown
  <2>2. RecordsOK'
    BY <1>15
    DEF TypeOK, RecordsOK, Goto, Positions, Serving, Shutdown
  <2> QED
    BY <2>1, <2>2 DEF IInv
<1>16. ASSUME ChildExits(p)
     PROVE  IInv'
  <2>1. TypeOK'
    BY <1>16, RuntimeOwnerAssumption
    DEF TypeOK, Goto, Positions, Serving, ChildExits, HoldsPath
  <2>2. RecordsOK'
    BY <1>16
    DEF TypeOK, RecordsOK, Goto, Positions, Serving, ChildExits, HoldsPath
  <2> QED
    BY <2>1, <2>2 DEF IInv
<1>17. ASSUME Release(p)
     PROVE  IInv'
  <2>1. TypeOK'
    BY <1>17, RuntimeOwnerAssumption
    DEF TypeOK, Goto, Positions, Serving, Release
  <2>2. RecordsOK'
    BY <1>17
    DEF TypeOK, RecordsOK, Goto, Positions, Serving, Release
  <2> QED
    BY <2>1, <2>2 DEF IInv
<1>18. ASSUME Crash(p)
     PROVE  IInv'
  <2>1. TypeOK'
    BY <1>18, RuntimeOwnerAssumption
    DEF TypeOK, Goto, Positions, Serving, Crash
  <2>2. RecordsOK'
    BY <1>18
    DEF TypeOK, RecordsOK, Goto, Positions, Serving, Crash
  <2> QED
    BY <2>1, <2>2 DEF IInv
<1> QED
  BY <1>1, <1>2, <1>3, <1>4, <1>5, <1>6, <1>7, <1>8, <1>9, <1>10, <1>11, <1>12, <1>13,
     <1>14, <1>15, <1>16, <1>17, <1>18
  DEF ShimStep

(* The passing of time keeps them.                                          *)
LEMMA TimeKeepsRecords ==
  ASSUME IInv, NEW d \in Dirs, RecordExpires(d) \/ RenewalLate(d) \/ DirAges(d)
  PROVE  IInv'
<1> USE DEF IInv
<1>1. ASSUME RecordExpires(d)
     PROVE  IInv'
  <2>1. /\ rec' \in [Dirs -> Records]
        /\ \A e \in Dirs : rec'[e].owner = rec[e].owner /\ rec'[e].text = rec[e].text
    <3>1. rec' = [rec EXCEPT ![d].expired = TRUE] /\ rec \in [Dirs -> Records]
      BY <1>1 DEF TypeOK, RecordExpires, Expire
    <3> QED
      BY <3>1, RecordField
  <2>2. TypeOK'
    BY <1>1, <2>1 DEF TypeOK, RecordExpires
  <2>3. RecordsOK'
    BY <1>1, <2>1 DEF TypeOK, RecordsOK, RecordExpires
  <2> QED
    BY <2>2, <2>3 DEF IInv
<1>2. ASSUME RenewalLate(d)
     PROVE  IInv'
  <2>1. /\ rec' \in [Dirs -> Records]
        /\ \A e \in Dirs : rec'[e].owner = rec[e].owner /\ rec'[e].text = rec[e].text
    <3>1. rec' = [rec EXCEPT ![d].expired = TRUE] /\ rec \in [Dirs -> Records]
      BY <1>2 DEF TypeOK, RenewalLate, Expire
    <3> QED
      BY <3>1, RecordField
  <2>2. TypeOK'
    BY <1>2, <2>1 DEF TypeOK, RenewalLate
  <2>3. RecordsOK'
    BY <1>2, <2>1 DEF TypeOK, RecordsOK, RenewalLate
  <2> QED
    BY <2>2, <2>3 DEF IInv
<1>3. ASSUME DirAges(d)
     PROVE  IInv'
  <2>1. TypeOK'
    BY <1>3, RuntimeOwnerAssumption
    DEF TypeOK, Goto, Positions, Serving, DirAges
  <2>2. RecordsOK'
    BY <1>3
    DEF TypeOK, RecordsOK, Goto, Positions, Serving, DirAges
  <2> QED
    BY <2>1, <2>2 DEF IInv
<1> QED
  BY <1>1, <1>2, <1>3

-----------------------------------------------------------------------------
(* The invariant holds of every state of the election.                        *)
LEMMA InvariantHolds == Spec => []IInv
<1>1. IInv /\ [Next]_vars => IInv'
  <2> SUFFICES ASSUME IInv, [Next]_vars
               PROVE  IInv'
    OBVIOUS
  <2>1. CASE UNCHANGED vars
    BY <2>1 DEF vars, IInv, TypeOK, RecordsOK
  <2>2. CASE Next
    BY <2>2, ShimKeepsRecords, TimeKeepsRecords DEF Next
  <2> QED
    BY <2>1, <2>2
<1> QED
  BY <1>1, InitKeepsRecords, PTL DEF Spec

(* Every variable of the election always has its type, and exactly the      *)
(* clients have a connection.                                               *)
THEOREM TypeCorrect == Spec => []TypeOK
<1>1. IInv => TypeOK
  BY DEF IInv
<1> QED
  BY <1>1, InvariantHolds, PTL

-----------------------------------------------------------------------------
(* Only a record that is being created gets an owner, and only a renewal of *)
(* its owner writes into any other.                                         *)
LEMMA StepKeepsOwners ==
  ASSUME IInv, Next, NEW d \in Dirs, rec[d].owner # NoShim
  PROVE  rec'[d].owner \in {rec[d].owner, NoShim}
<1> USE DEF IInv
<1>1. ASSUME NEW p \in Shims, FillRecord(p) \/ RenewEnd(p)
      PROVE  rec'[d].owner = rec[d].owner
  BY <1>1 DEF TypeOK, RecordsOK, FillRecord, RenewEnd
<1>2. ASSUME NEW p \in Shims, MakeDir(p)
      PROVE  rec'[d] \in {rec[d], NoRecord}
  BY <1>2 DEF TypeOK, MakeDir
<1>3. ASSUME NEW p \in Shims, CreateRecord(p) \/ RenewBegin(p)
      PROVE  rec'[d].owner = rec[d].owner
  BY <1>3 DEF TypeOK, CreateRecord, RenewBegin, HoldsPath, Records
<1>4. ASSUME NEW e \in Dirs, RecordExpires(e) \/ RenewalLate(e) \/ DirAges(e)
      PROVE  rec'[d].owner = rec[d].owner
  BY <1>4 DEF TypeOK, RecordExpires, RenewalLate, DirAges, Expire, Records
<1>5. ASSUME NEW p \in Shims,
             \/ Start(p) \/ Look(p) \/ Disconnected(p) \/ RemoveDir(p) \/ ReadRecord(p)
             \/ MoveAside(p) \/ TryAgain(p) \/ GiveUp(p) \/ Launch(p) \/ Shutdown(p)
             \/ ChildExits(p) \/ Release(p) \/ Crash(p)
      PROVE  rec' = rec
  BY <1>5 DEF Start, Look, Disconnected, RemoveDir, ReadRecord, MoveAside, TryAgain,
              GiveUp, Launch, Shutdown, ChildExits, Release, Crash
<1> QED
  BY <1>1, <1>2, <1>3, <1>4, <1>5 DEF Next, ShimStep, NoRecord

(* No shim ever writes into the record of another: the lease of an owner is *)
(* neither taken over nor prolonged by anybody else, in whatever order the  *)
(* shims make, move and remove directories.                                 *)
THEOREM RecordsKeepTheirOwner == Spec => RecordKeepsOwner
<1>1. IInv /\ [Next]_vars =>
        [\A d \in Dirs : rec[d].owner # NoShim =>
           rec'[d].owner \in {rec[d].owner, NoShim}]_vars
  BY StepKeepsOwners
<1> QED
  BY <1>1, InvariantHolds, PTL DEF Spec, RecordKeepsOwner

-----------------------------------------------------------------------------
(* What a window may have heard of a call, and the calls there are.          *)
Outcomes == {"no", "answer", "refused", "uncertain"}
Calls == {c \in [by : Windows, n : Nat] : c.n \in DOMAIN plan[c.by]}
Modes == {"owner", "client", "client-reconnecting", "owner-recovering", "gone"}
Lines == {l \in [n : Nat, of : Calls, says : {"answer", "refused"}] : l.of.n = l.n}

WindowsTyped ==
  /\ plan \in [Windows -> CallPlans] /\ asked \in [Windows -> Nat]
  /\ \A w \in Windows : asked[w] <= Len(plan[w])
  /\ DOMAIN heard = Windows
  /\ \A w \in Windows : heard[w] \in [DOMAIN plan[w] -> Outcomes]
  /\ ownerMode \in [Windows -> Modes]
  /\ clientPending \in [Windows -> SUBSET Nat]
  /\ clientInput \in [Windows -> Seq(Nat)] /\ toHub \in [Windows -> Seq(Nat)]
  /\ hasInitialized \in [Windows -> BOOLEAN]
  /\ fromHub \in [Windows -> Seq(Lines)]
HubTyped ==
  /\ hub \in Windows \cup {NoWindow} /\ attached \subseteq Windows
  /\ waiting \subseteq Calls /\ given \subseteq Calls /\ repeated \subseteq Calls
  /\ handshake \in BOOLEAN /\ initializeForwarded \in BOOLEAN
  /\ promotion \in {"none", "asked", "answered", "done"}
  /\ initializes \in Nat

(* Who runs for what, and what a shim has that does not run for owner.       *)
ModesFit ==
  /\ \A w \in Windows : ownerMode[w] \in {"owner", "owner-recovering"} <=> w = hub
  /\ hub # NoWindow => (promotion = "none" <=> ownerMode[hub] = "owner")
  /\ \A w \in attached : ownerMode[w] \in {"client", "gone"} /\ clientInput[w] = <<>>
  /\ \A w \in Windows : ownerMode[w] \in {"owner", "owner-recovering", "client-reconnecting"} =>
       toHub[w] = <<>> /\ fromHub[w] = <<>> /\ clientPending[w] = {}
  /\ \A w \in Windows : ownerMode[w] \in {"client", "owner"} => clientInput[w] = <<>>
  /\ hub = NoWindow => promotion = "none" /\ attached = {} /\ atChild = {} /\ waiting = {} /\ routes = {}

(* What the owner and its app-server know is of windows that are with them.    *)
OwnersCall(c) == c.by = hub /\ ownerMode[c.by] = "owner"
HubFits ==
  /\ \A c \in waiting : OwnersCall(c) \/ c.by \in attached
  /\ \A r \in atChild : r.id # PromotionId =>
       /\ r.call \in Calls /\ r.id = InternalId(r.call)
       /\ OwnersCall(r.call) \/ r.call.by \in attached \/ ownerMode[r.call.by] = "gone"
  /\ \A r, s \in atChild : r.id = s.id => r = s
  /\ \A r \in atChild : r.id = PromotionId => promotion = "asked"
  /\ \A t \in routes : t.to \in attached /\ t.id = <<t.to, t.n>>

(* Nothing is twice in a queue.                                               *)
Distinct(s) == \A i, j \in DOMAIN s : s[i] = s[j] => i = j
QueuesFit ==
  \A w \in Windows :
    /\ Distinct(clientInput[w]) /\ Distinct(toHub[w]) /\ Distinct(fromHub[w])
    /\ ToSet(clientInput[w]) \cup ToSet(toHub[w]) \cup clientPending[w] \subseteq DOMAIN plan[w]
    /\ \A l \in ToSet(fromHub[w]) : l.of.by = w
    /\ \A k, l \in ToSet(fromHub[w]) : k.of = l.of => k = l

(* The places in which a call is before it is answered.                       *)
InInput(c) == c.n \in ToSet(clientInput[c.by])
OnWayIn(c) == c.n \in ToSet(toHub[c.by])
AtChild(c) == \E r \in atChild : r.id # PromotionId /\ r.call = c
OnWayBack(c) == \E l \in ToSet(fromHub[c.by]) : l.of = c
Placed(c) == InInput(c) \/ OnWayIn(c) \/ c \in waiting \/ AtChild(c) \/ OnWayBack(c)

(* A call is in one of them; it is asked then and not answered; and what has  *)
(* been given to an app-server is not on the way to one.                      *)
Apart(c) ==
  /\ OnWayIn(c) => c \notin waiting /\ ~AtChild(c) /\ ~OnWayBack(c)
  /\ c \in waiting => ~AtChild(c) /\ ~OnWayBack(c)
  /\ AtChild(c) => ~OnWayBack(c)
Unanswered(c) ==
  /\ heard[c.by][c.n] # "no" => c.n <= asked[c.by]
  /\ Placed(c) \/ c.n \in clientPending[c.by] => c.n <= asked[c.by] /\ heard[c.by][c.n] = "no"
GivenOnce(c) == c \in given => Kind(c) # "read" /\ c.n <= asked[c.by] /\ ~InInput(c) /\ ~OnWayIn(c)
Fine(c) == Apart(c) /\ Unanswered(c) /\ GivenOnce(c)
CallsFine == repeated = {} /\ \A c \in Calls : Fine(c)

(* A window makes initialize again when all it has asked has failed.           *)
InitializedOnce ==
  /\ initializes <= 1 /\ (initializes > 0 => initializeForwarded)
  /\ \A w \in Windows : \A m \in DOMAIN plan[w] : m <= asked[w] /\ plan[w][m] = "initialize" =>
       \A n \in 1..(m - 1) : heard[w][n] \in {"uncertain", "refused"}

CallsInv ==
  /\ WindowsTyped /\ HubTyped /\ ModesFit /\ HubFits /\ QueuesFit /\ CallsFine /\ InitializedOnce

-----------------------------------------------------------------------------
(* Sequences.                                                               *)
LEMMA SeqTail ==
  ASSUME NEW S, NEW s \in Seq(S), s # <<>>
  PROVE  /\ Head(s) \in ToSet(s) /\ Head(s) \in S /\ Tail(s) \in Seq(S)
         /\ ToSet(Tail(s)) \subseteq ToSet(s)
         /\ Distinct(s) => Distinct(Tail(s)) /\ Head(s) \notin ToSet(Tail(s))
<1>1. /\ Len(s) \in Nat \ {0} /\ Head(s) = s[1] /\ Tail(s) \in Seq(S) /\ DOMAIN s = 1..Len(s)
      /\ Len(Tail(s)) = Len(s) - 1 /\ DOMAIN Tail(s) = 1..(Len(s) - 1)
      /\ \A i \in 1..(Len(s) - 1) : Tail(s)[i] = s[i + 1] /\ i + 1 \in 1..Len(s)
  OBVIOUS
<1>2. 1 \in DOMAIN s /\ s[1] \in S
  BY <1>1
<1> QED
  BY <1>1, <1>2 DEF ToSet, Distinct

(* What a sequence joined with another holds.                               *)
LEMMA SeqJoin ==
  ASSUME NEW S, NEW s \in Seq(S), NEW t \in Seq(S)
  PROVE  /\ s \o t \in Seq(S) /\ ToSet(s \o t) = ToSet(s) \cup ToSet(t)
         /\ Distinct(s) /\ Distinct(t) /\ ToSet(s) \cap ToSet(t) = {} => Distinct(s \o t)
<1> DEFINE q == s \o t
<1>1. /\ q \in Seq(S) /\ Len(s) \in Nat /\ Len(t) \in Nat
      /\ DOMAIN s = 1..Len(s) /\ DOMAIN t = 1..Len(t) /\ DOMAIN q = 1..(Len(s) + Len(t))
      /\ \A i \in 1..Len(s) : i \in 1..(Len(s) + Len(t)) /\ q[i] = s[i]
      /\ \A i \in 1..Len(t) :
           i + Len(s) \in 1..(Len(s) + Len(t)) /\ q[i + Len(s)] = t[i]
  OBVIOUS
<1>2. \A i \in 1..(Len(s) + Len(t)) :
        \/ i \in 1..Len(s) /\ q[i] = s[i]
        \/ i - Len(s) \in 1..Len(t) /\ q[i] = t[i - Len(s)]
  BY <1>1
<1> HIDE DEF q
<1>3. ToSet(q) = ToSet(s) \cup ToSet(t)
  <2>1. ASSUME NEW x \in ToSet(q) PROVE x \in ToSet(s) \cup ToSet(t)
    <3>1. PICK i \in 1..(Len(s) + Len(t)) : x = q[i]
      BY <1>1, <2>1 DEF ToSet
    <3> QED
      BY <1>1, <1>2, <3>1 DEF ToSet
  <2>2. ASSUME NEW x \in ToSet(s) PROVE x \in ToSet(q)
    BY <1>1, <2>2 DEF ToSet
  <2>3. ASSUME NEW x \in ToSet(t) PROVE x \in ToSet(q)
    <3>1. PICK i \in 1..Len(t) : x = t[i]
      BY <1>1, <2>3 DEF ToSet
    <3>2. i + Len(s) \in 1..(Len(s) + Len(t)) /\ q[i + Len(s)] = x
      BY <1>1, <3>1
    <3> QED
      BY <1>1, <3>2 DEF ToSet
  <2> QED
    BY <2>1, <2>2, <2>3
<1>4. ASSUME Distinct(s), Distinct(t), ToSet(s) \cap ToSet(t) = {}
      PROVE  Distinct(q)
  <2> SUFFICES ASSUME NEW i \in 1..(Len(s) + Len(t)), NEW j \in 1..(Len(s) + Len(t)),
                      q[i] = q[j]
               PROVE  i = j
    BY <1>1 DEF Distinct
  <2>1. \A k \in 1..Len(s), m \in 1..Len(t) : s[k] # t[m]
    BY <1>1, <1>4 DEF ToSet
  <2>2. CASE i \in 1..Len(s) /\ q[i] = s[i]
    <3>1. j \in 1..Len(s) /\ q[j] = s[j]
      BY <1>2, <2>1, <2>2
    <3> QED
      BY <1>1, <1>4, <2>2, <3>1 DEF Distinct
  <2>3. CASE i - Len(s) \in 1..Len(t) /\ q[i] = t[i - Len(s)]
    <3>1. j - Len(s) \in 1..Len(t) /\ q[j] = t[j - Len(s)]
      BY <1>2, <2>1, <2>3
    <3>2. i - Len(s) = j - Len(s)
      BY <1>1, <1>4, <2>3, <3>1 DEF Distinct
    <3> QED
      BY <3>2, <1>1
  <2> QED
    BY <1>2, <2>2, <2>3
<1> QED
  BY <1>1, <1>3, <1>4 DEF q

(* What a sequence with one more element holds.                             *)
LEMMA SeqAppend ==
  ASSUME NEW S, NEW s \in Seq(S), NEW x \in S
  PROVE  /\ Append(s, x) \in Seq(S) /\ ToSet(Append(s, x)) = ToSet(s) \cup {x}
         /\ Distinct(s) /\ x \notin ToSet(s) => Distinct(Append(s, x))
<1> DEFINE q == Append(s, x)
<1>1. /\ q \in Seq(S) /\ Len(s) \in Nat /\ DOMAIN s = 1..Len(s) /\ DOMAIN q = 1..(Len(s) + 1)
      /\ \A i \in 1..Len(s) : i \in 1..(Len(s) + 1) /\ q[i] = s[i]
      /\ q[Len(s) + 1] = x /\ Len(s) + 1 \in 1..(Len(s) + 1)
      /\ \A i \in 1..(Len(s) + 1) : i \in 1..Len(s) \/ i = Len(s) + 1
  OBVIOUS
<1> HIDE DEF q
<1>2. ToSet(q) = ToSet(s) \cup {x}
  <2>1. ASSUME NEW y \in ToSet(q) PROVE y \in ToSet(s) \cup {x}
    <3>1. PICK i \in 1..(Len(s) + 1) : y = q[i]
      BY <1>1, <2>1 DEF ToSet
    <3> QED
      BY <1>1, <3>1 DEF ToSet
  <2>2. ASSUME NEW y \in ToSet(s) PROVE y \in ToSet(q)
    BY <1>1, <2>2 DEF ToSet
  <2>3. x \in ToSet(q)
    BY <1>1 DEF ToSet
  <2> QED
    BY <2>1, <2>2, <2>3
<1>3. ASSUME Distinct(s), x \notin ToSet(s) PROVE Distinct(q)
  BY <1>1, <1>3 DEF Distinct, ToSet
<1> QED
  BY <1>1, <1>2, <1>3 DEF q

(* A finite set put in some order has its elements, each once.              *)
LEMMA SeqOfSet ==
  ASSUME NEW S, IsFiniteSet(S)
  PROVE  SetToSeq(S) \in Seq(S) /\ ToSet(SetToSeq(S)) \subseteq S /\ Distinct(SetToSeq(S))
<1>1. Cardinality(S) \in Nat /\ ExistsBijection(1..Cardinality(S), S)
  BY FS_CardinalityType
<1>2. \E f \in [1..Cardinality(S) -> S] : \A a, b \in 1..Cardinality(S) : f[a] = f[b] => a = b
  <2>1. PICK f : f \in [1..Cardinality(S) -> S] /\ IsInjective(f)
    BY <1>1 DEF ExistsBijection, Bijection, Injection
  <2> QED
    BY <2>1 DEF IsInjective
<1>3. PICK g \in [1..Cardinality(S) -> S] : \A a, b \in 1..Cardinality(S) : g[a] = g[b] => a = b
  BY <1>2
<1>4. DOMAIN g = 1..Cardinality(S)
  OBVIOUS
<1>5. IsInjective(g)
  BY <1>3, <1>4 DEF IsInjective
<1>6. SetToSeq(S) \in [1..Cardinality(S) -> S] /\ IsInjective(SetToSeq(S))
  BY <1>5 DEF SetToSeq
<1> DEFINE q == SetToSeq(S)
<1>7. q \in [1..Cardinality(S) -> S] /\ IsInjective(q)
  BY <1>6
<1> HIDE DEF q
<1>8. q \in Seq(S) /\ DOMAIN q = 1..Cardinality(S)
  BY <1>1, <1>7
<1>9. ToSet(q) \subseteq S /\ Distinct(q)
  BY <1>7, <1>8 DEF ToSet, Distinct, IsInjective
<1> QED
  BY <1>8, <1>9 DEF q

-----------------------------------------------------------------------------
(* A call that stays where it is, or is lost.                                  *)
CallKept(c) ==
  /\ InInput(c)' => InInput(c)
  /\ OnWayIn(c)' => OnWayIn(c)
  /\ c \in waiting' => c \in waiting
  /\ AtChild(c)' => AtChild(c)
  /\ OnWayBack(c)' => OnWayBack(c)
  /\ c.n \in clientPending'[c.by] => c.n \in clientPending[c.by]
  /\ heard'[c.by][c.n] = heard[c.by][c.n]
  /\ asked[c.by] <= asked'[c.by]
  /\ c \in given' => c \in given

(* A call that is kept is where it should be, as before.                    *)
LEMMA KeptFine ==
  ASSUME NEW c \in Calls, WindowsTyped, WindowsTyped', plan' = plan, Fine(c), CallKept(c)
  PROVE  Fine(c)'
<1>1. /\ c.by \in Windows /\ c.n \in Nat /\ asked[c.by] \in Nat /\ asked'[c.by] \in Nat
      /\ asked[c.by] <= asked'[c.by]
  BY DEF Calls, WindowsTyped, CallKept
<1>2. c.n <= asked[c.by] => c.n <= asked'[c.by]
  BY <1>1
<1>3. Apart(c)'
  BY DEF Fine, Apart, CallKept
<1>4. Unanswered(c)'
  BY <1>2 DEF Fine, Unanswered, Placed, CallKept
<1>5. GivenOnce(c)'
  BY <1>2 DEF Fine, GivenOnce, CallKept, Kind
<1> QED
  BY <1>3, <1>4, <1>5 DEF Fine

(* What a window hears, when no two lines answer one call.                      *)
LinesFit(w, lines) ==
  /\ \A l \in lines : /\ l.n \in DOMAIN plan[w] /\ heard[w][l.n] = "no" /\ l.of = Call(w, l.n)
                      /\ l.says \in Outcomes
  /\ \A k, l \in lines : k.n = l.n => k = l

(* Such lines answer their calls, and leave what the others have heard.     *)
LEMMA HeardFit ==
  ASSUME WindowsTyped, NEW w \in Windows, NEW lines, LinesFit(w, lines)
  PROVE  /\ Heard(w, lines) \in [DOMAIN plan[w] -> Outcomes]
         /\ \A n \in DOMAIN plan[w] :
              (\A l \in lines : l.n # n) \/ heard[w][n] # "no" => Heard(w, lines)[n] = heard[w][n]
<1> DEFINE h == Heard(w, lines)
           Now(n) == {l \in lines : l.n = n}
<1>1. DOMAIN heard[w] = DOMAIN plan[w] /\ \A n \in DOMAIN plan[w] : heard[w][n] \in Outcomes
  BY DEF WindowsTyped
<1>2. DOMAIN h = DOMAIN plan[w]
  BY <1>1 DEF Heard
<1>3. ASSUME NEW n \in DOMAIN plan[w]
      PROVE  /\ h[n] \in Outcomes
             /\ Now(n) = {} => h[n] = heard[w][n]
  <2>1. CASE Now(n) = {}
    BY <1>1, <2>1 DEF Heard
  <2>2. CASE Now(n) # {}
    <3>1. PICK l \in lines : l.n = n
      BY <2>2
    <3>2. Now(n) = {l}
      BY <3>1 DEF LinesFit
    <3>3. Cardinality(Now(n)) = 1
      BY <3>2, FS_Singleton
    <3>4. ~(Cardinality(Now(n)) > 1)
      BY <3>3
    <3>5. (CHOOSE k \in Now(n) : TRUE) = l
      BY <3>2
    <3>6. heard[w][n] = "no" /\ l.of = Call(w, n) /\ l.says \in Outcomes
      BY <3>1 DEF LinesFit
    <3>7. h[n] = l.says
      BY <1>1, <2>2, <3>4, <3>5, <3>6 DEF Heard
    <3> QED
      BY <2>2, <3>6, <3>7
  <2> QED
    BY <2>1, <2>2
<1>4. h \in [DOMAIN plan[w] -> Outcomes]
  <2>1. h = [n \in DOMAIN heard[w] |-> h[n]]
    BY DEF Heard
  <2> QED
    BY <1>1, <1>3, <2>1
<1>5. ASSUME NEW n \in DOMAIN plan[w], (\A l \in lines : l.n # n) \/ heard[w][n] # "no"
      PROVE  h[n] = heard[w][n]
  <2>1. Now(n) = {}
    BY <1>5 DEF LinesFit
  <2> QED
    BY <1>3, <2>1
<1> QED
  BY <1>4, <1>5

(* Ids tell calls apart, and from the one of a promoted shim.                   *)
LEMMA IdsApart ==
  ASSUME NEW c \in Calls, NEW d \in Calls
  PROVE  /\ InternalId(c) = InternalId(d) => c = d
         /\ InternalId(c) # PromotionId
         /\ \A n : InternalId(c) = <<n>> => c.by = hub /\ n = c.n
         /\ \A v, n : InternalId(c) = <<v, n>> => c.by = v /\ n = c.n /\ c.by # hub
<1>1. c \in [by : Windows, n : Nat] /\ d \in [by : Windows, n : Nat]
  BY DEF Calls
<1>2. c = d <=> c.by = d.by /\ c.n = d.n
  BY <1>1
<1>3. \A x, y, z, u : <<x>> # <<y, z>> /\ (<<x>> = <<y>> => x = y) /\ (<<x, y>> = <<z, u>> => x = z /\ y = u)
  <2>1. \A x, y, z : <<x>> # <<y, z>>
    <3> SUFFICES ASSUME NEW x, NEW y, NEW z, <<x>> = <<y, z>> PROVE FALSE
      OBVIOUS
    <3>1. Len(<<x>>) = 1 /\ Len(<<y, z>>) = 2
      OBVIOUS
    <3> QED
      BY <3>1
  <2> QED
    BY <2>1
<1>4. c.by # NoWindow
  BY <1>1, AttachedCallsAssumption
<1> QED
  BY <1>2, <1>3, <1>4 DEF InternalId, PromotionId
-----------------------------------------------------------------------------
(* Lines to attached windows, when none answers a call that is answered already. *)
BackFit(lines) ==
  \A v \in attached :
    /\ IsFiniteSet(lines[v]) /\ lines[v] \subseteq Lines
    /\ \A l \in lines[v] : l.of.by = v /\ ~OnWayBack(l.of)
    /\ \A k, l \in lines[v] : k.of = l.of => k = l

(* Such lines reach the queues of the attached windows and no other.        *)
LEMMA AttachedHear ==
  ASSUME WindowsTyped, HubTyped, QueuesFit, NEW lines, BackFit(lines), ToAttached(lines), plan' = plan
  PROVE  /\ fromHub' \in [Windows -> Seq(Lines)]
         /\ \A v \in Windows \ attached : fromHub'[v] = fromHub[v]
         /\ \A v \in Windows :
              /\ Distinct(fromHub'[v])
              /\ \A l \in ToSet(fromHub'[v]) : l.of.by = v
              /\ \A k, l \in ToSet(fromHub'[v]) : k.of = l.of => k = l
         /\ \A c \in Calls : OnWayBack(c)' =>
              OnWayBack(c) \/ (c.by \in attached /\ \E l \in lines[c.by] : l.of = c)
<1>1. fromHub \in [Windows -> Seq(Lines)] /\ attached \subseteq Windows
  BY DEF WindowsTyped, HubTyped
<1>2. /\ DOMAIN fromHub' = Windows
      /\ \A v \in attached : fromHub'[v] = fromHub[v] \o SetToSeq(lines[v])
      /\ \A v \in Windows \ attached : fromHub'[v] = fromHub[v]
  BY <1>1 DEF ToAttached
<1>3. \A v \in Windows :
        /\ Distinct(fromHub[v])
        /\ \A l \in ToSet(fromHub[v]) : l.of.by = v
        /\ \A k, l \in ToSet(fromHub[v]) : k.of = l.of => k = l
  BY DEF QueuesFit
<1>4. ASSUME NEW v \in attached
      PROVE  /\ fromHub'[v] \in Seq(Lines) /\ Distinct(fromHub'[v])
             /\ \A l \in ToSet(fromHub'[v]) : l.of.by = v
             /\ \A k, l \in ToSet(fromHub'[v]) : k.of = l.of => k = l
             /\ ToSet(fromHub'[v]) \subseteq ToSet(fromHub[v]) \cup lines[v]
  <2>1. PICK q : q = SetToSeq(lines[v])
    OBVIOUS
  <2>2. q \in Seq(lines[v]) /\ ToSet(q) \subseteq lines[v] /\ Distinct(q)
    BY <2>1, SeqOfSet DEF BackFit
  <2>3. lines[v] \subseteq Lines
    BY DEF BackFit
  <2>4. q \in Seq(Lines)
    BY <2>2, <2>3
  <2>5. PICK f : f = fromHub[v]
    OBVIOUS
  <2>6. f \in Seq(Lines)
    BY <1>1, <2>5
  <2>7. \A k \in ToSet(f), l \in lines[v] : k.of # l.of
    BY <2>5 DEF BackFit, OnWayBack
  <2>8. ToSet(f) \cap ToSet(q) = {}
    BY <2>2, <2>7
  <2>9. /\ f \o q \in Seq(Lines) /\ ToSet(f \o q) = ToSet(f) \cup ToSet(q)
        /\ Distinct(f) /\ Distinct(q) /\ ToSet(f) \cap ToSet(q) = {} => Distinct(f \o q)
    BY <2>4, <2>6, SeqJoin
  <2>10. fromHub'[v] = f \o q
    BY <1>2, <2>1, <2>5
  <2>11. /\ Distinct(f) /\ \A l \in ToSet(f) : l.of.by = v
         /\ \A k, l \in ToSet(f) : k.of = l.of => k = l
    BY <1>1, <1>3, <2>5
  <2>12. /\ \A l \in lines[v] : l.of.by = v
         /\ \A k, l \in lines[v] : k.of = l.of => k = l
    BY DEF BackFit
  <2> QED
    BY <2>2, <2>5, <2>7, <2>8, <2>9, <2>10, <2>11, <2>12
<1>5. fromHub' \in [Windows -> Seq(Lines)]
  <2>1. \A v \in Windows : fromHub'[v] \in Seq(Lines)
    BY <1>1, <1>2, <1>4
  <2>2. fromHub' = [v \in Windows |-> fromHub'[v]]
    BY DEF ToAttached
  <2> QED
    BY <2>1, <2>2
<1>6. ASSUME NEW c \in Calls, OnWayBack(c)'
      PROVE  OnWayBack(c) \/ (c.by \in attached /\ \E l \in lines[c.by] : l.of = c)
  <2>1. c.by \in Windows
    BY DEF Calls
  <2>2. PICK l \in ToSet(fromHub'[c.by]) : l.of = c
    BY <1>6 DEF OnWayBack
  <2>3. CASE c.by \in attached
    BY <1>4, <2>2, <2>3 DEF OnWayBack
  <2>4. CASE c.by \notin attached
    BY <1>2, <2>1, <2>2, <2>4 DEF OnWayBack
  <2> QED
    BY <2>3, <2>4
<1> QED
  BY <1>2, <1>3, <1>4, <1>5, <1>6

(* Calls that go to the app-server, none of which is there or has been.          *)
AtHubFits(r) ==
  r.id # PromotionId =>
    /\ r.call \in Calls /\ r.id = InternalId(r.call)
    /\ OwnersCall(r.call) \/ r.call.by \in attached \/ ownerMode[r.call.by] = "gone"

(* Then nothing is given twice, and ids at the app-server stay apart.       *)
LEMMA ForwardFit ==
  ASSUME WindowsTyped, HubTyped, HubFits, CallsFine, plan' = plan, hub' = hub,
         NEW calls, calls \subseteq Calls, Forward(calls),
         \A c \in calls : c \notin given /\ ~AtChild(c)
  PROVE  /\ repeated' = {} /\ given' \subseteq Calls
         /\ \A c \in Calls : AtChild(c)' <=> AtChild(c) \/ c \in calls
         /\ \A c \in given' : c \notin given => c \in calls /\ Kind(c) # "read"
         /\ \A r, s \in atChild' : r.id = s.id => r = s
         /\ \A r \in atChild' : r \in atChild \/ (r.call \in calls /\ r.id = InternalId(r.call))
<1> DEFINE Entry(c) == [id |-> InternalId(c), call |-> c, retried |-> FALSE]
<1>1. atChild' = atChild \cup {Entry(c) : c \in calls}
  BY DEF Forward
<1>2. repeated' = {} /\ given' \subseteq Calls
  BY DEF Forward, HubTyped, CallsFine
<1>3. \A c \in Calls : Entry(c).id # PromotionId /\ Entry(c).call = c /\ Entry(c).id = InternalId(c)
  BY IdsApart
<1> HIDE DEF Entry
<1>4. \A c \in Calls : AtChild(c)' <=> AtChild(c) \/ c \in calls
  BY <1>1, <1>3 DEF AtChild, PromotionId
<1>5. \A c \in given' : c \notin given => c \in calls /\ Kind(c) # "read"
  BY DEF Forward
<1>6. ASSUME NEW r \in atChild, NEW c \in calls
      PROVE  r.id # Entry(c).id
  <2>1. CASE r.id = PromotionId
    BY <1>3, <2>1
  <2>2. CASE r.id # PromotionId
    <3>1. r.call \in Calls /\ r.id = InternalId(r.call)
      BY <2>2 DEF HubFits
    <3>2. r.call # c
      BY <2>2 DEF AtChild
    <3> QED
      BY <1>3, <3>1, <3>2, IdsApart
  <2> QED
    BY <2>1, <2>2
<1>7. ASSUME NEW c \in calls, NEW d \in calls, Entry(c).id = Entry(d).id
      PROVE  Entry(c) = Entry(d)
  BY <1>3, <1>7, IdsApart
<1>8. \A r, s \in atChild' : r.id = s.id => r = s
  <2>1. \A r, s \in atChild : r.id = s.id => r = s
    BY DEF HubFits
  <2> QED
    BY <1>1, <1>6, <1>7, <2>1
<1>9. \A r \in atChild' : r \in atChild \/ (r.call \in calls /\ r.id = InternalId(r.call))
  BY <1>1, <1>3
<1> QED
  BY <1>2, <1>4, <1>5, <1>8, <1>9
-----------------------------------------------------------------------------
(* The owner's window: calls that are in no place yet reach one, or are answered. *)
NewCalls(ns) ==
  /\ hub \in Windows /\ ns \subseteq DOMAIN plan[hub]
  /\ \A n \in ns :
       /\ heard[hub][n] = "no" /\ n <= asked'[hub] /\ n \in Nat
       /\ Call(hub, n) \notin given \cup waiting /\ ~AtChild(Call(hub, n))
  /\ \A m, n \in ns : plan[hub][m] = "initialize" /\ plan[hub][n] = "initialize" => m = n
OwnerGoesOn ==
  /\ plan' = plan /\ hub' = hub /\ attached' = attached /\ routes' = routes
  /\ ownerMode \in [Windows -> Modes] /\ ownerMode' = [ownerMode EXCEPT ![hub] = "owner"]
  /\ ownerMode[hub] # "gone" /\ promotion # "asked"
  /\ asked' \in [Windows -> Nat] /\ \A w \in Windows : asked[w] <= asked'[w] /\ asked'[w] <= Len(plan[w])
  /\ UNCHANGED <<clientPending, hasInitialized, toHub, fromHub>>
  /\ clientInput' = [clientInput EXCEPT ![hub] = <<>>]
  /\ clientPending[hub] = {} /\ toHub[hub] = <<>> /\ fromHub[hub] = <<>>

(* The owner's own calls are forwarded, wait, or are refused, once each.    *)
LEMMA OwnCallsFit ==
  ASSUME CallsInv, NEW ns, NewCalls(ns), OwnerGoesOn, OwnCalls(ns)
  PROVE  /\ WindowsTyped' /\ HubFits' /\ CallsFine'
         /\ given' \subseteq Calls /\ waiting' \subseteq Calls /\ handshake' \in BOOLEAN
         /\ initializeForwarded' \in BOOLEAN /\ initializes' \in Nat
         /\ initializes' <= 1 /\ (initializes' > 0 => initializeForwarded')
         /\ \A c \in Calls : heard[c.by][c.n] # "no" => heard'[c.by][c.n] = heard[c.by][c.n]
<1> DEFINE calls == {Call(hub, n) : n \in ns}
           inits == {c \in calls : Kind(c) = "initialize"}
           first == IF handshake \/ initializeForwarded THEN {} ELSE inits
           goes == (calls \ inits) \cup first
           said == IF handshake THEN inits ELSE {}
           lines == {AnswerTo(c) : c \in said}
<1>1. /\ WindowsTyped /\ HubTyped /\ ModesFit /\ HubFits /\ QueuesFit /\ CallsFine /\ InitializedOnce
      /\ plan' = plan /\ hub' = hub /\ attached' = attached /\ routes' = routes
  BY DEF CallsInv, OwnerGoesOn
<1>2. /\ Forward(goes)
      /\ initializeForwarded' = (initializeForwarded \/ first # {})
      /\ waiting' = waiting \cup (IF handshake THEN {} ELSE inits \ first)
      /\ ToOwnWindow(lines)
      /\ handshake' = handshake
  BY DEF OwnCalls
<1>3. /\ calls \subseteq Calls
      /\ \A c \in calls : c.by = hub /\ c.n \in ns /\ heard[hub][c.n] = "no" /\ c.n <= asked'[hub]
                          /\ c \notin given /\ c \notin waiting /\ ~AtChild(c) /\ c = Call(c.by, c.n)
      /\ \A c, d \in inits : c = d
      /\ \A c \in Calls : c.by = hub /\ c.n \in ns => c \in calls
  BY DEF NewCalls, Calls, Call, Kind
<1>4. inits \subseteq calls /\ first \subseteq inits /\ said \subseteq inits /\ goes \subseteq calls
  OBVIOUS
<1>5. \A c \in inits : Kind(c) = "initialize"
  OBVIOUS
<1>6. \A c \in calls : Kind(c) = "initialize" => c \in inits
  OBVIOUS
<1>7. /\ first \cap said = {} /\ (inits \ first) \cap goes = {} /\ goes \cap said = {}
      /\ {c \in goes : Kind(c) = "initialize"} = first
  OBVIOUS
<1>8. (first # {} => ~handshake /\ ~initializeForwarded) /\ (said # {} => handshake)
  OBVIOUS
<1>9. lines = {AnswerTo(c) : c \in said}
  OBVIOUS
<1> HIDE DEF calls, inits, first, goes, said, lines
<1>10. LinesFit(hub, lines)
  BY <1>3, <1>4, <1>9 DEF LinesFit, AnswerTo, Call, Outcomes, NewCalls
<1>11. hub \in Windows
  BY DEF NewCalls
<1>12. /\ heard' = [heard EXCEPT ![hub] = Heard(hub, lines)]
       /\ \A n \in DOMAIN plan[hub] :
            (\A l \in lines : l.n # n) \/ heard[hub][n] # "no" => Heard(hub, lines)[n] = heard[hub][n]
  BY <1>1, <1>2, <1>10, <1>11, HeardFit DEF ToOwnWindow
<1>13. \A c \in Calls : (c.by = hub => c \notin said) \/ heard[c.by][c.n] # "no" =>
         heard'[c.by][c.n] = heard[c.by][c.n]
  <2> SUFFICES ASSUME NEW c \in Calls, (c.by = hub => c \notin said) \/ heard[c.by][c.n] # "no"
               PROVE  heard'[c.by][c.n] = heard[c.by][c.n]
    OBVIOUS
  <2>1. c.by \in Windows /\ c.n \in DOMAIN plan[c.by] /\ c = Call(c.by, c.n) /\ DOMAIN heard = Windows
    BY <1>1 DEF Calls, Call, WindowsTyped
  <2>2. CASE c.by # hub
    BY <1>11, <1>12, <2>1, <2>2
  <2>3. CASE c.by = hub
    <3>1. (\A l \in lines : l.n # c.n) \/ heard[hub][c.n] # "no"
      BY <1>3, <1>4, <1>9, <2>1, <2>3 DEF AnswerTo
    <3> QED
      BY <1>12, <2>1, <2>3, <3>1
  <2> QED
    BY <2>2, <2>3
<1>14. /\ repeated' = {} /\ given' \subseteq Calls
       /\ \A c \in Calls : AtChild(c)' <=> AtChild(c) \/ c \in goes
       /\ \A c \in given' : c \notin given => c \in goes /\ Kind(c) # "read"
       /\ \A r, s \in atChild' : r.id = s.id => r = s
       /\ \A r \in atChild' : r \in atChild \/ (r.call \in goes /\ r.id = InternalId(r.call))
  BY <1>1, <1>2, <1>3, <1>4, ForwardFit
<1>15. initializes' = initializes + Cardinality(first)
  BY <1>2, <1>7 DEF Forward
<1>16. /\ initializes' \in Nat /\ initializes' <= 1 /\ (initializes' > 0 => initializeForwarded')
       /\ initializeForwarded' \in BOOLEAN /\ handshake' \in BOOLEAN
  <2>1. initializes \in Nat /\ initializes <= 1 /\ (initializes > 0 => initializeForwarded)
        /\ initializeForwarded \in BOOLEAN /\ handshake \in BOOLEAN
    BY <1>1 DEF HubTyped, InitializedOnce
  <2>2. CASE first = {}
    <3>1. Cardinality(first) = 0
      BY <2>2, FS_EmptySet
    <3> QED
      BY <1>2, <1>15, <2>1, <2>2, <3>1
  <2>3. CASE first # {}
    <3>1. PICK c \in first : TRUE
      BY <2>3
    <3>2. first = {c}
      BY <1>3, <1>4, <3>1
    <3>3. Cardinality(first) = 1
      BY <3>2, FS_Singleton
    <3>4. initializes = 0
      BY <1>8, <2>1, <2>3
    <3>5. initializes' = 1
      BY <1>15, <3>3, <3>4
    <3>6. initializeForwarded' = TRUE
      BY <1>2, <2>3
    <3> QED
      BY <1>2, <2>1, <3>5, <3>6
  <2> QED
    BY <2>2, <2>3
<1>17. waiting' \subseteq Calls
  BY <1>1, <1>2, <1>3, <1>4 DEF HubTyped
<1>18. /\ ownerMode'[hub] = "owner" /\ \A w \in Windows : w # hub => ownerMode'[w] = ownerMode[w]
       /\ ownerMode[hub] # "gone"
  BY <1>11 DEF OwnerGoesOn
<1>19. HubFits'
  <2>1. \A c \in Calls : c.by = hub => OwnersCall(c)'
    BY <1>1, <1>18 DEF OwnersCall
  <2>2. \A c \in waiting' : OwnersCall(c)' \/ c.by \in attached'
    BY <1>1, <1>2, <1>3, <1>4, <2>1 DEF HubFits, HubTyped, OwnersCall
  <2>3. ASSUME NEW r \in atChild', r.id # PromotionId
        PROVE  AtHubFits(r)'
    <3>1. CASE r \in atChild
      <4>1. r.call \in Calls /\ r.id = InternalId(r.call) /\ r.call.by \in Windows
        BY <1>1, <2>3, <3>1 DEF HubFits, Calls
      <4>2. OwnersCall(r.call) \/ r.call.by \in attached \/ ownerMode[r.call.by] = "gone"
        BY <1>1, <2>3, <3>1 DEF HubFits
      <4>3. r.call \in Calls' /\ r.id = InternalId(r.call)'
        BY <1>1, <4>1 DEF InternalId, Calls
      <4>4. CASE r.call.by = hub
        BY <2>1, <4>1, <4>3, <4>4 DEF AtHubFits
      <4>5. CASE r.call.by # hub
        BY <1>1, <1>18, <4>1, <4>2, <4>3, <4>5 DEF AtHubFits, OwnersCall
      <4> QED
        BY <4>4, <4>5
    <3>2. CASE r.call \in goes /\ r.id = InternalId(r.call)
      <4>1. r.call \in Calls /\ r.call.by = hub
        BY <1>3, <1>4, <3>2
      <4>2. r.call \in Calls' /\ r.id = InternalId(r.call)'
        BY <1>1, <3>2, <4>1 DEF InternalId, Calls
      <4> QED
        BY <2>1, <4>1, <4>2 DEF AtHubFits
    <3> QED
      BY <1>14, <3>1, <3>2
  <2>4. \A t \in routes' : t.to \in attached' /\ t.id = <<t.to, t.n>>
    BY <1>1 DEF HubFits
  <2>5. \A r \in atChild' : r.id # PromotionId
    BY <1>1, <1>3, <1>4, <1>14, IdsApart DEF HubFits, OwnerGoesOn
  <2> QED
    BY <1>14, <2>2, <2>3, <2>4, <2>5 DEF HubFits, AtHubFits
<1>20. WindowsTyped'
  <2>1. \A w \in Windows : heard'[w] \in [DOMAIN plan[w] -> Outcomes]
    <3>1. Heard(hub, lines) \in [DOMAIN plan[hub] -> Outcomes]
      BY <1>1, <1>10, <1>11, HeardFit
    <3> QED
      BY <1>1, <1>12, <3>1 DEF WindowsTyped
  <2>2. DOMAIN heard' = Windows /\ ownerMode' \in [Windows -> Modes] /\ clientInput' \in [Windows -> Seq(Nat)]
    <3>1. <<>> \in Seq(Nat)
      OBVIOUS
    <3> QED
      BY <1>1, <1>12, <3>1 DEF WindowsTyped, Modes, OwnerGoesOn
  <2> QED
    BY <1>1, <2>1, <2>2 DEF WindowsTyped, OwnerGoesOn, Lines, Calls
<1>21. CallsFine'
  <2>1. Calls' = Calls
    BY <1>1 DEF Calls
  <2>2. ASSUME NEW c \in Calls
        PROVE  Fine(c)'
    <3>1. /\ c.by \in Windows /\ Fine(c) /\ c.n \in DOMAIN plan[c.by]
      BY <1>1 DEF Calls, CallsFine
    <3>2. /\ clientPending' = clientPending /\ toHub' = toHub /\ fromHub' = fromHub
          /\ clientInput' = [clientInput EXCEPT ![hub] = <<>>]
          /\ clientPending[hub] = {} /\ toHub[hub] = <<>> /\ fromHub[hub] = <<>>
          /\ asked[c.by] <= asked'[c.by] /\ clientInput \in [Windows -> Seq(Nat)]
      BY <1>1, <3>1 DEF OwnerGoesOn, WindowsTyped
    <3>3. CASE c \notin calls
      <4>1. (AtChild(c)' => AtChild(c)) /\ (c \in waiting' => c \in waiting) /\ (c \in given' => c \in given)
        BY <1>2, <1>4, <1>14, <3>3
      <4>2. heard'[c.by][c.n] = heard[c.by][c.n]
        BY <1>4, <1>13, <3>3
      <4>3. InInput(c)' => InInput(c)
        <5>1. CASE c.by = hub
          BY <1>11, <3>2, <5>1 DEF InInput, ToSet
        <5>2. CASE c.by # hub
          BY <3>1, <3>2, <5>2 DEF InInput
        <5> QED
          BY <5>1, <5>2
      <4>4. CallKept(c)
        BY <3>2, <4>1, <4>2, <4>3 DEF CallKept, OnWayIn, OnWayBack
      <4> QED
        BY <1>1, <1>20, <3>1, <4>4, KeptFine
    <3>4. CASE c \in calls
      <4>1. c.by = hub /\ heard[hub][c.n] = "no" /\ c.n <= asked'[hub] /\ c \notin given /\ c \notin waiting
            /\ ~AtChild(c)
        BY <1>3, <3>4
      <4>2. ~InInput(c)' /\ ~OnWayIn(c)' /\ ~OnWayBack(c)' /\ c.n \notin clientPending'[hub]
        BY <1>11, <3>2, <4>1 DEF InInput, OnWayIn, OnWayBack, ToSet
      <4>3. (AtChild(c)' <=> c \in goes) /\ (c \in waiting' => c \in inits \ first)
        BY <1>2, <1>14, <4>1
      <4>4. Apart(c)'
        BY <1>7, <4>2, <4>3 DEF Apart
      <4>5. Placed(c)' => heard'[c.by][c.n] = "no"
        <5>1. CASE c \in said
          <6>1. c \notin goes /\ handshake /\ c \notin waiting'
            BY <1>2, <1>7, <1>8, <4>1, <5>1
          <6> QED
            BY <4>2, <4>3, <6>1 DEF Placed
        <5>2. CASE c \notin said
          BY <1>13, <4>1, <5>2
        <5> QED
          BY <5>1, <5>2
      <4>6. Unanswered(c)'
        BY <1>1, <4>1, <4>2, <4>5 DEF Unanswered
      <4>7. GivenOnce(c)'
        BY <1>1, <1>14, <4>1, <4>2 DEF GivenOnce, Kind
      <4> QED
        BY <4>4, <4>6, <4>7 DEF Fine
    <3> QED
      BY <3>3, <3>4
  <2> QED
    BY <1>14, <2>1, <2>2 DEF CallsFine
<1> QED
  BY <1>13, <1>14, <1>16, <1>17, <1>19, <1>20, <1>21
-----------------------------------------------------------------------------
(* Steps in which calls stay where they are, or are lost.                       *)
LEMMA AllKept ==
  ASSUME CallsFine, WindowsTyped, WindowsTyped', plan' = plan, repeated' = repeated,
         \A c \in Calls : CallKept(c)
  PROVE  CallsFine'
<1>1. Calls' = Calls
  BY DEF Calls
<1>2. \A c \in Calls : Fine(c)'
  BY KeptFine DEF CallsFine
<1> QED
  BY <1>1, <1>2 DEF CallsFine

(* What failed before an initialize that is made again has failed for good. *)
LEMMA FailuresStay ==
  ASSUME WindowsTyped, InitializedOnce, plan' = plan,
         \A c \in Calls : heard[c.by][c.n] # "no" => heard'[c.by][c.n] = heard[c.by][c.n],
         \A w \in Windows : \A m \in DOMAIN plan[w] :
           m <= asked'[w] /\ ~(m <= asked[w]) /\ plan[w][m] = "initialize" =>
             \A n \in 1..(m - 1) : heard[w][n] \in {"uncertain", "refused"}
  PROVE  \A w \in Windows : \A m \in DOMAIN plan'[w] : m <= asked'[w] /\ plan'[w][m] = "initialize" =>
           \A n \in 1..(m - 1) : heard'[w][n] \in {"uncertain", "refused"}
<1> SUFFICES ASSUME NEW w \in Windows, NEW m \in DOMAIN plan[w], m <= asked'[w], plan[w][m] = "initialize",
                    NEW n \in 1..(m - 1)
             PROVE  heard'[w][n] \in {"uncertain", "refused"}
  OBVIOUS
<1>1. heard[w][n] \in {"uncertain", "refused"}
  BY DEF InitializedOnce
<1>2. DOMAIN plan[w] = 1..Len(plan[w]) /\ Len(plan[w]) \in Nat
  BY AttachedCallsAssumption DEF WindowsTyped
<1>3. n \in Nat /\ n \in DOMAIN plan[w]
  BY <1>2
<1>4. Call(w, n) \in Calls /\ Call(w, n).by = w /\ Call(w, n).n = n
  BY <1>3 DEF Calls, Call
<1> QED
  BY <1>1, <1>4

(* The owner's tables fit as long as nobody touches them.                   *)
LEMMA HubStays ==
  ASSUME HubFits, UNCHANGED <<plan, ownerMode, hub, attached, routes, waiting, atChild, promotion>>
  PROVE  HubFits'
BY DEF HubFits, OwnersCall, InternalId, Calls

(* The owner's shim ends with its app-server and what is there.             *)
LEMMA OwnerDiesKeeps ==
  ASSUME CallsInv, OwnerDies
  PROVE  CallsInv'
<1>1. /\ WindowsTyped /\ HubTyped /\ ModesFit /\ HubFits /\ QueuesFit /\ CallsFine /\ InitializedOnce
  BY DEF CallsInv
<1>2. /\ hub \in Windows /\ ownerMode' = [ownerMode EXCEPT ![hub] = "gone"] /\ hub' = NoWindow
      /\ attached' = {} /\ routes' = {} /\ waiting' = {} /\ atChild' = {} /\ initializes' = 0
      /\ handshake' = FALSE /\ initializeForwarded' = FALSE /\ promotion' = "none"
      /\ UNCHANGED <<plan, asked, heard, clientPending, clientInput, hasInitialized, toHub, fromHub,
                     given, repeated>>
  BY <1>1 DEF OwnerDies, HubTyped, windowVars
<1>3. WindowsTyped' /\ HubTyped'
  BY <1>1, <1>2 DEF WindowsTyped, HubTyped, Modes, Calls, Lines
<1>4. ModesFit'
  <2>1. \A w \in Windows : ownerMode'[w] \notin {"owner", "owner-recovering"} /\ w # NoWindow
    BY <1>1, <1>2, AttachedCallsAssumption DEF WindowsTyped, ModesFit
  <2>2. \A w \in Windows : ownerMode'[w] # "gone" => ownerMode'[w] = ownerMode[w]
    BY <1>1, <1>2 DEF WindowsTyped
  <2> QED
    BY <1>1, <1>2, <2>1, <2>2 DEF ModesFit
<1>5. HubFits'
  BY <1>2 DEF HubFits
<1>6. QueuesFit'
  BY <1>1, <1>2 DEF QueuesFit
<1>7. \A c \in Calls : CallKept(c)
  BY <1>1, <1>2 DEF CallKept, InInput, OnWayIn, AtChild, OnWayBack, Calls, WindowsTyped
<1>8. CallsFine'
  BY <1>1, <1>2, <1>3, <1>7, AllKept
<1>9. InitializedOnce'
  BY <1>1, <1>2 DEF InitializedOnce
<1> QED
  BY <1>3, <1>4, <1>5, <1>6, <1>8, <1>9 DEF CallsInv

(* A window that closes is heard of no more.                                *)
LEMMA WindowClosesKeeps ==
  ASSUME CallsInv, NEW w \in Windows, WindowCloses(w)
  PROVE  CallsInv'
<1>1. /\ WindowsTyped /\ HubTyped /\ ModesFit /\ HubFits /\ QueuesFit /\ CallsFine /\ InitializedOnce
  BY DEF CallsInv
<1>2. /\ ownerMode[w] \in {"client", "client-reconnecting"}
      /\ ownerMode' = [ownerMode EXCEPT ![w] = "gone"]
      /\ UNCHANGED <<plan, asked, heard, clientPending, clientInput, hasInitialized, toHub, fromHub,
                     hub, attached, routes, handshake, initializeForwarded, waiting, promotion,
                     atChild, given, repeated, initializes>>
  BY DEF WindowCloses, windowVars, handshakeVars, childVarsOfHub
<1>3. WindowsTyped' /\ HubTyped'
  BY <1>1, <1>2 DEF WindowsTyped, HubTyped, Modes, Calls, Lines
<1>4. w # hub /\ ownerMode'[w] = "gone" /\ \A v \in Windows : v # w => ownerMode'[v] = ownerMode[v]
  BY <1>1, <1>2 DEF ModesFit, WindowsTyped
<1>5. ModesFit'
  <2>1. \A v \in Windows : ownerMode'[v] # "gone" => ownerMode'[v] = ownerMode[v]
    BY <1>4
  <2>2. \A v \in Windows : ownerMode'[v] \in {"owner", "owner-recovering"} <=> v = hub'
    BY <1>1, <1>2, <1>4 DEF ModesFit
  <2>3. hub # NoWindow => ownerMode'[hub] = ownerMode[hub]
    BY <1>1, <1>4 DEF HubTyped
  <2>4. \A v \in attached : ownerMode'[v] \in {"client", "gone"}
    BY <1>1, <1>4 DEF ModesFit, HubTyped
  <2> QED
    BY <1>1, <1>2, <2>1, <2>2, <2>3, <2>4 DEF ModesFit
<1>6. HubFits'
  <2>1. \A c \in Calls : (OwnersCall(c) => OwnersCall(c)') /\ (ownerMode[c.by] = "gone" => ownerMode'[c.by] = "gone")
    BY <1>2, <1>4 DEF OwnersCall, Calls
  <2>2. waiting \subseteq Calls
    BY <1>1 DEF HubTyped
  <2>3. \A c \in waiting : OwnersCall(c) \/ c.by \in attached
    BY <1>1 DEF HubFits
  <2>4. \A c \in waiting' : OwnersCall(c)' \/ c.by \in attached'
    BY <1>2, <2>1, <2>2, <2>3
  <2>5. Calls' = Calls
    BY <1>2 DEF Calls
  <2>6. \A r \in atChild : r.id # PromotionId =>
          r.call \in Calls' /\ r.id = InternalId(r.call)'
          /\ (OwnersCall(r.call)' \/ r.call.by \in attached \/ ownerMode'[r.call.by] = "gone")
    BY <1>1, <1>2, <2>1, <2>5 DEF HubFits, InternalId
  <2> QED
    BY <1>1, <1>2, <2>4, <2>6 DEF HubFits
<1>7. QueuesFit'
  BY <1>1, <1>2 DEF QueuesFit
<1>8. \A c \in Calls : CallKept(c)
  BY <1>1, <1>2 DEF CallKept, InInput, OnWayIn, AtChild, OnWayBack, Calls, WindowsTyped
<1>9. CallsFine'
  BY <1>1, <1>2, <1>3, <1>8, AllKept
<1>10. InitializedOnce'
  BY <1>1, <1>2 DEF InitializedOnce
<1> QED
  BY <1>3, <1>5, <1>6, <1>7, <1>9, <1>10 DEF CallsInv

(* The owner drops the calls of a window that has closed.                   *)
LEMMA CloseAttachedKeeps ==
  ASSUME CallsInv, NEW w \in Windows, CloseAttached(w)
  PROVE  CallsInv'
<1>1. /\ WindowsTyped /\ HubTyped /\ ModesFit /\ HubFits /\ QueuesFit /\ CallsFine /\ InitializedOnce
  BY DEF CallsInv
<1>2. /\ w \in attached /\ ownerMode[w] = "gone" /\ attached' = attached \ {w}
      /\ routes' = {t \in routes : t.to # w} /\ waiting' = {c \in waiting : c.by # w}
      /\ toHub' = [toHub EXCEPT ![w] = <<>>] /\ fromHub' = [fromHub EXCEPT ![w] = <<>>]
      /\ UNCHANGED <<plan, asked, heard, ownerMode, clientPending, clientInput, hasInitialized, hub,
                     handshake, initializeForwarded, promotion, atChild, given, repeated, initializes>>
  BY DEF CloseAttached, childVarsOfHub
<1>3. /\ \A v \in Windows : toHub'[v] \in {toHub[v], <<>>} /\ fromHub'[v] \in {fromHub[v], <<>>}
      /\ <<>> \in Seq(Nat) /\ <<>> \in Seq(Lines)
  BY <1>1, <1>2 DEF WindowsTyped
<1>4. WindowsTyped'
  <2>1. toHub' \in [Windows -> Seq(Nat)]
    BY <1>1, <1>2, <1>3 DEF WindowsTyped
  <2>2. fromHub' \in [Windows -> Seq(Lines)]
    BY <1>1, <1>2, <1>3 DEF WindowsTyped
  <2> QED
    BY <1>1, <1>2, <2>1, <2>2 DEF WindowsTyped, Lines, Calls
<1>5. HubTyped'
  BY <1>1, <1>2 DEF HubTyped, Calls
<1>6. ModesFit'
  BY <1>1, <1>2, <1>3 DEF ModesFit
<1>7. HubFits'
  <2>1. \A c : OwnersCall(c)' <=> OwnersCall(c)
    BY <1>2 DEF OwnersCall
  <2>2. \A c : c \in Calls' <=> c \in Calls
    BY <1>2 DEF Calls
  <2>3. \A c : InternalId(c)' = InternalId(c)
    BY <1>2 DEF InternalId
  <2>4. w # hub
    BY <1>1, <1>2 DEF ModesFit, HubTyped
  <2>5. \A c \in waiting' : OwnersCall(c)' \/ c.by \in attached'
    BY <1>1, <1>2, <2>1 DEF HubFits
  <2>6. \A r \in atChild : r.id # PromotionId =>
          r.call \in Calls' /\ r.id = InternalId(r.call)'
          /\ (OwnersCall(r.call)' \/ r.call.by \in attached' \/ ownerMode'[r.call.by] = "gone")
    BY <1>1, <1>2, <2>1, <2>2, <2>3 DEF HubFits
  <2>7. \A t \in routes' : t.to \in attached' /\ t.id = <<t.to, t.n>>
    BY <1>1, <1>2 DEF HubFits
  <2> QED
    BY <1>1, <1>2, <2>5, <2>6, <2>7 DEF HubFits
<1>8. ToSet(<<>>) = {} /\ Distinct(<<>>)
  BY DEF ToSet, Distinct
<1>9. QueuesFit'
  <2> SUFFICES ASSUME NEW v \in Windows
               PROVE  /\ Distinct(clientInput[v]) /\ Distinct(toHub'[v]) /\ Distinct(fromHub'[v])
                      /\ ToSet(clientInput[v]) \cup ToSet(toHub'[v]) \cup clientPending[v] \subseteq DOMAIN plan[v]
                      /\ \A l \in ToSet(fromHub'[v]) : l.of.by = v
                      /\ \A k, l \in ToSet(fromHub'[v]) : k.of = l.of => k = l
    BY <1>2 DEF QueuesFit
  <2>1. /\ Distinct(clientInput[v]) /\ Distinct(toHub[v]) /\ Distinct(fromHub[v])
        /\ ToSet(clientInput[v]) \cup ToSet(toHub[v]) \cup clientPending[v] \subseteq DOMAIN plan[v]
        /\ \A l \in ToSet(fromHub[v]) : l.of.by = v
        /\ \A k, l \in ToSet(fromHub[v]) : k.of = l.of => k = l
    BY <1>1 DEF QueuesFit
  <2>2. toHub'[v] \in {toHub[v], <<>>} /\ fromHub'[v] \in {fromHub[v], <<>>}
    BY <1>3
  <2>3. /\ Distinct(toHub'[v]) /\ Distinct(fromHub'[v]) /\ ToSet(toHub'[v]) \subseteq ToSet(toHub[v])
        /\ ToSet(fromHub'[v]) \subseteq ToSet(fromHub[v])
    BY <1>8, <2>1, <2>2
  <2> QED
    BY <2>1, <2>3
<1>10. ASSUME NEW c \in Calls PROVE CallKept(c)
  <2>1. c.by \in Windows /\ asked[c.by] <= asked[c.by]
    BY <1>1 DEF Calls, WindowsTyped
  <2>2. ToSet(toHub'[c.by]) \subseteq ToSet(toHub[c.by]) /\ ToSet(fromHub'[c.by]) \subseteq ToSet(fromHub[c.by])
    BY <1>3, <1>8, <2>1
  <2> QED
    BY <1>2, <2>1, <2>2 DEF CallKept, InInput, OnWayIn, AtChild, OnWayBack
<1>11. CallsFine'
  BY <1>1, <1>2, <1>4, <1>10, AllKept
<1>12. InitializedOnce'
  BY <1>1, <1>2 DEF InitializedOnce
<1> QED
  BY <1>4, <1>5, <1>6, <1>7, <1>9, <1>11, <1>12 DEF CallsInv
(* Steps that touch neither windows nor queues.                                *)
QueuesRest == UNCHANGED <<plan, asked, heard, clientPending, clientInput, hasInitialized, toHub, fromHub,
                          attached, routes, waiting, initializeRequests, given, repeated, initializes>>
(* Then calls are where they were.                                          *)
LEMMA QueuesRestKeeps ==
  ASSUME CallsInv, QueuesRest, ownerMode' \in [Windows -> Modes], \A c \in Calls : AtChild(c)' => AtChild(c)
  PROVE  WindowsTyped' /\ QueuesFit' /\ CallsFine'
<1>1. WindowsTyped /\ QueuesFit /\ CallsFine
  BY DEF CallsInv
<1>2. WindowsTyped'
  BY <1>1 DEF QueuesRest, WindowsTyped, Lines, Calls
<1>3. QueuesFit'
  BY <1>1 DEF QueuesRest, QueuesFit
<1>4. \A c \in Calls : CallKept(c)
  BY <1>1 DEF QueuesRest, CallKept, InInput, OnWayIn, OnWayBack, Calls, WindowsTyped
<1> QED
  BY <1>1, <1>2, <1>3, <1>4, AllKept DEF QueuesRest

(* A shim that becomes owner asks its app-server to initialize.             *)
LEMMA PromoteKeeps ==
  ASSUME CallsInv, NEW w \in Windows, Promote(w)
  PROVE  CallsInv'
<1>1. /\ WindowsTyped /\ HubTyped /\ ModesFit /\ HubFits /\ QueuesFit /\ CallsFine /\ InitializedOnce
  BY DEF CallsInv
<1>2. /\ ownerMode[w] = "client-reconnecting" /\ hub = NoWindow
      /\ ownerMode' = [ownerMode EXCEPT ![w] = "owner-recovering"] /\ hub' = w
      /\ \/ promotion' = "asked" /\ \A r \in atChild' : r.id = PromotionId
         \/ promotion' = "done" /\ atChild' = atChild
      /\ \A r, s \in atChild' : r.id = s.id => r = s
      /\ QueuesRest /\ UNCHANGED <<handshake, initializeForwarded>>
  <2> DEFINE e == [id |-> PromotionId, call |-> Call(w, 0), retried |-> FALSE]
  <2>1. /\ ownerMode[w] = "client-reconnecting" /\ hub = NoWindow
        /\ ownerMode' = [ownerMode EXCEPT ![w] = "owner-recovering"] /\ hub' = w
        /\ (promotion' = "asked" /\ atChild' = {e}) \/ (promotion' = "done" /\ atChild' = atChild)
    BY DEF Promote
  <2>2. QueuesRest /\ UNCHANGED <<handshake, initializeForwarded>>
    BY DEF Promote, windowVars, handshakeVars, QueuesRest
  <2>3. e.id = PromotionId
    OBVIOUS
  <2>4. atChild = {}
    BY <1>1, <2>1 DEF ModesFit
  <2> HIDE DEF e
  <2> QED
    BY <2>1, <2>2, <2>3, <2>4
<1>3. atChild = {} /\ waiting = {} /\ attached = {} /\ routes = {} /\ w # NoWindow
  BY <1>1, <1>2, AttachedCallsAssumption DEF ModesFit
<1>4. ownerMode' \in [Windows -> Modes]
  BY <1>1, <1>2 DEF WindowsTyped, Modes
<1>5. \A c \in Calls : ~AtChild(c)'
  BY <1>2, <1>3 DEF AtChild, PromotionId
<1>6. WindowsTyped' /\ QueuesFit' /\ CallsFine'
  BY <1>2, <1>4, <1>5, QueuesRestKeeps
<1>7. HubTyped'
  BY <1>1, <1>2 DEF HubTyped, QueuesRest, Calls
<1>8. ModesFit'
  <2>1. ownerMode'[w] = "owner-recovering" /\ \A v \in Windows : v # w => ownerMode'[v] = ownerMode[v]
    BY <1>1, <1>2 DEF WindowsTyped
  <2>2. \A v \in Windows : ownerMode[v] \notin {"owner", "owner-recovering"}
    BY <1>1, <1>2, AttachedCallsAssumption DEF ModesFit
  <2>3. \A v \in Windows : ownerMode'[v] \in {"owner", "owner-recovering"} <=> v = hub'
    BY <1>2, <2>1, <2>2
  <2>4. \A v \in Windows : ownerMode'[v] \in {"client", "owner"} => clientInput[v] = <<>>
    BY <1>1, <2>1 DEF ModesFit
  <2>5. \A v \in Windows : ownerMode'[v] \in {"owner", "owner-recovering", "client-reconnecting"} =>
          toHub[v] = <<>> /\ fromHub[v] = <<>> /\ clientPending[v] = {}
    BY <1>1, <1>2, <2>1 DEF ModesFit
  <2> QED
    BY <1>2, <1>3, <2>1, <2>3, <2>4, <2>5 DEF ModesFit, QueuesRest
<1>9. HubFits'
  BY <1>2, <1>3 DEF HubFits, QueuesRest, PromotionId
<1>10. InitializedOnce'
  BY <1>1, <1>2 DEF InitializedOnce, QueuesRest
<1> QED
  BY <1>6, <1>7, <1>8, <1>9, <1>10 DEF CallsInv

(* That request has no route and no call.                                   *)
LEMMA PromotionAnsweredKeeps ==
  ASSUME CallsInv, NEW r \in atChild, PromotionAnswered(r)
  PROVE  CallsInv'
<1>1. /\ WindowsTyped /\ HubTyped /\ ModesFit /\ HubFits /\ QueuesFit /\ CallsFine /\ InitializedOnce
  BY DEF CallsInv
<1>2. /\ r.id = PromotionId /\ atChild' = atChild \ {r} /\ promotion' = "answered"
      /\ QueuesRest /\ UNCHANGED <<ownerMode, hub, handshake, initializeForwarded>>
  BY DEF PromotionAnswered, windowVars, handshakeVars, QueuesRest
<1>3. promotion = "asked" /\ \A s \in atChild' : s.id # PromotionId
  BY <1>1, <1>2 DEF HubFits
<1>4. ownerMode' \in [Windows -> Modes] /\ \A c \in Calls : AtChild(c)' => AtChild(c)
  BY <1>1, <1>2 DEF WindowsTyped, AtChild, PromotionId
<1>5. WindowsTyped' /\ QueuesFit' /\ CallsFine'
  BY <1>2, <1>4, QueuesRestKeeps
<1>6. HubTyped'
  BY <1>1, <1>2 DEF HubTyped, QueuesRest, Calls
<1>7. ModesFit'
  BY <1>1, <1>2, <1>3 DEF ModesFit, QueuesRest
<1>8. HubFits'
  BY <1>1, <1>2, <1>3 DEF HubFits, QueuesRest, OwnersCall, InternalId, PromotionId, Calls
<1>9. InitializedOnce'
  BY <1>1, <1>2 DEF InitializedOnce, QueuesRest
<1> QED
  BY <1>5, <1>6, <1>7, <1>8, <1>9 DEF CallsInv

(* An owner initialized by itself forwards no initialize any more.          *)
LEMMA PromotionDoneKeeps ==
  ASSUME CallsInv, PromotionDone
  PROVE  CallsInv'
<1>1. /\ WindowsTyped /\ HubTyped /\ ModesFit /\ HubFits /\ QueuesFit /\ CallsFine /\ InitializedOnce
  BY DEF CallsInv
<1>2. /\ promotion = "answered" /\ promotion' = "done" /\ handshake' = TRUE /\ initializeForwarded' = TRUE
      /\ QueuesRest /\ UNCHANGED <<ownerMode, hub, atChild>>
  BY DEF PromotionDone, windowVars, childVarsOfHub, QueuesRest
<1>3. ownerMode' \in [Windows -> Modes] /\ \A c \in Calls : AtChild(c)' => AtChild(c)
  BY <1>1, <1>2 DEF WindowsTyped, AtChild, PromotionId
<1>4. WindowsTyped' /\ QueuesFit' /\ CallsFine'
  BY <1>2, <1>3, QueuesRestKeeps
<1>5. HubTyped'
  BY <1>1, <1>2 DEF HubTyped, QueuesRest, Calls
<1>6. ModesFit'
  BY <1>1, <1>2 DEF ModesFit, QueuesRest
<1>7. HubFits'
  BY <1>1, <1>2 DEF HubFits, QueuesRest, OwnersCall, InternalId, PromotionId, Calls
<1>8. InitializedOnce'
  BY <1>1, <1>2 DEF InitializedOnce, QueuesRest
<1> QED
  BY <1>4, <1>5, <1>6, <1>7, <1>8 DEF CallsInv

(* A read that is given to its app-server again is still the same call.     *)
LEMMA RoutingTimesOutKeeps ==
  ASSUME CallsInv, NEW r \in atChild, RoutingTimesOut(r)
  PROVE  CallsInv'
<1> DEFINE q == [r EXCEPT !.retried = TRUE]
<1>1. /\ WindowsTyped /\ HubTyped /\ ModesFit /\ HubFits /\ QueuesFit /\ CallsFine /\ InitializedOnce
  BY DEF CallsInv
<1>2. /\ r.id # PromotionId /\ atChild' = (atChild \ {r}) \cup {q}
      /\ QueuesRest /\ UNCHANGED <<ownerMode, hub, promotion, handshake, initializeForwarded>>
  BY DEF RoutingTimesOut, windowVars, handshakeVars, QueuesRest
<1>3. q.id = r.id /\ q.call = r.call
  OBVIOUS
<1> HIDE DEF q
<1>4. ownerMode' \in [Windows -> Modes] /\ \A c \in Calls : AtChild(c)' => AtChild(c)
  BY <1>1, <1>2, <1>3 DEF WindowsTyped, AtChild, PromotionId
<1>5. WindowsTyped' /\ QueuesFit' /\ CallsFine'
  BY <1>2, <1>4, QueuesRestKeeps
<1>6. HubTyped'
  BY <1>1, <1>2 DEF HubTyped, QueuesRest, Calls
<1>7. hub # NoWindow
  BY <1>1 DEF ModesFit
<1>8. ModesFit'
  BY <1>1, <1>2, <1>7 DEF ModesFit, QueuesRest
<1>9. HubFits'
  <2>1. \A s \in atChild' : \E t \in atChild : t.id = s.id /\ t.call = s.call
    BY <1>2, <1>3
  <2>2. \A s, t \in atChild' : s.id = t.id => s = t
    <3>1. \A s, t \in atChild : s.id = t.id => s = t
      BY <1>1 DEF HubFits
    <3>2. \A s \in atChild \ {r} : s.id # q.id
      BY <1>3, <3>1
    <3> QED
      BY <1>2, <3>1, <3>2
  <2> QED
    BY <1>1, <1>2, <2>1, <2>2 DEF HubFits, QueuesRest, OwnersCall, InternalId, PromotionId, Calls
<1>10. InitializedOnce'
  BY <1>1, <1>2 DEF InitializedOnce, QueuesRest
<1> QED
  BY <1>5, <1>6, <1>8, <1>9, <1>10 DEF CallsInv
-----------------------------------------------------------------------------
(* Steps of an attached window.                                                *)
LEMMA CallIs ==
  ASSUME NEW w \in Windows, NEW n \in DOMAIN plan[w], WindowsTyped
  PROVE  /\ Call(w, n) \in Calls /\ Call(w, n).by = w /\ Call(w, n).n = n /\ n \in Nat
         /\ n <= Len(plan[w]) /\ 1 <= n
<1>1. plan[w] \in Seq(CallKinds) /\ DOMAIN plan[w] = 1..Len(plan[w]) /\ Len(plan[w]) \in Nat
  BY AttachedCallsAssumption DEF WindowsTyped
<1> QED
  BY <1>1 DEF Calls, Call

(* A call is known by its window and its number.                            *)
LEMMA CallBy ==
  ASSUME NEW c \in Calls
  PROVE  c.by \in Windows /\ c.n \in DOMAIN plan[c.by] /\ c.n \in Nat /\ c = Call(c.by, c.n)
BY DEF Calls, Call

(* A window that is not with the owner has no call there.                      *)
LEMMA NothingAtHub ==
  ASSUME CallsInv, NEW c \in Calls, c.by \notin attached, c.by # hub, ownerMode[c.by] # "gone"
  PROVE  c \notin waiting /\ ~AtChild(c)
BY DEF CallsInv, HubFits, AtChild, OwnersCall

(* A window reads the answers of its owner, one line to a call.             *)
LEMMA WindowReadsKeeps ==
  ASSUME CallsInv, NEW w \in Windows, WindowReads(w)
  PROVE  CallsInv'
<1>1. /\ WindowsTyped /\ HubTyped /\ ModesFit /\ HubFits /\ QueuesFit /\ CallsFine /\ InitializedOnce
  BY DEF CallsInv
<1>2. /\ ownerMode[w] = "client" /\ fromHub[w] # <<>>
      /\ heard' = [heard EXCEPT ![w] = Heard(w, {Head(fromHub[w])})]
      /\ clientPending' = [clientPending EXCEPT ![w] = @ \ {Head(fromHub[w]).n}]
      /\ fromHub' = [fromHub EXCEPT ![w] = Tail(@)]
      /\ UNCHANGED <<plan, asked, ownerMode, clientInput, hasInitialized, toHub, hub, attached, routes,
                     handshake, initializeForwarded, waiting, promotion, atChild, given, repeated,
                     initializes>>
  BY DEF WindowReads, handshakeVars, childVarsOfHub
<1>3. PICK q : q = fromHub[w]
  OBVIOUS
<1>4. PICK l : l = Head(fromHub[w])
  OBVIOUS
<1>5. /\ q \in Seq(Lines) /\ q # <<>> /\ Distinct(q) /\ \A k \in ToSet(q) : k.of.by = w
      /\ \A j, k \in ToSet(q) : j.of = k.of => j = k
  BY <1>1, <1>2, <1>3 DEF WindowsTyped, QueuesFit
<1>6. l \in ToSet(q) /\ l \in Lines /\ Tail(q) \in Seq(Lines) /\ ToSet(Tail(q)) \subseteq ToSet(q)
      /\ Distinct(Tail(q)) /\ l \notin ToSet(Tail(q))
  BY <1>3, <1>4, <1>5, SeqTail
<1>7. PICK c : c = l.of
  OBVIOUS
<1>8. c \in Calls /\ c.by = w /\ c.n = l.n /\ l.n \in Nat /\ l.says \in {"answer", "refused"}
  BY <1>5, <1>6, <1>7 DEF Lines
<1>9. c = Call(w, l.n) /\ l.n \in DOMAIN plan[w]
  BY <1>8, CallBy
<1>10. OnWayBack(c)
  BY <1>3, <1>6, <1>7, <1>8 DEF OnWayBack
<1>11. c.n <= asked[w] /\ heard[w][c.n] = "no" /\ c \notin waiting /\ ~AtChild(c) /\ ~OnWayIn(c)
  BY <1>1, <1>8, <1>10 DEF CallsFine, Fine, Apart, Unanswered, Placed
<1>12. ~InInput(c)
  BY <1>1, <1>2, <1>8 DEF ModesFit, InInput, ToSet
<1>13. LinesFit(w, {l})
  BY <1>7, <1>8, <1>9, <1>11 DEF LinesFit, Outcomes
<1>14. /\ Heard(w, {l}) \in [DOMAIN plan[w] -> Outcomes]
       /\ \A n \in DOMAIN plan[w] : (\A k \in {l} : k.n # n) \/ heard[w][n] # "no" =>
            Heard(w, {l})[n] = heard[w][n]
  BY <1>1, <1>13, HeardFit
<1>15. heard' = [heard EXCEPT ![w] = Heard(w, {l})] /\ fromHub' = [fromHub EXCEPT ![w] = Tail(q)]
       /\ clientPending' = [clientPending EXCEPT ![w] = clientPending[w] \ {l.n}]
  BY <1>2, <1>3, <1>4
<1>16. WindowsTyped'
  <2>1. \A v \in Windows : heard'[v] \in [DOMAIN plan[v] -> Outcomes]
    BY <1>1, <1>14, <1>15 DEF WindowsTyped
  <2>2. fromHub' \in [Windows -> Seq(Lines)]
    BY <1>1, <1>6, <1>15 DEF WindowsTyped
  <2>3. clientPending' \in [Windows -> SUBSET Nat] /\ DOMAIN heard' = Windows
    BY <1>1, <1>15 DEF WindowsTyped
  <2> QED
    BY <1>1, <1>2, <2>1, <2>2, <2>3 DEF WindowsTyped, Lines, Calls
<1>17. HubTyped'
  BY <1>1, <1>2 DEF HubTyped, Calls
<1>18. ModesFit'
  BY <1>1, <1>2, <1>15 DEF ModesFit
<1>19. HubFits'
  BY <1>1, <1>2, HubStays
<1>20. \A v \in Windows : v # w => fromHub'[v] = fromHub[v] /\ clientPending'[v] = clientPending[v]
  BY <1>15
<1>21. fromHub'[w] = Tail(q) /\ clientPending'[w] = clientPending[w] \ {l.n}
  BY <1>1, <1>15 DEF WindowsTyped
<1>22. QueuesFit'
  <2> SUFFICES ASSUME NEW v \in Windows
               PROVE  /\ Distinct(clientInput[v]) /\ Distinct(toHub[v]) /\ Distinct(fromHub'[v])
                      /\ ToSet(clientInput[v]) \cup ToSet(toHub[v]) \cup clientPending'[v] \subseteq DOMAIN plan[v]
                      /\ \A k \in ToSet(fromHub'[v]) : k.of.by = v
                      /\ \A j, k \in ToSet(fromHub'[v]) : j.of = k.of => j = k
    BY <1>2 DEF QueuesFit
  <2>1. /\ Distinct(clientInput[v]) /\ Distinct(toHub[v]) /\ Distinct(fromHub[v])
        /\ ToSet(clientInput[v]) \cup ToSet(toHub[v]) \cup clientPending[v] \subseteq DOMAIN plan[v]
        /\ \A k \in ToSet(fromHub[v]) : k.of.by = v
        /\ \A j, k \in ToSet(fromHub[v]) : j.of = k.of => j = k
    BY <1>1 DEF QueuesFit
  <2>2. CASE v = w
    BY <1>5, <1>6, <1>21, <2>1, <2>2
  <2>3. CASE v # w
    BY <1>20, <2>1, <2>3
  <2> QED
    BY <2>2, <2>3
<1>23. \A d \in Calls : d # c => heard'[d.by][d.n] = heard[d.by][d.n]
  <2> SUFFICES ASSUME NEW d \in Calls, d # c PROVE heard'[d.by][d.n] = heard[d.by][d.n]
    OBVIOUS
  <2>1. d.by \in Windows /\ d.n \in DOMAIN plan[d.by] /\ d = Call(d.by, d.n)
    BY CallBy
  <2>2. CASE d.by = w
    <3>1. d.n # l.n
      BY <1>9, <2>1, <2>2
    <3> QED
      BY <1>1, <1>14, <1>15, <2>1, <2>2, <3>1 DEF WindowsTyped
  <2>3. CASE d.by # w
    BY <1>15, <2>3
  <2> QED
    BY <2>2, <2>3
<1>24. ASSUME NEW d \in Calls, d # c PROVE Fine(d)'
  <2>1. d.by \in Windows /\ asked[d.by] <= asked'[d.by] /\ Fine(d)
    BY <1>1, <1>2, CallBy DEF WindowsTyped, CallsFine
  <2>2. OnWayBack(d)' => OnWayBack(d)
    BY <1>3, <1>6, <1>20, <1>21, <2>1 DEF OnWayBack
  <2>3. d.n \in clientPending'[d.by] => d.n \in clientPending[d.by]
    BY <1>20, <1>21, <2>1
  <2>4. CallKept(d)
    BY <1>2, <1>23, <1>24, <2>1, <2>2, <2>3 DEF CallKept, InInput, OnWayIn, AtChild
  <2> QED
    BY <1>1, <1>2, <1>16, <2>1, <2>4, KeptFine
<1>25. Fine(c)'
  <2>1. ~OnWayBack(c)'
    BY <1>5, <1>6, <1>7, <1>8, <1>21 DEF OnWayBack
  <2>2. ~InInput(c)' /\ ~OnWayIn(c)' /\ c \notin waiting' /\ ~AtChild(c)' /\ c.n \notin clientPending'[c.by]
    BY <1>2, <1>8, <1>11, <1>12, <1>21 DEF InInput, OnWayIn, AtChild
  <2>3. c \in given' => Kind(c)' # "read" /\ c.n <= asked'[c.by]
    BY <1>1, <1>2, <1>8 DEF CallsFine, Fine, GivenOnce, Kind
  <2> QED
    BY <1>2, <1>8, <1>11, <2>1, <2>2, <2>3 DEF Fine, Apart, Unanswered, GivenOnce, Placed
<1>26. CallsFine'
  <2>1. Calls' = Calls
    BY <1>2 DEF Calls
  <2> QED
    BY <1>1, <1>2, <1>24, <1>25, <2>1 DEF CallsFine
<1>27. InitializedOnce'
  <2>1. \A d \in Calls : heard[d.by][d.n] # "no" => heard'[d.by][d.n] = heard[d.by][d.n]
    BY <1>8, <1>11, <1>23
  <2>2. \A v \in Windows : \A m \in DOMAIN plan'[v] : m <= asked'[v] /\ plan'[v][m] = "initialize" =>
          \A n \in 1..(m - 1) : heard'[v][n] \in {"uncertain", "refused"}
    BY <1>1, <1>2, <2>1, FailuresStay
  <2> QED
    BY <1>1, <1>2, <2>2 DEF InitializedOnce
<1> QED
  BY <1>16, <1>17, <1>18, <1>19, <1>22, <1>26, <1>27 DEF CallsInv

(* Ids put back in order are put back once each.                            *)
LEMMA InOrderFit ==
  ASSUME NEW ns \in SUBSET Nat, IsFiniteSet(ns), NEW s \in InOrder(ns)
  PROVE  s \in Seq(Nat) /\ ToSet(s) \subseteq ns /\ Distinct(s)
<1>1. PICK k \in Nat : k = Cardinality(ns)
  BY FS_CardinalityType
<1>2. s \in [1..k -> ns] /\ \A i, j \in DOMAIN s : i < j => s[i] < s[j]
  BY <1>1 DEF InOrder
<1>3. DOMAIN s = 1..k /\ \A i \in 1..k : s[i] \in ns
  BY <1>2
<1>4. \A x \in ns : x \in Nat
  OBVIOUS
<1>5. s \in Seq(Nat)
  <2>1. s \in [1..k -> Nat]
    BY <1>2, <1>4
  <2> QED
    BY <2>1
<1>6. ASSUME NEW i \in 1..k, NEW j \in 1..k, s[i] = s[j] PROVE i = j
  <2>1. s[i] \in Nat /\ ~(s[i] < s[j]) /\ ~(s[j] < s[i])
    <3>1. s[i] \in Nat
      BY <1>3, <1>4
    <3> QED
      BY <1>6, <3>1
  <2>2. ~(i < j) /\ ~(j < i)
    BY <1>2, <1>3, <2>1
  <2> QED
    BY <2>2
<1> QED
  BY <1>3, <1>5, <1>6 DEF ToSet, Distinct

(* A set of lines with an answer each to some calls of a window fits it.        *)
LEMMA OneLineEach ==
  ASSUME WindowsTyped, NEW w \in Windows, NEW ns, ns \subseteq DOMAIN plan[w], NEW says \in Outcomes,
         \A n \in ns : heard[w][n] = "no"
  PROVE  LinesFit(w, {[n |-> n, of |-> Call(w, n), says |-> says] : n \in ns})
BY DEF LinesFit

(* Of what a window waits for, reads go back to it, all else is uncertain.  *)
LEMMA OwnerDisconnectsKeeps ==
  ASSUME CallsInv, NEW w \in Windows, OwnerDisconnects(w)
  PROVE  CallsInv'
<1> DEFINE again == Replayable(w, clientPending[w])
           lines == {[n |-> n, of |-> Call(w, n), says |-> "uncertain"] : n \in clientPending[w] \ again}
<1>1. /\ WindowsTyped /\ HubTyped /\ ModesFit /\ HubFits /\ QueuesFit /\ CallsFine /\ InitializedOnce
  BY DEF CallsInv
<1>2. /\ ownerMode[w] = "client" /\ w \notin attached
      /\ ownerMode' = [ownerMode EXCEPT ![w] = "client-reconnecting"]
      /\ heard' = [heard EXCEPT ![w] = Heard(w, lines)]
      /\ clientPending' = [clientPending EXCEPT ![w] = {}]
      /\ toHub' = [toHub EXCEPT ![w] = <<>>] /\ fromHub' = [fromHub EXCEPT ![w] = <<>>]
      /\ UNCHANGED <<plan, asked, hasInitialized, hub, attached, routes, handshake, initializeForwarded,
                     waiting, promotion, atChild, given, repeated, initializes>>
  BY DEF OwnerDisconnects, handshakeVars, childVarsOfHub
<1>3. PICK ns \in InOrder(again) : clientInput' = [clientInput EXCEPT ![w] = @ \o ns]
  BY DEF OwnerDisconnects
<1>4. clientPending[w] \subseteq DOMAIN plan[w] /\ clientPending[w] \subseteq Nat
      /\ DOMAIN plan[w] = 1..Len(plan[w]) /\ Len(plan[w]) \in Nat
  BY <1>1, AttachedCallsAssumption DEF QueuesFit, WindowsTyped
<1>5. /\ again \subseteq clientPending[w] /\ \A n \in again : plan[w][n] = "read"
  BY DEF Replayable
<1>6. \A n \in clientPending[w] : n <= asked[w] /\ heard[w][n] = "no" /\ Call(w, n) \in Calls
  <2> SUFFICES ASSUME NEW n \in clientPending[w]
               PROVE  n <= asked[w] /\ heard[w][n] = "no" /\ Call(w, n) \in Calls
    OBVIOUS
  <2>1. Call(w, n) \in Calls /\ Call(w, n).by = w /\ Call(w, n).n = n
    BY <1>1, <1>4, CallIs
  <2> QED
    BY <1>1, <2>1 DEF CallsFine, Fine, Unanswered
<1>7. IsFiniteSet(again)
  <2>1. IsFiniteSet(1..Len(plan[w]))
    BY <1>4, FS_Interval
  <2>2. again \subseteq 1..Len(plan[w])
    BY <1>4, <1>5
  <2> QED
    BY <2>1, <2>2, FS_Subset
<1>8. ns \in Seq(Nat) /\ ToSet(ns) \subseteq again /\ Distinct(ns)
  BY <1>3, <1>4, <1>5, <1>7, InOrderFit
<1>9. LinesFit(w, lines)
  BY <1>1, <1>4, <1>6, OneLineEach DEF Outcomes
<1>10. lines = {[n |-> n, of |-> Call(w, n), says |-> "uncertain"] : n \in clientPending[w] \ again}
  OBVIOUS
<1> HIDE DEF again, lines
<1>11. \A l \in lines : l.n \in clientPending[w] \ again
  BY <1>10
<1>12. clientInput[w] = <<>>
  BY <1>1, <1>2 DEF ModesFit
<1>13. clientInput' = [clientInput EXCEPT ![w] = ns]
  <2>1. <<>> \o ns = ns
    BY <1>8
  <2> QED
    BY <1>3, <1>12, <2>1
<1>14. /\ Heard(w, lines) \in [DOMAIN plan[w] -> Outcomes]
       /\ \A n \in DOMAIN plan[w] : (\A k \in lines : k.n # n) \/ heard[w][n] # "no" =>
            Heard(w, lines)[n] = heard[w][n]
  BY <1>1, <1>9, HeardFit
<1>15. WindowsTyped'
  <2>1. \A v \in Windows : heard'[v] \in [DOMAIN plan[v] -> Outcomes]
    BY <1>1, <1>2, <1>14 DEF WindowsTyped
  <2>2. <<>> \in Seq(Lines) /\ <<>> \in Seq(Nat)
    OBVIOUS
  <2>3. fromHub' \in [Windows -> Seq(Lines)] /\ toHub' \in [Windows -> Seq(Nat)]
        /\ clientInput' \in [Windows -> Seq(Nat)]
    BY <1>1, <1>2, <1>8, <1>13, <2>2 DEF WindowsTyped
  <2>4. clientPending' \in [Windows -> SUBSET Nat] /\ DOMAIN heard' = Windows
        /\ ownerMode' \in [Windows -> Modes]
    BY <1>1, <1>2 DEF WindowsTyped, Modes
  <2> QED
    BY <1>1, <1>2, <2>1, <2>3, <2>4 DEF WindowsTyped, Lines, Calls
<1>16. HubTyped'
  BY <1>1, <1>2 DEF HubTyped, Calls
<1>17. /\ w # hub /\ \A v \in Windows : v # w =>
            /\ ownerMode'[v] = ownerMode[v] /\ toHub'[v] = toHub[v] /\ fromHub'[v] = fromHub[v]
            /\ clientPending'[v] = clientPending[v] /\ clientInput'[v] = clientInput[v]
            /\ heard'[v] = heard[v]
       /\ ownerMode'[w] = "client-reconnecting" /\ toHub'[w] = <<>> /\ fromHub'[w] = <<>>
       /\ clientPending'[w] = {} /\ clientInput'[w] = ns /\ heard'[w] = Heard(w, lines)
  BY <1>1, <1>2, <1>13 DEF ModesFit, WindowsTyped
<1>18. ModesFit'
  <2>1. \A v \in Windows : ownerMode'[v] \in {"owner", "owner-recovering"} <=> v = hub'
    BY <1>1, <1>2, <1>17 DEF ModesFit
  <2>2. hub # NoWindow => ownerMode'[hub] = ownerMode[hub]
    BY <1>1, <1>17 DEF HubTyped
  <2>3. \A v \in attached : ownerMode'[v] \in {"client", "gone"} /\ clientInput'[v] = <<>>
    BY <1>1, <1>2, <1>17 DEF ModesFit, HubTyped
  <2>4. \A v \in Windows : ownerMode'[v] \in {"owner", "owner-recovering", "client-reconnecting"} =>
          toHub'[v] = <<>> /\ fromHub'[v] = <<>> /\ clientPending'[v] = {}
    BY <1>1, <1>17 DEF ModesFit
  <2>5. \A v \in Windows : ownerMode'[v] \in {"client", "owner"} => clientInput'[v] = <<>>
    BY <1>1, <1>17 DEF ModesFit
  <2> QED
    BY <1>1, <1>2, <2>1, <2>2, <2>3, <2>4, <2>5 DEF ModesFit
<1>19. HubFits'
  <2>1. \A c \in Calls : (OwnersCall(c) => OwnersCall(c)') /\ (ownerMode[c.by] = "gone" => ownerMode'[c.by] = "gone")
    BY <1>2, <1>17, CallBy DEF OwnersCall
  <2>2. \A c \in waiting' : OwnersCall(c)' \/ c.by \in attached'
    BY <1>1, <1>2, <2>1 DEF HubFits, HubTyped
  <2>3. Calls' = Calls
    BY <1>2 DEF Calls
  <2>4. \A r \in atChild : r.id # PromotionId =>
          r.call \in Calls' /\ r.id = InternalId(r.call)'
          /\ (OwnersCall(r.call)' \/ r.call.by \in attached \/ ownerMode'[r.call.by] = "gone")
    BY <1>1, <1>2, <2>1, <2>3 DEF HubFits, InternalId
  <2> QED
    BY <1>1, <1>2, <2>2, <2>4 DEF HubFits
<1>20. ToSet(<<>>) = {} /\ Distinct(<<>>)
  BY DEF ToSet, Distinct
<1>21. QueuesFit'
  <2> SUFFICES ASSUME NEW v \in Windows
               PROVE  /\ Distinct(clientInput'[v]) /\ Distinct(toHub'[v]) /\ Distinct(fromHub'[v])
                      /\ ToSet(clientInput'[v]) \cup ToSet(toHub'[v]) \cup clientPending'[v] \subseteq DOMAIN plan[v]
                      /\ \A k \in ToSet(fromHub'[v]) : k.of.by = v
                      /\ \A j, k \in ToSet(fromHub'[v]) : j.of = k.of => j = k
    BY <1>2 DEF QueuesFit
  <2>1. CASE v = w
    BY <1>4, <1>5, <1>8, <1>17, <1>20, <2>1
  <2>2. CASE v # w
    BY <1>1, <1>17, <2>2 DEF QueuesFit
  <2> QED
    BY <2>1, <2>2
<1>22. ASSUME NEW d \in Calls, d.by # w PROVE Fine(d)'
  <2>1. d.by \in Windows /\ asked[d.by] <= asked'[d.by] /\ Fine(d)
    BY <1>1, <1>2, CallBy DEF WindowsTyped, CallsFine
  <2>2. CallKept(d)
    BY <1>2, <1>17, <1>22, <2>1 DEF CallKept, InInput, OnWayIn, OnWayBack, AtChild
  <2> QED
    BY <1>1, <1>2, <1>15, <2>1, <2>2, KeptFine
<1>23. ASSUME NEW d \in Calls, d.by = w PROVE Fine(d)'
  <2>1. d.n \in DOMAIN plan[w] /\ d = Call(w, d.n) /\ Fine(d)
    BY <1>1, <1>23, CallBy DEF CallsFine
  <2>2. d \notin waiting' /\ ~AtChild(d)'
    BY <1>2, <1>17, <1>23, NothingAtHub DEF AtChild
  <2>3. ~OnWayIn(d)' /\ ~OnWayBack(d)' /\ d.n \notin clientPending'[d.by]
    BY <1>17, <1>20, <1>23 DEF OnWayIn, OnWayBack
  <2>4. InInput(d)' => d.n \in again /\ d.n <= asked[w] /\ heard[w][d.n] = "no" /\ plan[w][d.n] = "read"
    BY <1>5, <1>6, <1>8, <1>17, <1>23 DEF InInput
  <2>5. d.n \in again => heard'[w][d.n] = heard[w][d.n]
    BY <1>11, <1>14, <1>17, <2>1
  <2>6. heard'[w][d.n] # "no" => d.n <= asked[w]
    <3>1. CASE heard[w][d.n] # "no"
      BY <2>1, <1>23, <3>1 DEF Fine, Unanswered
    <3>2. CASE heard[w][d.n] = "no" /\ heard'[w][d.n] # "no"
      <4>1. d.n \in clientPending[w]
        BY <1>11, <1>14, <1>17, <2>1, <3>2
      <4> QED
        BY <1>6, <4>1
    <3> QED
      BY <3>1, <3>2
  <2>7. d \in given' => Kind(d)' # "read" /\ d.n <= asked[w] /\ ~InInput(d)'
    BY <1>2, <1>23, <2>1, <2>4 DEF Fine, GivenOnce, Kind
  <2>8. Apart(d)'
    BY <2>2, <2>3 DEF Apart
  <2>9. Unanswered(d)'
    BY <1>2, <1>23, <2>2, <2>3, <2>4, <2>5, <2>6 DEF Unanswered, Placed
  <2>10. GivenOnce(d)'
    BY <1>2, <1>23, <2>3, <2>7 DEF GivenOnce
  <2> QED
    BY <2>8, <2>9, <2>10 DEF Fine
<1>24. CallsFine'
  <2>1. Calls' = Calls
    BY <1>2 DEF Calls
  <2> QED
    BY <1>1, <1>2, <1>22, <1>23, <2>1 DEF CallsFine
<1>25. InitializedOnce'
  <2>1. \A d \in Calls : heard[d.by][d.n] # "no" => heard'[d.by][d.n] = heard[d.by][d.n]
    BY <1>14, <1>17, CallBy
  <2>2. \A v \in Windows : \A m \in DOMAIN plan'[v] : m <= asked'[v] /\ plan'[v][m] = "initialize" =>
          \A n \in 1..(m - 1) : heard'[v][n] \in {"uncertain", "refused"}
    BY <1>1, <1>2, <2>1, FailuresStay
  <2> QED
    BY <1>1, <1>2, <2>2 DEF InitializedOnce
<1> QED
  BY <1>15, <1>16, <1>18, <1>19, <1>21, <1>24, <1>25 DEF CallsInv

(* What a window writes to the owner, when none of it is on that way.       *)
LEMMA SendFit ==
  ASSUME WindowsTyped, QueuesFit, NEW w \in Windows, NEW ns \in Seq(Nat), Distinct(ns),
         ToSet(ns) \cap ToSet(toHub[w]) = {}, SendToHub(w, ns)
  PROVE  /\ toHub' \in [Windows -> Seq(Nat)] /\ clientPending' \in [Windows -> SUBSET Nat]
         /\ hasInitialized' \in [Windows -> BOOLEAN]
         /\ Distinct(toHub'[w]) /\ ToSet(toHub'[w]) = ToSet(toHub[w]) \cup ToSet(ns)
         /\ clientPending'[w] = clientPending[w] \cup ToSet(ns)
         /\ \A v \in Windows : v # w => toHub'[v] = toHub[v] /\ clientPending'[v] = clientPending[v]
<1>1. /\ clientPending' = [clientPending EXCEPT ![w] = clientPending[w] \cup ToSet(ns)]
      /\ toHub' = [toHub EXCEPT ![w] = toHub[w] \o ns]
  BY DEF SendToHub
<1>2. hasInitialized' \in [Windows -> BOOLEAN]
  BY DEF SendToHub, WindowsTyped
<1>3. toHub[w] \in Seq(Nat) /\ Distinct(toHub[w])
  BY DEF WindowsTyped, QueuesFit
<1>4. PICK q : q = toHub[w] \o ns
  OBVIOUS
<1>5. q \in Seq(Nat) /\ ToSet(q) = ToSet(toHub[w]) \cup ToSet(ns) /\ Distinct(q)
  BY <1>3, <1>4, SeqJoin
<1>6. ToSet(ns) \in SUBSET Nat
  BY DEF ToSet
<1> QED
  BY <1>1, <1>2, <1>4, <1>5, <1>6 DEF WindowsTyped

(* A window attached to another owner sends what it has kept.               *)
LEMMA ReattachKeeps ==
  ASSUME CallsInv, NEW w \in Windows, Reattach(w)
  PROVE  CallsInv'
<1>1. /\ WindowsTyped /\ HubTyped /\ ModesFit /\ HubFits /\ QueuesFit /\ CallsFine /\ InitializedOnce
  BY DEF CallsInv
<1>2. /\ ownerMode[w] = "client-reconnecting" /\ hub # NoWindow
      /\ ownerMode' = [ownerMode EXCEPT ![w] = "client"] /\ attached' = attached \cup {w}
      /\ SendToHub(w, clientInput[w])
      /\ clientInput' = [clientInput EXCEPT ![w] = <<>>]
      /\ UNCHANGED <<plan, asked, heard, fromHub, hub, routes, handshake, initializeForwarded,
                     waiting, promotion, atChild, given, repeated, initializes>>
  BY DEF Reattach, handshakeVars, childVarsOfHub
<1>3. toHub[w] = <<>> /\ fromHub[w] = <<>> /\ clientPending[w] = {} /\ w # hub /\ w \notin attached
  BY <1>1, <1>2 DEF ModesFit, HubTyped
<1>4. ToSet(<<>>) = {} /\ Distinct(<<>>)
  BY DEF ToSet, Distinct
<1>5. PICK ns : ns = clientInput[w]
  OBVIOUS
<1>6. ns \in Seq(Nat) /\ Distinct(ns) /\ ToSet(ns) \subseteq DOMAIN plan[w]
  BY <1>1, <1>5 DEF WindowsTyped, QueuesFit
<1>7. /\ toHub' \in [Windows -> Seq(Nat)] /\ clientPending' \in [Windows -> SUBSET Nat]
      /\ hasInitialized' \in [Windows -> BOOLEAN]
      /\ Distinct(toHub'[w]) /\ ToSet(toHub'[w]) = ToSet(ns)
      /\ clientPending'[w] = ToSet(ns)
      /\ \A v \in Windows : v # w => toHub'[v] = toHub[v] /\ clientPending'[v] = clientPending[v]
  <2>1. ToSet(ns) \cap ToSet(toHub[w]) = {}
    BY <1>3, <1>4
  <2>2. SendToHub(w, ns)
    BY <1>2, <1>5
  <2>3. /\ toHub' \in [Windows -> Seq(Nat)] /\ clientPending' \in [Windows -> SUBSET Nat]
        /\ hasInitialized' \in [Windows -> BOOLEAN]
        /\ Distinct(toHub'[w]) /\ ToSet(toHub'[w]) = ToSet(toHub[w]) \cup ToSet(ns)
        /\ clientPending'[w] = clientPending[w] \cup ToSet(ns)
        /\ \A v \in Windows : v # w => toHub'[v] = toHub[v] /\ clientPending'[v] = clientPending[v]
    BY <1>1, <1>6, <2>1, <2>2, SendFit
  <2> QED
    BY <1>3, <1>4, <2>3
<1>8. /\ ownerMode'[w] = "client" /\ clientInput'[w] = <<>>
      /\ \A v \in Windows : v # w => ownerMode'[v] = ownerMode[v] /\ clientInput'[v] = clientInput[v]
  BY <1>1, <1>2 DEF WindowsTyped
<1>9. WindowsTyped'
  <2>1. <<>> \in Seq(Nat)
    OBVIOUS
  <2>2. clientInput' \in [Windows -> Seq(Nat)] /\ ownerMode' \in [Windows -> Modes]
    BY <1>1, <1>2, <2>1 DEF WindowsTyped, Modes
  <2> QED
    BY <1>1, <1>2, <1>7, <2>2 DEF WindowsTyped, Lines, Calls
<1>10. HubTyped'
  BY <1>1, <1>2 DEF HubTyped, Calls
<1>11. ModesFit'
  <2>1. \A v \in Windows : ownerMode'[v] \in {"owner", "owner-recovering"} <=> v = hub'
    BY <1>1, <1>2, <1>3, <1>8 DEF ModesFit
  <2>2. hub # NoWindow => ownerMode'[hub] = ownerMode[hub]
    BY <1>1, <1>3, <1>8 DEF HubTyped
  <2>3. \A v \in attached' : ownerMode'[v] \in {"client", "gone"} /\ clientInput'[v] = <<>>
    BY <1>1, <1>2, <1>8 DEF ModesFit, HubTyped
  <2>4. \A v \in Windows : ownerMode'[v] \in {"owner", "owner-recovering", "client-reconnecting"} =>
          toHub'[v] = <<>> /\ fromHub'[v] = <<>> /\ clientPending'[v] = {}
    BY <1>1, <1>2, <1>7, <1>8 DEF ModesFit
  <2>5. \A v \in Windows : ownerMode'[v] \in {"client", "owner"} => clientInput'[v] = <<>>
    BY <1>1, <1>8 DEF ModesFit
  <2> QED
    BY <1>1, <1>2, <2>1, <2>2, <2>3, <2>4, <2>5 DEF ModesFit
<1>12. HubFits'
  <2>1. \A c \in Calls : (OwnersCall(c) => OwnersCall(c)') /\ (ownerMode[c.by] = "gone" => ownerMode'[c.by] = "gone")
    BY <1>2, <1>3, <1>8, CallBy DEF OwnersCall
  <2>2. \A c \in waiting' : OwnersCall(c)' \/ c.by \in attached'
    BY <1>1, <1>2, <2>1 DEF HubFits, HubTyped
  <2>3. Calls' = Calls
    BY <1>2 DEF Calls
  <2>4. \A r \in atChild : r.id # PromotionId =>
          r.call \in Calls' /\ r.id = InternalId(r.call)'
          /\ (OwnersCall(r.call)' \/ r.call.by \in attached' \/ ownerMode'[r.call.by] = "gone")
    BY <1>1, <1>2, <2>1, <2>3 DEF HubFits, InternalId
  <2> QED
    BY <1>1, <1>2, <2>2, <2>4 DEF HubFits
<1>13. QueuesFit'
  <2> SUFFICES ASSUME NEW v \in Windows
               PROVE  /\ Distinct(clientInput'[v]) /\ Distinct(toHub'[v]) /\ Distinct(fromHub[v])
                      /\ ToSet(clientInput'[v]) \cup ToSet(toHub'[v]) \cup clientPending'[v] \subseteq DOMAIN plan[v]
                      /\ \A k \in ToSet(fromHub[v]) : k.of.by = v
                      /\ \A j, k \in ToSet(fromHub[v]) : j.of = k.of => j = k
    BY <1>2 DEF QueuesFit
  <2>1. CASE v = w
    BY <1>1, <1>4, <1>6, <1>7, <1>8, <2>1 DEF QueuesFit
  <2>2. CASE v # w
    BY <1>1, <1>7, <1>8, <2>2 DEF QueuesFit
  <2> QED
    BY <2>1, <2>2
<1>14. ASSUME NEW d \in Calls, d.by # w PROVE Fine(d)'
  <2>1. d.by \in Windows /\ asked[d.by] <= asked'[d.by] /\ Fine(d)
    BY <1>1, <1>2, CallBy DEF WindowsTyped, CallsFine
  <2>2. CallKept(d)
    BY <1>2, <1>7, <1>8, <1>14, <2>1 DEF CallKept, InInput, OnWayIn, OnWayBack, AtChild
  <2> QED
    BY <1>1, <1>2, <1>9, <2>1, <2>2, KeptFine
<1>15. ASSUME NEW d \in Calls, d.by = w PROVE Fine(d)'
  <2>1. Fine(d)
    BY <1>1 DEF CallsFine
  <2>2. d \notin waiting' /\ ~AtChild(d)'
    BY <1>2, <1>3, <1>15, NothingAtHub DEF AtChild
  <2>3. ~InInput(d)' /\ ~OnWayBack(d)'
    BY <1>2, <1>3, <1>4, <1>8, <1>15 DEF InInput, OnWayBack
  <2>4. (OnWayIn(d)' => InInput(d)) /\ (d.n \in clientPending'[d.by] => InInput(d))
    BY <1>5, <1>7, <1>15 DEF OnWayIn, InInput
  <2>5. Apart(d)'
    BY <2>2, <2>3 DEF Apart
  <2>6. Unanswered(d)'
    BY <1>2, <2>1, <2>2, <2>3, <2>4 DEF Fine, Unanswered, Placed
  <2>7. GivenOnce(d)'
    BY <1>2, <2>1, <2>3, <2>4 DEF Fine, GivenOnce, Kind
  <2> QED
    BY <2>5, <2>6, <2>7 DEF Fine
<1>16. CallsFine'
  <2>1. Calls' = Calls
    BY <1>2 DEF Calls
  <2> QED
    BY <1>1, <1>2, <1>14, <1>15, <2>1 DEF CallsFine
<1>17. InitializedOnce'
  BY <1>1, <1>2 DEF InitializedOnce
<1> QED
  BY <1>9, <1>10, <1>11, <1>12, <1>13, <1>16, <1>17 DEF CallsInv
-----------------------------------------------------------------------------
(* A new call is in no place.                                                  *)
LEMMA NewCallIs ==
  ASSUME CallsInv, NEW w \in Windows, asked[w] + 1 \in DOMAIN plan[w],
         NEW n, n = asked[w] + 1, NEW c, c = Call(w, n)
  PROVE  /\ c \in Calls /\ c.by = w /\ c.n = n /\ n \in Nat /\ n <= Len(plan[w]) /\ asked[w] <= n
         /\ heard[w][n] = "no" /\ ~Placed(c) /\ n \notin clientPending[w] /\ c \notin given
<1>1. /\ WindowsTyped /\ CallsFine
  BY DEF CallsInv
<1>2. c \in Calls /\ c.by = w /\ c.n = n /\ n \in Nat /\ n <= Len(plan[w])
  BY <1>1, CallIs
<1>3. asked[w] \in Nat /\ ~(n <= asked[w])
  BY <1>1 DEF WindowsTyped
<1> QED
  BY <1>1, <1>2, <1>3 DEF CallsFine, Fine, Unanswered, GivenOnce

(* Its plan is that of the window, whatever is asked.                          *)
LEMMA AskedTyped ==
  ASSUME WindowsTyped, NEW w \in Windows, asked[w] + 1 \in DOMAIN plan[w],
         asked' = [asked EXCEPT ![w] = asked[w] + 1]
  PROVE  /\ asked' \in [Windows -> Nat] /\ \A v \in Windows : asked[v] <= asked'[v] /\ asked'[v] <= Len(plan[v])
         /\ asked'[w] = asked[w] + 1 /\ \A v \in Windows : v # w => asked'[v] = asked[v]
<1>1. asked[w] + 1 \in Nat /\ asked[w] + 1 <= Len(plan[w]) /\ asked[w] \in Nat
  BY CallIs DEF WindowsTyped
<1>2. \A v \in Windows : asked[v] \in Nat /\ asked[v] <= Len(plan[v])
  BY DEF WindowsTyped
<1>3. asked'[w] = asked[w] + 1 /\ \A v \in Windows : v # w => asked'[v] = asked[v]
  BY DEF WindowsTyped
<1>4. asked' \in [Windows -> Nat]
  BY <1>1, <1>2 DEF WindowsTyped
<1> QED
  BY <1>1, <1>2, <1>3, <1>4

(* A window asks initialize again when all before it has failed.               *)
LEMMA MayAskFit ==
  ASSUME CallsInv, NEW w \in Windows, asked[w] + 1 \in DOMAIN plan[w], MayAsk(w, asked[w] + 1),
         asked' = [asked EXCEPT ![w] = asked[w] + 1], plan' = plan,
         \A c \in Calls : heard[c.by][c.n] # "no" => heard'[c.by][c.n] = heard[c.by][c.n]
  PROVE  \A v \in Windows : \A m \in DOMAIN plan'[v] : m <= asked'[v] /\ plan'[v][m] = "initialize" =>
           \A n \in 1..(m - 1) : heard'[v][n] \in {"uncertain", "refused"}
<1>1. WindowsTyped /\ InitializedOnce
  BY DEF CallsInv
<1>2. asked'[w] = asked[w] + 1 /\ asked[w] \in Nat /\ \A v \in Windows : v # w => asked'[v] = asked[v]
  BY <1>1, AskedTyped DEF WindowsTyped
<1>3. \A v \in Windows : \A m \in DOMAIN plan[v] :
        m <= asked'[v] /\ ~(m <= asked[v]) => v = w /\ m = asked[w] + 1
  <2> SUFFICES ASSUME NEW v \in Windows, NEW m \in DOMAIN plan[v], m <= asked'[v], ~(m <= asked[v])
               PROVE  v = w /\ m = asked[w] + 1
    OBVIOUS
  <2>1. m \in Nat
    BY <1>1, CallIs
  <2> QED
    BY <1>2, <2>1
<1>4. \A v \in Windows : \A m \in DOMAIN plan[v] :
        m <= asked'[v] /\ ~(m <= asked[v]) /\ plan[v][m] = "initialize" =>
          \A n \in 1..(m - 1) : heard[v][n] \in {"uncertain", "refused"}
  BY <1>3 DEF MayAsk
<1> QED
  BY <1>1, <1>4, FailuresStay

(* A new call goes one of three ways, by how its shim runs.                 *)
LEMMA MakeCallKeeps ==
  ASSUME CallsInv, NEW w \in Windows, MakeCall(w)
  PROVE  CallsInv'
<1>1. /\ WindowsTyped /\ HubTyped /\ ModesFit /\ HubFits /\ QueuesFit /\ CallsFine /\ InitializedOnce
  BY DEF CallsInv
<1>2. PICK n : n = asked[w] + 1
  OBVIOUS
<1>3. PICK c : c = Call(w, n)
  OBVIOUS
<1>4. /\ ownerMode[w] # "gone" /\ n \in DOMAIN plan[w] /\ MayAsk(w, n)
      /\ asked' = [asked EXCEPT ![w] = n]
      /\ UNCHANGED <<plan, ownerMode, fromHub, hub, attached, routes, promotion>>
  BY <1>2 DEF MakeCall
<1>5. /\ c \in Calls /\ c.by = w /\ c.n = n /\ n \in Nat /\ n <= Len(plan[w]) /\ asked[w] <= n
      /\ heard[w][n] = "no" /\ ~Placed(c) /\ n \notin clientPending[w] /\ c \notin given
  BY <1>2, <1>3, <1>4, NewCallIs
<1>6. /\ asked' \in [Windows -> Nat] /\ \A v \in Windows : asked[v] <= asked'[v] /\ asked'[v] <= Len(plan[v])
      /\ asked'[w] = n /\ \A v \in Windows : v # w => asked'[v] = asked[v]
  BY <1>1, <1>2, <1>4, AskedTyped
<1>7. n \notin ToSet(clientInput[w]) /\ n \notin ToSet(toHub[w])
  BY <1>5 DEF Placed, InInput, OnWayIn
<1>8. ~AtChild(c) /\ c \notin waiting /\ ~OnWayBack(c)
  BY <1>5 DEF Placed
<1>9. (\A d \in Calls : heard[d.by][d.n] # "no" => heard'[d.by][d.n] = heard[d.by][d.n]) =>
        \A v \in Windows : \A m \in DOMAIN plan'[v] : m <= asked'[v] /\ plan'[v][m] = "initialize" =>
          \A k \in 1..(m - 1) : heard'[v][k] \in {"uncertain", "refused"}
  BY <1>2, <1>4, MayAskFit
<1>10. Calls' = Calls
  BY <1>4 DEF Calls
<1>11. CASE /\ ownerMode[w] = "client" /\ SendToHub(w, <<n>>)
            /\ UNCHANGED <<heard, clientInput, handshakeVars, childVarsOfHub>>
  <2>1. UNCHANGED <<heard, clientInput, handshake, initializeForwarded, waiting, atChild, given, repeated, initializes>>
    BY <1>11 DEF handshakeVars, childVarsOfHub
  <2>2. <<n>> \in Seq(Nat) /\ ToSet(<<n>>) = {n} /\ Distinct(<<n>>)
    BY <1>5 DEF ToSet, Distinct
  <2>3. /\ toHub' \in [Windows -> Seq(Nat)] /\ clientPending' \in [Windows -> SUBSET Nat]
        /\ hasInitialized' \in [Windows -> BOOLEAN]
        /\ Distinct(toHub'[w]) /\ ToSet(toHub'[w]) = ToSet(toHub[w]) \cup {n}
        /\ clientPending'[w] = clientPending[w] \cup {n}
        /\ \A v \in Windows : v # w => toHub'[v] = toHub[v] /\ clientPending'[v] = clientPending[v]
    <3>1. ToSet(<<n>>) \cap ToSet(toHub[w]) = {}
      BY <1>7, <2>2
    <3> QED
      BY <1>1, <1>11, <2>2, <3>1, SendFit
  <2>4. WindowsTyped'
    BY <1>1, <1>4, <1>6, <2>1, <2>3 DEF WindowsTyped, Lines, Calls
  <2>5. HubTyped'
    BY <1>1, <1>4, <2>1 DEF HubTyped, Calls
  <2>6. ModesFit'
    BY <1>1, <1>4, <1>11, <2>1, <2>3 DEF ModesFit
  <2>7. HubFits'
    BY <1>1, <1>4, <2>1, HubStays
  <2>8. QueuesFit'
    <3> SUFFICES ASSUME NEW v \in Windows
                 PROVE  /\ Distinct(clientInput[v]) /\ Distinct(toHub'[v]) /\ Distinct(fromHub[v])
                        /\ ToSet(clientInput[v]) \cup ToSet(toHub'[v]) \cup clientPending'[v] \subseteq DOMAIN plan[v]
                        /\ \A k \in ToSet(fromHub[v]) : k.of.by = v
                        /\ \A j, k \in ToSet(fromHub[v]) : j.of = k.of => j = k
      BY <1>4, <2>1 DEF QueuesFit
    <3>1. CASE v = w
      BY <1>1, <1>4, <2>3, <3>1 DEF QueuesFit
    <3>2. CASE v # w
      BY <1>1, <2>3, <3>2 DEF QueuesFit
    <3> QED
      BY <3>1, <3>2
  <2>9. ASSUME NEW d \in Calls, d # c PROVE Fine(d)'
    <3>1. d.by \in Windows /\ asked[d.by] <= asked'[d.by] /\ Fine(d) /\ d = Call(d.by, d.n)
      BY <1>1, <1>6, CallBy DEF CallsFine
    <3>2. d.by = w => d.n # n
      BY <1>3, <2>9, <3>1
    <3>3. CallKept(d)
      BY <1>4, <2>1, <2>3, <3>1, <3>2 DEF CallKept, InInput, OnWayIn, OnWayBack, AtChild
    <3> QED
      BY <1>1, <1>4, <2>4, <3>1, <3>3, KeptFine
  <2>10. Fine(c)'
    <3>1. ~InInput(c)' /\ ~AtChild(c)' /\ c \notin waiting' /\ ~OnWayBack(c)' /\ c \notin given'
      BY <1>4, <1>5, <1>7, <1>8, <2>1 DEF InInput, AtChild, OnWayBack
    <3>2. heard'[c.by][c.n] = "no" /\ c.n <= asked'[c.by]
      BY <1>5, <1>6, <2>1
    <3> QED
      BY <3>1, <3>2 DEF Fine, Apart, Unanswered, GivenOnce
  <2>11. CallsFine'
    BY <1>1, <1>10, <2>1, <2>9, <2>10 DEF CallsFine
  <2>12. InitializedOnce'
    BY <1>1, <1>9, <2>1 DEF InitializedOnce
  <2> QED
    BY <2>4, <2>5, <2>6, <2>7, <2>8, <2>11, <2>12 DEF CallsInv
<1>12. CASE /\ ownerMode[w] \in {"client-reconnecting", "owner-recovering"}
            /\ clientInput' = [clientInput EXCEPT ![w] = Append(@, n)]
            /\ UNCHANGED <<heard, clientPending, hasInitialized, toHub, handshakeVars, childVarsOfHub>>
  <2>1. UNCHANGED <<heard, clientPending, hasInitialized, toHub, handshake, initializeForwarded, waiting,
                    atChild, given, repeated, initializes>>
    BY <1>12 DEF handshakeVars, childVarsOfHub
  <2>2. PICK q : q = Append(clientInput[w], n)
    OBVIOUS
  <2>3. q \in Seq(Nat) /\ ToSet(q) = ToSet(clientInput[w]) \cup {n} /\ Distinct(q)
    <3>1. clientInput[w] \in Seq(Nat) /\ Distinct(clientInput[w])
      BY <1>1 DEF WindowsTyped, QueuesFit
    <3> QED
      BY <1>5, <1>7, <2>2, <3>1, SeqAppend
  <2>4. /\ clientInput' \in [Windows -> Seq(Nat)] /\ clientInput'[w] = q
        /\ \A v \in Windows : v # w => clientInput'[v] = clientInput[v]
    BY <1>1, <1>12, <2>2, <2>3 DEF WindowsTyped
  <2>5. WindowsTyped'
    BY <1>1, <1>4, <1>6, <2>1, <2>4 DEF WindowsTyped, Lines, Calls
  <2>6. HubTyped'
    BY <1>1, <1>4, <2>1 DEF HubTyped, Calls
  <2>7. ModesFit'
    BY <1>1, <1>4, <1>12, <2>1, <2>4 DEF ModesFit
  <2>8. HubFits'
    BY <1>1, <1>4, <2>1, HubStays
  <2>9. QueuesFit'
    <3> SUFFICES ASSUME NEW v \in Windows
                 PROVE  /\ Distinct(clientInput'[v]) /\ Distinct(toHub[v]) /\ Distinct(fromHub[v])
                        /\ ToSet(clientInput'[v]) \cup ToSet(toHub[v]) \cup clientPending[v] \subseteq DOMAIN plan[v]
                        /\ \A k \in ToSet(fromHub[v]) : k.of.by = v
                        /\ \A j, k \in ToSet(fromHub[v]) : j.of = k.of => j = k
      BY <1>4, <2>1 DEF QueuesFit
    <3>1. CASE v = w
      BY <1>1, <1>4, <2>3, <2>4, <3>1 DEF QueuesFit
    <3>2. CASE v # w
      BY <1>1, <2>4, <3>2 DEF QueuesFit
    <3> QED
      BY <3>1, <3>2
  <2>10. ASSUME NEW d \in Calls, d # c PROVE Fine(d)'
    <3>1. d.by \in Windows /\ asked[d.by] <= asked'[d.by] /\ Fine(d) /\ d = Call(d.by, d.n)
      BY <1>1, <1>6, CallBy DEF CallsFine
    <3>2. d.by = w => d.n # n
      BY <1>3, <2>10, <3>1
    <3>3. CallKept(d)
      BY <1>4, <2>1, <2>3, <2>4, <3>1, <3>2 DEF CallKept, InInput, OnWayIn, OnWayBack, AtChild
    <3> QED
      BY <1>1, <1>4, <2>5, <3>1, <3>3, KeptFine
  <2>11. Fine(c)'
    <3>1. ~OnWayIn(c)' /\ ~AtChild(c)' /\ c \notin waiting' /\ ~OnWayBack(c)' /\ c \notin given'
      BY <1>4, <1>5, <1>7, <1>8, <2>1 DEF OnWayIn, AtChild, OnWayBack
    <3>2. heard'[c.by][c.n] = "no" /\ c.n <= asked'[c.by]
      BY <1>5, <1>6, <2>1
    <3> QED
      BY <3>1, <3>2 DEF Fine, Apart, Unanswered, GivenOnce
  <2>12. CallsFine'
    BY <1>1, <1>10, <2>1, <2>10, <2>11 DEF CallsFine
  <2>13. InitializedOnce'
    BY <1>1, <1>9, <2>1 DEF InitializedOnce
  <2> QED
    BY <2>5, <2>6, <2>7, <2>8, <2>9, <2>12, <2>13 DEF CallsInv
<1>13. CASE /\ ownerMode[w] = "owner" /\ OwnCalls({n})
            /\ UNCHANGED <<clientInput, clientPending, hasInitialized, toHub>>
  <2>1. w = hub /\ clientInput[w] = <<>> /\ toHub[w] = <<>> /\ fromHub[w] = <<>> /\ clientPending[w] = {}
        /\ promotion = "none" /\ hub # NoWindow
    BY <1>1, <1>13, AttachedCallsAssumption DEF ModesFit
  <2>2. NewCalls({n})
    BY <1>3, <1>4, <1>5, <1>6, <1>8, <2>1 DEF NewCalls
  <2>3. /\ ownerMode' = [ownerMode EXCEPT ![hub] = "owner"] /\ ownerMode \in [Windows -> Modes]
        /\ clientInput' = [clientInput EXCEPT ![hub] = <<>>]
    BY <1>1, <1>4, <1>13, <2>1 DEF WindowsTyped
  <2>4. OwnerGoesOn
    BY <1>4, <1>6, <1>13, <2>1, <2>3 DEF OwnerGoesOn
  <2>5. /\ WindowsTyped' /\ HubFits' /\ CallsFine'
        /\ given' \subseteq Calls /\ waiting' \subseteq Calls /\ handshake' \in BOOLEAN
        /\ initializeForwarded' \in BOOLEAN /\ initializes' \in Nat
        /\ initializes' <= 1 /\ (initializes' > 0 => initializeForwarded')
        /\ \A d \in Calls : heard[d.by][d.n] # "no" => heard'[d.by][d.n] = heard[d.by][d.n]
    BY <1>13, <2>2, <2>4, OwnCallsFit
  <2>6. HubTyped'
    BY <1>1, <1>4, <1>10, <2>5 DEF HubTyped, CallsFine
  <2>7. ModesFit'
    BY <1>1, <1>4, <1>13, <2>1 DEF ModesFit
  <2>8. QueuesFit'
    BY <1>1, <1>4, <1>13 DEF QueuesFit
  <2>9. InitializedOnce'
    BY <1>9, <2>5 DEF InitializedOnce
  <2> QED
    BY <2>5, <2>6, <2>7, <2>8, <2>9 DEF CallsInv
<1> QED
  BY <1>2, <1>11, <1>12, <1>13 DEF MakeCall

(* A new owner has in its input all the calls that go to its app-server.    *)
LEMMA BecomeOwnerKeeps ==
  ASSUME CallsInv, BecomeOwner
  PROVE  CallsInv'
<1>1. /\ WindowsTyped /\ HubTyped /\ ModesFit /\ HubFits /\ QueuesFit /\ CallsFine /\ InitializedOnce
  BY DEF CallsInv
<1>2. PICK ns : ns = ToSet(clientInput[hub])
  OBVIOUS
<1>3. /\ promotion = "done" /\ promotion' = "none"
      /\ ownerMode' = [ownerMode EXCEPT ![hub] = "owner"]
      /\ clientInput' = [clientInput EXCEPT ![hub] = <<>>]
      /\ OwnCalls(ns)
      /\ UNCHANGED <<plan, asked, clientPending, hasInitialized, toHub, fromHub, hub, attached, routes>>
  BY <1>2 DEF BecomeOwner
<1>4. hub \in Windows /\ ownerMode[hub] = "owner-recovering"
  <2>1. hub # NoWindow
    BY <1>1, <1>3 DEF ModesFit
  <2> QED
    BY <1>1, <1>3, <2>1 DEF HubTyped, ModesFit
<1>5. toHub[hub] = <<>> /\ fromHub[hub] = <<>> /\ clientPending[hub] = {}
  BY <1>1, <1>4 DEF ModesFit
<1>6. ns \subseteq DOMAIN plan[hub]
  BY <1>1, <1>2, <1>4 DEF QueuesFit
<1>7. \A n \in ns : /\ heard[hub][n] = "no" /\ n <= asked[hub] /\ n \in Nat
                    /\ Call(hub, n) \notin given \cup waiting /\ ~AtChild(Call(hub, n))
  <2> SUFFICES ASSUME NEW n \in ns
               PROVE  /\ heard[hub][n] = "no" /\ n <= asked[hub] /\ n \in Nat
                      /\ Call(hub, n) \notin given \cup waiting /\ ~AtChild(Call(hub, n))
    OBVIOUS
  <2>1. PICK c : c = Call(hub, n)
    OBVIOUS
  <2>2. c \in Calls /\ c.by = hub /\ c.n = n /\ n \in Nat
    BY <1>1, <1>4, <1>6, <2>1, CallIs
  <2>3. InInput(c)
    BY <1>2, <2>2 DEF InInput
  <2>4. heard[hub][n] = "no" /\ n <= asked[hub] /\ c \notin given
    BY <1>1, <2>2, <2>3 DEF CallsFine, Fine, Unanswered, GivenOnce, Placed
  <2>5. hub \notin attached
    BY <1>1, <1>4 DEF ModesFit
  <2>6. c \notin waiting /\ ~AtChild(c)
    BY <1>1, <1>4, <2>2, <2>5 DEF HubFits, OwnersCall, AtChild
  <2> QED
    BY <2>1, <2>2, <2>4, <2>6
<1>8. ASSUME NEW m \in ns, NEW n \in ns, plan[hub][m] = "initialize", plan[hub][n] = "initialize"
      PROVE  m = n
  <2>1. /\ m \in Nat /\ n \in Nat /\ 1 <= m /\ 1 <= n
    BY <1>1, <1>4, <1>6, CallIs
  <2>2. /\ \A k \in 1..(m - 1) : heard[hub][k] \in {"uncertain", "refused"}
        /\ \A k \in 1..(n - 1) : heard[hub][k] \in {"uncertain", "refused"}
    BY <1>1, <1>4, <1>6, <1>7, <1>8 DEF InitializedOnce
  <2>3. heard[hub][m] = "no" /\ heard[hub][n] = "no"
    BY <1>7
  <2>4. m \notin 1..(n - 1) /\ n \notin 1..(m - 1)
    BY <2>2, <2>3
  <2> QED
    BY <2>1, <2>4
<1>9. asked' = asked /\ asked \in [Windows -> Nat] /\ \A w \in Windows : asked[w] <= Len(plan[w])
  BY <1>1, <1>3 DEF WindowsTyped
<1>10. NewCalls(ns)
  BY <1>4, <1>6, <1>7, <1>8, <1>9 DEF NewCalls
<1>11. OwnerGoesOn
  BY <1>1, <1>3, <1>4, <1>5, <1>9 DEF OwnerGoesOn, WindowsTyped
<1>12. /\ WindowsTyped' /\ HubFits' /\ CallsFine'
       /\ given' \subseteq Calls /\ waiting' \subseteq Calls /\ handshake' \in BOOLEAN
       /\ initializeForwarded' \in BOOLEAN /\ initializes' \in Nat
       /\ initializes' <= 1 /\ (initializes' > 0 => initializeForwarded')
       /\ \A d \in Calls : heard[d.by][d.n] # "no" => heard'[d.by][d.n] = heard[d.by][d.n]
  BY <1>3, <1>10, <1>11, OwnCallsFit
<1>13. Calls' = Calls
  BY <1>3 DEF Calls
<1>14. HubTyped'
  BY <1>1, <1>3, <1>12, <1>13 DEF HubTyped, CallsFine
<1>15. /\ ownerMode'[hub] = "owner" /\ clientInput'[hub] = <<>>
       /\ \A v \in Windows : v # hub => ownerMode'[v] = ownerMode[v] /\ clientInput'[v] = clientInput[v]
  BY <1>1, <1>3, <1>4 DEF WindowsTyped
<1>16. ModesFit'
  <2>1. hub \notin attached
    BY <1>1, <1>4 DEF ModesFit
  <2>2. hub # NoWindow
    BY <1>4, AttachedCallsAssumption
  <2>3. \A v \in Windows : ownerMode'[v] \in {"owner", "owner-recovering"} <=> v = hub'
    BY <1>1, <1>3, <1>15 DEF ModesFit
  <2>4. \A v \in attached : ownerMode'[v] \in {"client", "gone"} /\ clientInput'[v] = <<>>
    BY <1>1, <1>15, <2>1 DEF ModesFit, HubTyped
  <2>5. \A v \in Windows : ownerMode'[v] \in {"owner", "owner-recovering", "client-reconnecting"} =>
          toHub'[v] = <<>> /\ fromHub'[v] = <<>> /\ clientPending'[v] = {}
    BY <1>1, <1>3, <1>5, <1>15 DEF ModesFit
  <2>6. \A v \in Windows : ownerMode'[v] \in {"client", "owner"} => clientInput'[v] = <<>>
    BY <1>1, <1>15 DEF ModesFit
  <2> QED
    BY <1>3, <1>15, <2>2, <2>3, <2>4, <2>5, <2>6 DEF ModesFit
<1>17. QueuesFit'
  <2> SUFFICES ASSUME NEW v \in Windows
               PROVE  Distinct(clientInput'[v]) /\ ToSet(clientInput'[v]) \subseteq DOMAIN plan[v]
    BY <1>1, <1>3 DEF QueuesFit
  <2>1. ToSet(<<>>) = {} /\ Distinct(<<>>)
    BY DEF ToSet, Distinct
  <2>2. CASE v = hub
    BY <1>15, <2>1, <2>2
  <2>3. CASE v # hub
    BY <1>1, <1>15, <2>3 DEF QueuesFit
  <2> QED
    BY <2>2, <2>3
<1>18. InitializedOnce'
  <2>1. \A v \in Windows : \A m \in DOMAIN plan'[v] : m <= asked'[v] /\ plan'[v][m] = "initialize" =>
          \A n \in 1..(m - 1) : heard'[v][n] \in {"uncertain", "refused"}
    BY <1>1, <1>3, <1>9, <1>12, FailuresStay
  <2> QED
    BY <1>12, <2>1 DEF InitializedOnce
<1> QED
  BY <1>12, <1>14, <1>16, <1>17, <1>18 DEF CallsInv
-----------------------------------------------------------------------------
(* Steps of the owner.                                                         *)
LEMMA LinesFinite ==
  ASSUME WindowsTyped, NEW w \in Windows, NEW lines, \A l \in lines : l.n \in DOMAIN plan[w],
         \A k, l \in lines : k.n = l.n => k = l
  PROVE  IsFiniteSet(lines)
<1> DEFINE f == [l \in lines |-> l.n]
<1>1. plan[w] \in Seq(CallKinds) /\ DOMAIN plan[w] = 1..Len(plan[w]) /\ Len(plan[w]) \in Nat
  BY AttachedCallsAssumption DEF WindowsTyped
<1>2. IsFiniteSet(DOMAIN plan[w])
  BY <1>1, FS_Interval
<1>3. f \in [lines -> DOMAIN plan[w]] /\ \A a, b \in DOMAIN f : f[a] = f[b] => a = b
  OBVIOUS
<1> HIDE DEF f
<1>4. f \in Injection(lines, DOMAIN plan[w])
  BY <1>3 DEF Injection, IsInjective
<1> QED
  BY <1>2, <1>4, FS_Injection

(* The owner moves a call from the way in to its app-server, or answers it. *)
LEMMA HubReadsKeeps ==
  ASSUME CallsInv, NEW w \in Windows, HubReads(w)
  PROVE  CallsInv'
<1>0. PICK c : c = Call(w, Head(toHub[w]))
  OBVIOUS
<1> DEFINE isInit == Kind(c) = "initialize"
           said == IF isInit /\ handshake THEN {AnswerTo(c)}
                   ELSE IF isInit /\ Cardinality({v \in waiting : v.by # hub}) >= MaxAttached THEN {Refusal(c)}
                   ELSE IF isInit /\ initializeForwarded THEN {}
                   ELSE IF Full THEN {Refusal(c)} ELSE {}
           waits == isInit /\ said = {} /\ initializeForwarded
           goes == said = {} /\ ~waits
           calls == IF goes THEN {c} ELSE {}
           lines == [v \in Windows |-> IF v = w THEN said ELSE {}]
<1>1. /\ WindowsTyped /\ HubTyped /\ ModesFit /\ HubFits /\ QueuesFit /\ CallsFine /\ InitializedOnce
  BY DEF CallsInv
<1>2. /\ hub # NoWindow /\ w \in attached /\ toHub[w] # <<>>
      /\ toHub' = [toHub EXCEPT ![w] = Tail(@)]
      /\ ToAttached(lines)
      /\ waiting' = waiting \cup (IF waits THEN {c} ELSE {})
      /\ routes' = routes \cup (IF goes THEN {[id |-> InternalId(c), to |-> w, n |-> c.n]} ELSE {})
      /\ initializeForwarded' = (initializeForwarded \/ (isInit /\ goes))
      /\ Forward(calls)
      /\ UNCHANGED <<plan, asked, heard, ownerMode, clientPending, clientInput, hasInitialized,
                     hub, attached, handshake, promotion>>
  BY <1>0 DEF HubReads
<1>3. /\ said = {} \/ said = {AnswerTo(c)} \/ said = {Refusal(c)}
      /\ waits => ~goes /\ said = {}
      /\ goes => said = {}
      /\ isInit /\ goes => ~initializeForwarded
      /\ calls = (IF goes THEN {c} ELSE {})
      /\ isInit <=> Kind(c) = "initialize"
      /\ \A v \in Windows : lines[v] = IF v = w THEN said ELSE {}
  OBVIOUS
<1>4. said \in SUBSET {AnswerTo(c), Refusal(c)} /\ waits \in BOOLEAN /\ goes \in BOOLEAN
      /\ isInit \in BOOLEAN
  BY <1>3
<1> HIDE DEF isInit, said, waits, goes, calls, lines
<1>5. PICK q : q = toHub[w]
  OBVIOUS
<1>6. q \in Seq(Nat) /\ q # <<>> /\ Distinct(q) /\ ToSet(q) \subseteq DOMAIN plan[w]
  BY <1>1, <1>2, <1>5 DEF WindowsTyped, QueuesFit
<1>7. PICK n : n = Head(q)
  OBVIOUS
<1>8. n \in ToSet(q) /\ Tail(q) \in Seq(Nat) /\ ToSet(Tail(q)) \subseteq ToSet(q) /\ Distinct(Tail(q))
      /\ n \notin ToSet(Tail(q))
  BY <1>6, <1>7, SeqTail
<1>9. c = Call(w, n) /\ c \in Calls /\ c.by = w /\ c.n = n /\ n \in Nat
  <2>1. c = Call(w, n)
    BY <1>0, <1>5, <1>7
  <2> QED
    BY <1>1, <1>6, <1>8, <2>1, CallIs
<1>10. OnWayIn(c)
  BY <1>5, <1>8, <1>9 DEF OnWayIn
<1>11. c \notin waiting /\ ~AtChild(c) /\ ~OnWayBack(c) /\ c.n <= asked[w] /\ heard[w][c.n] = "no" /\ c \notin given
  BY <1>1, <1>9, <1>10 DEF CallsFine, Fine, Apart, Unanswered, GivenOnce, Placed
<1>12. w # hub /\ hub \in Windows /\ InternalId(c) = <<w, c.n>>
  <2>1. w # hub /\ hub \in Windows
    BY <1>1, <1>2 DEF ModesFit, HubTyped
  <2> QED
    BY <1>9, <2>1 DEF InternalId
<1>13. toHub' = [toHub EXCEPT ![w] = Tail(q)] /\ toHub'[w] = Tail(q)
       /\ \A v \in Windows : v # w => toHub'[v] = toHub[v]
  BY <1>1, <1>2, <1>5 DEF WindowsTyped
<1>14. BackFit(lines)
  <2> SUFFICES ASSUME NEW v \in attached
               PROVE  /\ IsFiniteSet(lines[v]) /\ lines[v] \subseteq Lines
                      /\ \A l \in lines[v] : l.of.by = v /\ ~OnWayBack(l.of)
                      /\ \A k, l \in lines[v] : k.of = l.of => k = l
    BY DEF BackFit
  <2>1. v \in Windows
    BY <1>1 DEF HubTyped
  <2>2. CASE v # w \/ said = {}
    <3>1. lines[v] = {}
      BY <1>3, <2>1, <2>2
    <3> QED
      BY <3>1, FS_EmptySet
  <2>3. CASE v = w /\ said # {}
    <3>1. PICK l \in {AnswerTo(c), Refusal(c)} : lines[v] = {l}
      BY <1>3, <2>1, <2>3
    <3>2. l \in Lines /\ l.of = c
      BY <1>9 DEF Lines, AnswerTo, Refusal
    <3> QED
      BY <1>9, <1>11, <2>3, <3>1, <3>2, FS_Singleton
  <2> QED
    BY <2>2, <2>3
<1>15. /\ fromHub' \in [Windows -> Seq(Lines)]
       /\ \A v \in Windows \ attached : fromHub'[v] = fromHub[v]
       /\ \A v \in Windows :
            /\ Distinct(fromHub'[v])
            /\ \A l \in ToSet(fromHub'[v]) : l.of.by = v
            /\ \A k, l \in ToSet(fromHub'[v]) : k.of = l.of => k = l
       /\ \A d \in Calls : OnWayBack(d)' =>
            OnWayBack(d) \/ (d.by \in attached /\ \E l \in lines[d.by] : l.of = d)
  BY <1>1, <1>2, <1>14, AttachedHear
<1>16. \A d \in Calls : OnWayBack(d)' => OnWayBack(d) \/ (d = c /\ said # {})
  <2> SUFFICES ASSUME NEW d \in Calls, OnWayBack(d)', ~OnWayBack(d)
               PROVE  d = c /\ said # {}
    OBVIOUS
  <2>1. PICK l \in lines[d.by] : l.of = d
    BY <1>15
  <2>2. d.by \in Windows
    BY CallBy
  <2>3. l \in said
    BY <1>3, <2>1, <2>2
  <2> QED
    BY <1>3, <2>1, <2>3 DEF AnswerTo, Refusal
<1>17. /\ repeated' = {} /\ given' \subseteq Calls
       /\ \A d \in Calls : AtChild(d)' <=> AtChild(d) \/ d \in calls
       /\ \A d \in given' : d \notin given => d \in calls /\ Kind(d) # "read"
       /\ \A r, s \in atChild' : r.id = s.id => r = s
       /\ \A r \in atChild' : r \in atChild \/ (r.call \in calls /\ r.id = InternalId(r.call))
  <2>1. calls \subseteq Calls /\ \A d \in calls : d \notin given /\ ~AtChild(d)
    BY <1>3, <1>9, <1>11
  <2> QED
    BY <1>1, <1>2, <2>1, ForwardFit
<1>18. /\ initializes' \in Nat /\ initializes' <= 1 /\ (initializes' > 0 => initializeForwarded')
  <2>1. initializes \in Nat /\ initializes <= 1 /\ (initializes > 0 => initializeForwarded)
    BY <1>1 DEF HubTyped, InitializedOnce
  <2>2. PICK k : k = {d \in calls : Kind(d) = "initialize"}
    OBVIOUS
  <2>3. initializes' = initializes + Cardinality(k)
    BY <1>2, <2>2 DEF Forward
  <2>4. CASE isInit /\ goes
    <3>1. k = {c}
      BY <1>3, <2>2, <2>4
    <3>2. Cardinality(k) = 1
      BY <3>1, FS_Singleton
    <3>3. initializes = 0
      BY <1>3, <2>1, <2>4
    <3>4. initializes' = 1
      BY <2>3, <3>2, <3>3
    <3>5. initializeForwarded' = TRUE
      BY <1>2, <2>4
    <3> QED
      BY <3>4, <3>5
  <2>5. CASE ~(isInit /\ goes)
    <3>1. k = {}
      BY <1>3, <2>2, <2>5
    <3>2. Cardinality(k) = 0
      BY <3>1, FS_EmptySet
    <3>3. initializes' = initializes
      BY <2>1, <2>3, <3>2
    <3>4. initializeForwarded => initializeForwarded'
      BY <1>2
    <3> QED
      BY <2>1, <3>3, <3>4
  <2> QED
    BY <2>4, <2>5
<1>19. WindowsTyped'
  <2>1. toHub' \in [Windows -> Seq(Nat)]
    BY <1>1, <1>8, <1>13 DEF WindowsTyped
  <2> QED
    BY <1>1, <1>2, <1>15, <2>1 DEF WindowsTyped, Lines, Calls
<1>20. Calls' = Calls
  BY <1>2 DEF Calls
<1>21. HubTyped'
  <2>1. waiting' \subseteq Calls /\ initializeForwarded' \in BOOLEAN
    BY <1>1, <1>2, <1>9 DEF HubTyped
  <2> QED
    BY <1>1, <1>2, <1>17, <1>18, <1>20, <2>1 DEF HubTyped
<1>22. ModesFit'
  <2>1. ownerMode[w] \in {"client", "gone"}
    BY <1>1, <1>2 DEF ModesFit
  <2>2. \A v \in Windows : ownerMode[v] \in {"owner", "owner-recovering", "client-reconnecting"} =>
          toHub'[v] = <<>> /\ fromHub'[v] = <<>>
    BY <1>1, <1>13, <1>15, <2>1 DEF ModesFit
  <2> QED
    BY <1>1, <1>2, <2>2 DEF ModesFit
<1>23. HubFits'
  <2>1. \A d : OwnersCall(d)' <=> OwnersCall(d)
    BY <1>2 DEF OwnersCall
  <2>2. \A d : InternalId(d)' = InternalId(d)
    BY <1>2 DEF InternalId
  <2>3. \A d \in waiting' : OwnersCall(d)' \/ d.by \in attached'
    BY <1>1, <1>2, <1>9, <2>1 DEF HubFits
  <2>4. ASSUME NEW r \in atChild', r.id # PromotionId
        PROVE  AtHubFits(r)'
    <3>1. CASE r \in atChild
      BY <1>1, <1>2, <1>20, <2>1, <2>2, <2>4, <3>1 DEF HubFits, AtHubFits
    <3>2. CASE r.call \in calls /\ r.id = InternalId(r.call)
      <4>1. r.call = c
        BY <1>3, <3>2
      <4> QED
        BY <1>2, <1>9, <1>20, <2>2, <3>2, <4>1 DEF AtHubFits
    <3> QED
      BY <1>17, <3>1, <3>2
  <2>5. ASSUME NEW r \in atChild', r.id = PromotionId
        PROVE  promotion' = "asked"
    <3>1. r \in atChild
      <4>1. c \in Calls /\ (calls = {} \/ calls = {c})
        BY <1>3, <1>9
      <4>2. InternalId(c) # PromotionId
        BY <4>1, IdsApart
      <4> QED
        BY <1>17, <2>5, <4>1, <4>2
    <3> QED
      BY <1>1, <1>2, <2>5, <3>1 DEF HubFits
  <2>6. \A t \in routes' : t.to \in attached' /\ t.id = <<t.to, t.n>>
    <3>1. PICK e : e = [id |-> InternalId(c), to |-> w, n |-> c.n]
      OBVIOUS
    <3>2. e.to = w /\ e.id = <<e.to, e.n>>
      BY <1>12, <3>1
    <3> QED
      BY <1>1, <1>2, <3>1, <3>2 DEF HubFits
  <2> QED
    BY <1>17, <2>3, <2>4, <2>5, <2>6 DEF HubFits, AtHubFits
<1>24. QueuesFit'
  <2> SUFFICES ASSUME NEW v \in Windows
               PROVE  Distinct(toHub'[v]) /\ ToSet(toHub'[v]) \subseteq DOMAIN plan[v]
    BY <1>1, <1>2, <1>15 DEF QueuesFit
  <2>1. CASE v = w
    BY <1>6, <1>8, <1>13, <2>1
  <2>2. CASE v # w
    BY <1>1, <1>13, <2>2 DEF QueuesFit
  <2> QED
    BY <2>1, <2>2
<1>25. ASSUME NEW d \in Calls, d # c PROVE Fine(d)'
  <2>1. d.by \in Windows /\ asked[d.by] <= asked'[d.by] /\ Fine(d)
    BY <1>1, <1>2, CallBy DEF WindowsTyped, CallsFine
  <2>2. OnWayIn(d)' => OnWayIn(d)
    BY <1>5, <1>8, <1>13, <2>1 DEF OnWayIn
  <2>3. (OnWayBack(d)' => OnWayBack(d)) /\ (AtChild(d)' => AtChild(d)) /\ (d \in waiting' => d \in waiting)
        /\ (d \in given' => d \in given)
    BY <1>2, <1>3, <1>16, <1>17, <1>25
  <2>4. CallKept(d)
    BY <1>2, <2>1, <2>2, <2>3 DEF CallKept, InInput
  <2> QED
    BY <1>1, <1>2, <1>19, <2>1, <2>4, KeptFine
<1>26. Fine(c)'
  <2>1. ~OnWayIn(c)'
    BY <1>8, <1>9, <1>13 DEF OnWayIn
  <2>2. (c \in waiting' => waits) /\ (AtChild(c)' => goes) /\ (OnWayBack(c)' => said # {})
    BY <1>2, <1>3, <1>9, <1>11, <1>16, <1>17
  <2>3. Apart(c)'
    BY <1>3, <2>1, <2>2 DEF Apart
  <2>4. heard'[c.by][c.n] = "no" /\ c.n <= asked'[c.by]
    BY <1>2, <1>9, <1>11
  <2>5. c \in given' => Kind(c)' # "read" /\ ~InInput(c)'
    <3>1. InInput(c)' <=> InInput(c)
      BY <1>2 DEF InInput
    <3>2. c \in given' => calls # {} /\ Kind(c)' # "read"
      BY <1>2, <1>11, <1>17 DEF Kind
    <3>3. ~InInput(c)
      BY <1>1, <1>2, <1>9 DEF ModesFit, InInput, ToSet
    <3> QED
      BY <3>1, <3>2, <3>3
  <2> QED
    BY <2>1, <2>3, <2>4, <2>5 DEF Fine, Unanswered, GivenOnce
<1>27. CallsFine'
  BY <1>17, <1>20, <1>25, <1>26 DEF CallsFine
<1>28. InitializedOnce'
  BY <1>1, <1>2, <1>18 DEF InitializedOnce
<1> QED
  BY <1>19, <1>21, <1>22, <1>23, <1>24, <1>27, <1>28 DEF CallsInv
(* What goes back on a route, or to the owner, is an answer to the call itself. *)
LEMMA RouteFits ==
  ASSUME CallsInv, NEW r \in atChild, r.id # PromotionId, NEW v \in Windows
  PROVE  BackOnRoute(r, v) \subseteq IF r.call.by = v THEN {AnswerTo(r.call)} ELSE {}
<1>1. r.call \in Calls /\ r.id = InternalId(r.call)
  BY DEF CallsInv, HubFits
<1>2. PICK c \in Calls : c = r.call
  BY <1>1
<1> SUFFICES ASSUME NEW l \in BackOnRoute(r, v)
             PROVE  l = AnswerTo(c) /\ c.by = v
  BY <1>2
<1>3. CASE \E t \in routes : t.id = r.id /\ t.to = v /\ l = [n |-> t.n, of |-> r.call, says |-> "answer"]
  <2>1. PICK t \in routes : t.id = r.id /\ t.to = v /\ l = [n |-> t.n, of |-> r.call, says |-> "answer"]
    BY <1>3
  <2>2. t.id = <<t.to, t.n>>
    BY DEF CallsInv, HubFits
  <2>3. InternalId(c) = <<v, t.n>>
    BY <1>1, <1>2, <2>1, <2>2
  <2>4. \A x, m : InternalId(c) = <<x, m>> => c.by = x /\ m = c.n
    BY <1>2, IdsApart
  <2>5. c.by = v /\ t.n = c.n
    BY <2>3, <2>4
  <2> QED
    BY <1>2, <2>1, <2>5 DEF AnswerTo
<1>4. CASE v = hub /\ \E n \in Ns : <<n>> = r.id /\ l = [n |-> n, of |-> r.call, says |-> "answer"]
  <2>1. PICK n \in Ns : v = hub /\ <<n>> = r.id /\ l = [n |-> n, of |-> r.call, says |-> "answer"]
    BY <1>4
  <2>2. c.by = v /\ n = c.n
    BY <1>1, <1>2, <2>1, IdsApart
  <2> QED
    BY <1>2, <2>1, <2>2 DEF AnswerTo
<1> QED
  BY <1>3, <1>4 DEF BackOnRoute

(* An answer leaves the app-server for one window, or ends the handshake.   *)
LEMMA ChildAnswersKeeps ==
  ASSUME CallsInv, NEW r \in atChild, ChildAnswers(r)
  PROVE  CallsInv'
<1> DEFINE lines == [v \in Windows |->
             BackOnRoute(r, v) \cup {AnswerTo(c) : c \in {c \in Flushed(r) : c.by = v}}]
<1>1. /\ WindowsTyped /\ HubTyped /\ ModesFit /\ HubFits /\ QueuesFit /\ CallsFine /\ InitializedOnce
  BY DEF CallsInv
<1>2. /\ r.id # PromotionId
      /\ atChild' = atChild \ {r}
      /\ handshake' = (handshake \/ r.id \in initializeRequests)
      /\ waiting' = waiting \ Flushed(r)
      /\ routes' = {t \in routes : t.id # r.id}
      /\ ToOwnWindow(lines[hub]) /\ ToAttached(lines)
      /\ UNCHANGED <<plan, asked, ownerMode, clientPending, clientInput, hasInitialized, toHub,
                     hub, attached, initializeForwarded, promotion, given, repeated, initializes>>
  BY DEF ChildAnswers
<1>3. PICK F : F = Flushed(r)
  OBVIOUS
<1>4. F \subseteq waiting
  BY <1>3 DEF Flushed
<1>5. \A v \in Windows : lines[v] = BackOnRoute(r, v) \cup {AnswerTo(c) : c \in {c \in F : c.by = v}}
  BY <1>3
<1>6. PICK L : L = lines
  OBVIOUS
<1> HIDE DEF lines
<1>7. PICK a : a = r.call
  OBVIOUS
<1>8. a \in Calls /\ r.id = InternalId(a) /\ AtChild(a)
  BY <1>1, <1>2, <1>7 DEF HubFits, AtChild
<1>9. PICK A : A = F \cup {a}
  OBVIOUS
<1>10. A \subseteq Calls /\ \A c \in A : c.by \in Windows /\ c.n \in DOMAIN plan[c.by] /\ c.n \in Nat /\ c = Call(c.by, c.n)
  BY <1>1, <1>4, <1>8, <1>9, CallBy DEF HubTyped
<1>11. \A v \in Windows : \A l \in L[v] : \E c \in A : c.by = v /\ l = AnswerTo(c)
  BY <1>2, <1>5, <1>6, <1>7, <1>9, RouteFits
<1>12. \A c \in A : heard[c.by][c.n] = "no" /\ c.n <= asked[c.by] /\ ~OnWayBack(c) /\ ~OnWayIn(c)
                    /\ (OwnersCall(c) \/ c.by \in attached \/ ownerMode[c.by] = "gone")
  <2> SUFFICES ASSUME NEW c \in A
               PROVE  heard[c.by][c.n] = "no" /\ c.n <= asked[c.by] /\ ~OnWayBack(c) /\ ~OnWayIn(c)
                      /\ (OwnersCall(c) \/ c.by \in attached \/ ownerMode[c.by] = "gone")
    OBVIOUS
  <2>1. c \in Calls /\ (c \in waiting \/ AtChild(c))
    BY <1>4, <1>8, <1>9, <1>10
  <2>2. Fine(c)
    BY <1>1, <2>1 DEF CallsFine
  <2>3. OwnersCall(c) \/ c.by \in attached \/ ownerMode[c.by] = "gone"
    BY <1>1, <2>1 DEF HubFits, AtChild
  <2> QED
    BY <2>1, <2>2, <2>3 DEF Fine, Apart, Unanswered, Placed
<1>13. a \notin waiting
  BY <1>1, <1>8 DEF CallsFine, Fine, Apart
<1>14. \A v \in Windows : \A l \in L[v] :
         /\ l.of \in A /\ l.of.by = v /\ l.n = l.of.n /\ l.says = "answer" /\ l \in Lines
  BY <1>10, <1>11 DEF AnswerTo, Lines
<1>15. \A v \in Windows : \A k, l \in L[v] : k.of = l.of => k = l
  BY <1>11 DEF AnswerTo
<1>16. \A v \in Windows : \A k, l \in L[v] : k.n = l.n => k = l
  <2> SUFFICES ASSUME NEW v \in Windows, NEW k \in L[v], NEW l \in L[v], k.n = l.n
               PROVE  k.of = l.of
    BY <1>15
  <2>1. k.of = Call(v, k.n) /\ l.of = Call(v, l.n)
    BY <1>10, <1>14
  <2> QED
    BY <2>1
<1>17. hub \in Windows /\ hub # NoWindow
  BY <1>1 DEF ModesFit, HubTyped
<1>18. BackFit(L)
  <2> SUFFICES ASSUME NEW v \in attached
               PROVE  /\ IsFiniteSet(L[v]) /\ L[v] \subseteq Lines
                      /\ \A l \in L[v] : l.of.by = v /\ ~OnWayBack(l.of)
                      /\ \A k, l \in L[v] : k.of = l.of => k = l
    BY DEF BackFit
  <2>1. v \in Windows
    BY <1>1 DEF HubTyped
  <2>2. IsFiniteSet(L[v])
    <3>1. \A l \in L[v] : l.n \in DOMAIN plan[v]
      BY <1>10, <1>14, <2>1
    <3> QED
      BY <1>1, <1>16, <2>1, <3>1, LinesFinite
  <2> QED
    BY <1>12, <1>14, <1>15, <2>1, <2>2
<1>19. /\ fromHub' \in [Windows -> Seq(Lines)]
       /\ \A v \in Windows \ attached : fromHub'[v] = fromHub[v]
       /\ \A v \in Windows :
            /\ Distinct(fromHub'[v])
            /\ \A l \in ToSet(fromHub'[v]) : l.of.by = v
            /\ \A k, l \in ToSet(fromHub'[v]) : k.of = l.of => k = l
       /\ \A d \in Calls : OnWayBack(d)' =>
            OnWayBack(d) \/ (d.by \in attached /\ \E l \in L[d.by] : l.of = d)
  <2>1. ToAttached(L)
    BY <1>2, <1>6
  <2> QED
    BY <1>1, <1>2, <1>18, <2>1, AttachedHear
<1>20. \A d \in Calls : OnWayBack(d)' => OnWayBack(d) \/ d \in A
  <2> SUFFICES ASSUME NEW d \in Calls, OnWayBack(d)', ~OnWayBack(d)
               PROVE  d \in A
    OBVIOUS
  <2>1. d.by \in Windows
    BY CallBy
  <2> QED
    BY <1>14, <1>19, <2>1
<1>21. LinesFit(hub, L[hub])
  BY <1>10, <1>12, <1>14, <1>16, <1>17 DEF LinesFit, Outcomes
<1>22. PICK h : h = Heard(hub, L[hub])
  OBVIOUS
<1>23. /\ h \in [DOMAIN plan[hub] -> Outcomes]
       /\ \A n \in DOMAIN plan[hub] : (\A k \in L[hub] : k.n # n) \/ heard[hub][n] # "no" =>
            h[n] = heard[hub][n]
  BY <1>1, <1>17, <1>21, <1>22, HeardFit
<1>24. heard' = [heard EXCEPT ![hub] = h]
  BY <1>2, <1>6, <1>22 DEF ToOwnWindow
<1>25. heard'[hub] = h /\ \A v \in Windows : v # hub => heard'[v] = heard[v]
  BY <1>1, <1>17, <1>24 DEF WindowsTyped
<1>26. \A d \in Calls : d.by # hub \/ d \notin A \/ heard[d.by][d.n] # "no" =>
         heard'[d.by][d.n] = heard[d.by][d.n]
  <2> SUFFICES ASSUME NEW d \in Calls, d.by # hub \/ d \notin A \/ heard[d.by][d.n] # "no"
               PROVE  heard'[d.by][d.n] = heard[d.by][d.n]
    OBVIOUS
  <2>1. d.by \in Windows /\ d.n \in DOMAIN plan[d.by] /\ d = Call(d.by, d.n)
    BY CallBy
  <2>2. CASE d.by # hub
    BY <1>25, <2>1, <2>2
  <2>3. CASE d.by = hub
    <3>1. (\A k \in L[hub] : k.n # d.n) \/ heard[hub][d.n] # "no"
      <4> SUFFICES ASSUME NEW k \in L[hub], k.n = d.n, heard[hub][d.n] = "no"
                   PROVE  FALSE
        OBVIOUS
      <4>1. k.of \in A /\ k.of = Call(hub, d.n)
        BY <1>10, <1>14, <1>17
      <4> QED
        BY <2>1, <2>3, <4>1
    <3> QED
      BY <1>23, <1>25, <2>1, <2>3, <3>1
  <2> QED
    BY <2>2, <2>3
<1>27. WindowsTyped'
  <2>1. DOMAIN heard' = Windows /\ \A v \in Windows : heard'[v] \in [DOMAIN plan[v] -> Outcomes]
    BY <1>1, <1>23, <1>24, <1>25 DEF WindowsTyped
  <2> QED
    BY <1>1, <1>2, <1>19, <2>1 DEF WindowsTyped, Lines, Calls
<1>28. Calls' = Calls
  BY <1>2 DEF Calls
<1>29. HubTyped'
  BY <1>1, <1>2, <1>28 DEF HubTyped
<1>30. ModesFit'
  <2>1. \A v \in Windows : ownerMode[v] \in {"owner", "owner-recovering", "client-reconnecting"} => fromHub'[v] = <<>>
    BY <1>1, <1>19 DEF ModesFit
  <2> QED
    BY <1>1, <1>2, <1>17, <2>1 DEF ModesFit
<1>31. HubFits'
  <2>1. \A d : (OwnersCall(d)' <=> OwnersCall(d)) /\ InternalId(d)' = InternalId(d)
    BY <1>2 DEF OwnersCall, InternalId
  <2>2. \A d \in waiting' : OwnersCall(d)' \/ d.by \in attached'
    BY <1>1, <1>2, <2>1 DEF HubFits
  <2>3. \A s \in atChild' : s.id # PromotionId => AtHubFits(s)'
    BY <1>1, <1>2, <1>28, <2>1 DEF HubFits, AtHubFits
  <2> QED
    BY <1>1, <1>2, <2>2, <2>3 DEF HubFits, AtHubFits
<1>32. QueuesFit'
  BY <1>1, <1>2, <1>19 DEF QueuesFit
<1>33. ~AtChild(a)'
  <2> SUFFICES ASSUME NEW s \in atChild', s.id # PromotionId, s.call = a
               PROVE  FALSE
    BY DEF AtChild, PromotionId
  <2>1. s \in atChild /\ s # r
    BY <1>2
  <2>2. s.id = InternalId(a)
    BY <1>1, <2>1 DEF HubFits
  <2> QED
    BY <1>1, <1>8, <2>1, <2>2 DEF HubFits
<1>34. \A d \in Calls : AtChild(d)' => AtChild(d)
  BY <1>2 DEF AtChild, PromotionId
<1>35. ASSUME NEW d \in Calls, d \notin A PROVE Fine(d)'
  <2>1. d.by \in Windows /\ asked[d.by] <= asked'[d.by] /\ Fine(d)
    BY <1>1, <1>2, CallBy DEF WindowsTyped, CallsFine
  <2>2. CallKept(d)
    BY <1>2, <1>20, <1>26, <1>34, <1>35, <2>1 DEF CallKept, InInput, OnWayIn
  <2> QED
    BY <1>1, <1>2, <1>27, <2>1, <2>2, KeptFine
<1>36. ASSUME NEW d \in A PROVE Fine(d)'
  <2>1. d \in Calls /\ d.by \in Windows /\ Fine(d)
    BY <1>1, <1>10 DEF CallsFine
  <2>2. d \notin waiting' /\ ~AtChild(d)'
    <3>1. CASE d \in F
      <4>1. d \in waiting /\ ~AtChild(d)
        BY <1>4, <2>1, <3>1 DEF Fine, Apart
      <4> QED
        BY <1>2, <1>3, <1>34, <2>1, <3>1, <4>1
    <3>2. CASE d = a
      BY <1>2, <1>13, <1>33, <3>2
    <3> QED
      BY <1>9, <3>1, <3>2
  <2>3. ~OnWayIn(d)' /\ (InInput(d)' <=> InInput(d))
    BY <1>2, <1>12 DEF OnWayIn, InInput
  <2>4. Apart(d)'
    BY <2>2, <2>3 DEF Apart
  <2>5. GivenOnce(d)'
    BY <1>2, <2>1, <2>3 DEF Fine, GivenOnce, Kind
  <2>6. d.n <= asked'[d.by]
    BY <1>2, <1>12
  <2>7. CASE d.by # hub
    <3>1. heard'[d.by][d.n] = "no"
      BY <1>12, <1>26, <2>1, <2>7
    <3>2. Unanswered(d)'
      BY <2>6, <3>1 DEF Unanswered
    <3> QED
      BY <2>4, <2>5, <3>2 DEF Fine
  <2>8. CASE d.by = hub
    <3>1. ownerMode[hub] = "owner" /\ hub \notin attached
      BY <1>1, <1>12, <1>17, <2>8 DEF ModesFit, OwnersCall
    <3>2. clientInput[hub] = <<>> /\ fromHub'[hub] = <<>> /\ clientPending[hub] = {}
      BY <1>1, <1>17, <1>19, <3>1 DEF ModesFit
    <3>3. ~InInput(d)' /\ ~OnWayBack(d)' /\ d.n \notin clientPending'[d.by]
      BY <1>2, <2>8, <3>2 DEF InInput, OnWayBack, ToSet
    <3>4. Unanswered(d)'
      BY <2>2, <2>3, <2>6, <3>3 DEF Unanswered, Placed
    <3> QED
      BY <2>4, <2>5, <3>4 DEF Fine
  <2> QED
    BY <2>7, <2>8
<1>37. CallsFine'
  BY <1>1, <1>2, <1>28, <1>35, <1>36 DEF CallsFine
<1>38. InitializedOnce'
  <2>1. \A d \in Calls : heard[d.by][d.n] # "no" => heard'[d.by][d.n] = heard[d.by][d.n]
    BY <1>26
  <2>2. \A v \in Windows : \A m \in DOMAIN plan'[v] : m <= asked'[v] /\ plan'[v][m] = "initialize" =>
          \A n \in 1..(m - 1) : heard'[v][n] \in {"uncertain", "refused"}
    BY <1>1, <1>2, <2>1, FailuresStay
  <2> QED
    BY <1>1, <1>2, <2>2 DEF InitializedOnce
<1> QED
  BY <1>27, <1>29, <1>30, <1>31, <1>32, <1>37, <1>38 DEF CallsInv

-----------------------------------------------------------------------------
(* Initially every call is still to be made, and no owner runs.              *)
LEMMA CallsInit ==
  ASSUME AttachedInit
  PROVE  CallsInv
<1>1. /\ plan \in [Windows -> CallPlans] /\ hub \in Windows /\ attached = Windows \ {hub}
      /\ asked = [w \in Windows |-> 0]
      /\ heard = [w \in Windows |-> [n \in DOMAIN plan[w] |-> "no"]]
      /\ ownerMode = [w \in Windows |-> IF w = hub THEN "owner" ELSE "client"]
      /\ clientPending = [w \in Windows |-> {}] /\ clientInput = [w \in Windows |-> <<>>]
      /\ hasInitialized = [w \in Windows |-> FALSE]
      /\ toHub = [w \in Windows |-> <<>>] /\ fromHub = [w \in Windows |-> <<>>]
      /\ routes = {} /\ waiting = {} /\ handshake = FALSE /\ initializeForwarded = FALSE
      /\ promotion = "none" /\ atChild = {} /\ given = {} /\ repeated = {} /\ initializes = 0
  BY DEF AttachedInit
<1>2. \A w \in Windows : plan[w] \in Seq(CallKinds) /\ Len(plan[w]) \in Nat
  BY <1>1, AttachedCallsAssumption
<1>3. ToSet(<<>>) = {} /\ Distinct(<<>>) /\ <<>> \in Seq(Nat) /\ <<>> \in Seq(Lines)
  BY DEF ToSet, Distinct
<1>4. WindowsTyped
  <2>1. \A w \in Windows : heard[w] \in [DOMAIN plan[w] -> Outcomes]
    BY <1>1 DEF Outcomes
  <2>2. asked \in [Windows -> Nat] /\ \A w \in Windows : asked[w] <= Len(plan[w])
    BY <1>1, <1>2
  <2> QED
    BY <1>1, <1>3, <2>1, <2>2 DEF WindowsTyped, Modes
<1>5. HubTyped
  BY <1>1 DEF HubTyped
<1>6. ModesFit
  BY <1>1, AttachedCallsAssumption DEF ModesFit
<1>7. HubFits
  BY <1>1 DEF HubFits
<1>8. QueuesFit
  BY <1>1, <1>3 DEF QueuesFit
<1>9. CallsFine
  <2> SUFFICES ASSUME NEW c \in Calls PROVE Fine(c)
    BY <1>1 DEF CallsFine
  <2>1. c.by \in Windows /\ c.n \in DOMAIN plan[c.by]
    BY CallBy
  <2>2. heard[c.by][c.n] = "no"
    BY <1>1, <2>1
  <2>3. ~InInput(c) /\ ~OnWayIn(c) /\ ~OnWayBack(c) /\ ~AtChild(c) /\ c.n \notin clientPending[c.by]
    BY <1>1, <1>3, <2>1 DEF InInput, OnWayIn, OnWayBack, AtChild
  <2> QED
    BY <1>1, <2>2, <2>3 DEF Fine, Apart, Unanswered, GivenOnce, Placed
<1>10. InitializedOnce
  <2> SUFFICES ASSUME NEW w \in Windows, NEW m \in DOMAIN plan[w], m <= asked[w]
               PROVE  FALSE
    BY <1>1 DEF InitializedOnce
  <2>1. 1 <= m /\ m \in Nat
    BY <1>4, CallIs
  <2> QED
    BY <1>1, <2>1
<1> QED
  BY <1>4, <1>5, <1>6, <1>7, <1>8, <1>9, <1>10 DEF CallsInv

(* What the attached clients do keeps the invariant, action by action.        *)
LEMMA CallsStep ==
  ASSUME CallsInv, [AttachedNext]_attachedVars
  PROVE  CallsInv'
<1>1. CASE \E w \in Windows : MakeCall(w) \/ WindowStep(w) \/ WindowCloses(w)
  BY <1>1, MakeCallKeeps, HubReadsKeeps, WindowReadsKeeps, CloseAttachedKeeps, OwnerDisconnectsKeeps,
     ReattachKeeps, PromoteKeeps, WindowClosesKeeps DEF WindowStep
<1>2. CASE ChildStep \/ PromotionStep \/ OwnerDies
  <2>1. CASE ChildStep
    BY <2>1, ChildAnswersKeeps, PromotionAnsweredKeeps DEF ChildStep
  <2>2. CASE PromotionStep
    BY <2>2, PromotionDoneKeeps, BecomeOwnerKeeps DEF PromotionStep
  <2> QED
    BY <1>2, <2>1, <2>2, OwnerDiesKeeps
<1>3. CASE \E r \in atChild : RoutingTimesOut(r)
  BY <1>3, RoutingTimesOutKeeps
<1>4. CASE UNCHANGED attachedVars
  <2>1. UNCHANGED <<plan, asked, heard, ownerMode, clientPending, clientInput, hasInitialized, toHub, fromHub,
                    hub, attached, routes, handshake, initializeForwarded, initializeRequests, waiting,
                    promotion, atChild, given, repeated, initializes>>
    BY <1>4 DEF attachedVars, windowVars, handshakeVars, childVarsOfHub
  <2>2. QueuesRest /\ \A c \in Calls : AtChild(c)' => AtChild(c)
    BY <2>1 DEF QueuesRest, AtChild, PromotionId
  <2>3. WindowsTyped /\ HubTyped /\ ModesFit /\ HubFits /\ InitializedOnce
    BY DEF CallsInv
  <2>4. WindowsTyped' /\ QueuesFit' /\ CallsFine'
    BY <2>1, <2>2, <2>3, QueuesRestKeeps DEF WindowsTyped
  <2>5. HubTyped' /\ ModesFit'
    BY <2>1, <2>3 DEF HubTyped, ModesFit, Calls
  <2>6. HubFits'
    BY <2>1, <2>3, HubStays
  <2>7. InitializedOnce'
    BY <2>1, <2>3 DEF InitializedOnce
  <2> QED
    BY <2>4, <2>5, <2>6, <2>7 DEF CallsInv
<1> QED
  BY <1>1, <1>2, <1>3, <1>4 DEF AttachedNext

(* Every call is always in one place, and what was given to an app-server is *)
(* never on a way to the next one.                                           *)
THEOREM CallsInvHolds == AttachedSpec => []CallsInv
<1>1. AttachedInit => CallsInv
  BY CallsInit
<1>2. CallsInv /\ [AttachedNext]_attachedVars => CallsInv'
  BY CallsStep
<1> QED
  BY <1>1, <1>2, PTL DEF AttachedSpec

(* A call of any window has one answer only, its own, and a call that does   *)
(* more than read reaches one app-server once only: whatever windows close,  *)
(* whatever owners die, and whatever the shims put back, replay or refuse.   *)
THEOREM CallsAreServedOnce == AttachedSpec => []ServedOnce
<1>1. ASSUME CallsInv PROVE ServedOnce
  <2>1. \A w \in Windows : heard[w] \in [DOMAIN plan[w] -> Outcomes]
    BY <1>1 DEF CallsInv, WindowsTyped
  <2>2. \A w \in Windows : \A n \in DOMAIN heard[w] : heard[w][n] \notin {"twice", "another's"}
    BY <2>1 DEF Outcomes
  <2> QED
    BY <1>1, <2>2 DEF CallsInv, CallsFine, InitializedOnce, ServedOnce
<1> QED
  BY <1>1, CallsInvHolds, PTL

(* Every variable of the attached clients always has its type.               *)
THEOREM AttachedTypeCorrect == AttachedSpec => []AttachedTypeOK
<1>1. ASSUME CallsInv PROVE AttachedTypeOK
  <2>1. WindowsTyped /\ HubTyped
    BY <1>1 DEF CallsInv
  <2>2. \A w \in Windows : asked[w] \in 0..Len(plan[w]) /\ DOMAIN heard[w] = DOMAIN plan[w]
    <3> SUFFICES ASSUME NEW w \in Windows
                 PROVE  asked[w] \in 0..Len(plan[w]) /\ DOMAIN heard[w] = DOMAIN plan[w]
      OBVIOUS
    <3>1. plan[w] \in Seq(CallKinds) /\ Len(plan[w]) \in Nat
      BY <2>1, AttachedCallsAssumption DEF WindowsTyped
    <3> QED
      BY <2>1, <3>1 DEF WindowsTyped
  <2>3. \A w \in Windows : \A n \in DOMAIN heard[w] :
          heard[w][n] \in {"no", "answer", "refused", "uncertain", "twice", "another's"}
    BY <2>1 DEF WindowsTyped, Outcomes
  <2>4. \A c \in waiting \cup given \cup repeated : c.by \in Windows /\ c.n \in DOMAIN plan[c.by]
    BY <2>1, CallBy DEF HubTyped
  <2> QED
    BY <2>1, <2>2, <2>3, <2>4 DEF AttachedTypeOK, WindowsTyped, HubTyped, Modes
<1> QED
  BY <1>1, CallsInvHolds, PTL
=============================================================================
