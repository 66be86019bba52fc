--------------------------- MODULE Storage_proofs ---------------------------
(***************************************************************************)
(* Theorems about what the windows of a machine share: the lease of a file   *)
(* (FileLease), the tokens of an account (TokenRefresh), the evidence of its  *)
(* health (AccountEvidence) and the index of accounts (AccountsIndex), for    *)
(* any callers, windows, directories, credentials, observations, hosts and    *)
(* accounts.  The four parts use nothing of each other.                       *)
(***************************************************************************)
EXTENDS FileLease, TokenRefresh, AccountEvidence, AccountsIndex, FiniteSetTheorems, TLAPS

(* The lease directories.                                                    *)

(* Every step keeps the variables of FileLease in their types                *)
(* (src/storage/accountsWriteCoordinator.ts).                                *)
THEOREM LeaseTypeCorrect == LeaseSpec => []LeaseTypeOK
<1>e. EmptyLock \in LockContents
  BY DEF EmptyLock, LockContents
<1>1. LeaseInit => LeaseTypeOK
  BY <1>e DEF LeaseInit, LeaseTypeOK, LeasePositions
<1>2. LeaseTypeOK /\ [LeaseNext]_leaseVars => LeaseTypeOK'
  <2> SUFFICES ASSUME LeaseTypeOK, [LeaseNext]_leaseVars PROVE LeaseTypeOK'
    OBVIOUS
  <2> USE DEF LeaseTypeOK, LeaseGoto, LeasePositions
  <2>1. ASSUME NEW c \in Callers, MakeLock(c) PROVE LeaseTypeOK'
    BY <2>1, <1>e DEF MakeLock
  <2>2. ASSUME NEW c \in Callers, OpenOwnerFile(c) PROVE LeaseTypeOK'
    <3>1. CASE lockPath = NoLock
      BY <2>2, <3>1 DEF OpenOwnerFile
    <3>2. CASE lockPath # NoLock
      <4> DEFINE fresh == [EmptyLock EXCEPT !.text = "torn",
              !.aged = lockDir[lockPath].aged /\ lockDir[lockPath].text # "none"]
      <4>1. fresh \in LockContents
        BY DEF EmptyLock, LockContents
      <4>2. lockDir' = [lockDir EXCEPT ![lockPath] = fresh]
        BY <2>2, <3>2 DEF OpenOwnerFile
      <4> HIDE DEF fresh
      <4>3. lockDir' \in [LockDirs -> LockContents]
        BY <4>1, <4>2
      <4> QED BY <4>3, <2>2, <3>2 DEF OpenOwnerFile
    <3> QED BY <3>1, <3>2
  <2>w. ASSUME NEW c \in Callers, NEW d, Written(c, d)
        PROVE  lockDir' \in [LockDirs -> LockContents]
    BY <2>w DEF Written, LockContents
  <2>3. ASSUME NEW c \in Callers, FillOwnerFile(c) PROVE LeaseTypeOK'
    BY <2>3, <2>w DEF FillOwnerFile
  <2>4. ASSUME NEW c \in Callers, RemoveLock(c) PROVE LeaseTypeOK'
    BY <2>4 DEF RemoveLock
  <2>5. ASSUME NEW c \in Callers, JudgeLease(c) PROVE LeaseTypeOK'
    <3> DEFINE stale == lockPath # NoLock /\ StaleLease(c, lockPath)
    <3>1. /\ LeaseGoto(c, IF lockPath = NoLock THEN "make" ELSE IF stale THEN "rename" ELSE "wait")
          /\ foundStale' = (foundStale \/ stale)
          /\ UNCHANGED <<lockPath, lockDir, lockFile, leaseLost>>
      BY <2>5 DEF JudgeLease
    <3>2. stale \in BOOLEAN
      OBVIOUS
    <3> HIDE DEF stale
    <3> QED BY <3>1, <3>2
  <2>6. ASSUME NEW c \in Callers, RenameStale(c) PROVE LeaseTypeOK'
    BY <2>6 DEF RenameStale
  <2>7. ASSUME NEW c \in Callers, WaitForLease(c) PROVE LeaseTypeOK'
    BY <2>7 DEF WaitForLease
  <2>8. ASSUME NEW c \in Callers, LeaseDeadline(c) PROVE LeaseTypeOK'
    BY <2>8 DEF LeaseDeadline
  <2>9. ASSUME NEW c \in Callers, RenewLease(c) PROVE LeaseTypeOK'
    BY <2>9 DEF RenewLease, LockContents
  <2>10. ASSUME NEW c \in Callers, RenewWrite(c) PROVE LeaseTypeOK'
    BY <2>10, <2>w DEF RenewWrite
  <2>11. ASSUME NEW c \in Callers, ReleaseLease(c) PROVE LeaseTypeOK'
    BY <2>11 DEF ReleaseLease
  <2>12. ASSUME NEW c \in Callers, CallerDies(c) PROVE LeaseTypeOK'
    BY <2>12 DEF CallerDies
  <2>13. CASE LeaseTime
    BY <2>13 DEF LeaseTime, LockContents
  <2>14. CASE UNCHANGED leaseVars
    BY <2>14 DEF leaseVars
  <2> HIDE DEF LeaseTypeOK
  <2> QED BY <2>1, <2>2, <2>3, <2>4, <2>5, <2>6, <2>7, <2>8, <2>9, <2>10, <2>11, <2>12, <2>13, <2>14
          DEF LeaseNext, CallerStep
<1> QED BY <1>1, <1>2, PTL DEF LeaseSpec

(* The callers that have made the directory and not removed it yet.          *)
AtWork(c) == lpc[c] \in {"open", "fill", "have", "remove"}

(* While nobody has found a lease stale, the directory of whoever is at work  *)
(* is there, so mkdir keeps the others out; nobody is about to rename it, and *)
(* nobody removes it but its maker.                                          *)
ExclusionInv ==
  /\ lpc \in [Callers -> LeasePositions]
  /\ foundStale \in BOOLEAN
  /\ ~foundStale =>
       /\ \A c \in Callers : AtWork(c) => lockPath # NoLock
       /\ \A c, o \in Callers : AtWork(c) /\ AtWork(o) => c = o
       /\ \A c \in Callers : lpc[c] \notin {"rename", "undo"}

(* As long as no lease has been found stale, at most one caller works under   *)
(* the lease of tryAcquireSharedFileLease, however many callers and machines  *)
(* there are and wherever they die.                                          *)
THEOREM LeaseIsExclusive == LeaseSpec => []LeaseExclusive
<1>1. LeaseInit => ExclusionInv
  BY DEF LeaseInit, ExclusionInv, AtWork, LeasePositions
<1>2. LeaseTypeOK /\ ExclusionInv /\ [LeaseNext]_leaseVars => ExclusionInv'
  <2> SUFFICES ASSUME LeaseTypeOK, ExclusionInv, [LeaseNext]_leaseVars PROVE ExclusionInv'
    OBVIOUS
  <2> USE DEF ExclusionInv, AtWork, LeaseGoto, LeasePositions
  <2>1. ASSUME NEW c \in Callers, MakeLock(c) PROVE ExclusionInv'
    <3>1. CASE lockPath # NoLock
      BY <2>1, <3>1 DEF MakeLock
    <3>2. CASE lockPath = NoLock
      <4>1. PICK d \in LockDirs : lockPath' = d /\ lpc' = [lpc EXCEPT ![c] = "open"]
        BY <2>1, <3>2 DEF MakeLock
      <4>2. lockPath' # NoLock /\ foundStale' = foundStale
        BY <4>1, <2>1, FileLeaseAssumption DEF MakeLock
      <4> QED BY <4>1, <4>2, <3>2
    <3> QED BY <3>1, <3>2
  <2>2. ASSUME NEW c \in Callers, OpenOwnerFile(c) PROVE ExclusionInv'
    BY <2>2 DEF OpenOwnerFile
  <2>3. ASSUME NEW c \in Callers, FillOwnerFile(c) PROVE ExclusionInv'
    BY <2>3 DEF FillOwnerFile
  <2>4. ASSUME NEW c \in Callers, RemoveLock(c) PROVE ExclusionInv'
    BY <2>4 DEF RemoveLock
  <2>5. ASSUME NEW c \in Callers, JudgeLease(c) PROVE ExclusionInv'
    <3> DEFINE stale == lockPath # NoLock /\ StaleLease(c, lockPath)
    <3>1. /\ lpc[c] = "judge"
          /\ LeaseGoto(c, IF lockPath = NoLock THEN "make" ELSE IF stale THEN "rename" ELSE "wait")
          /\ foundStale' = (foundStale \/ stale)
          /\ UNCHANGED lockPath
      BY <2>5 DEF JudgeLease
    <3>2. stale \in BOOLEAN
      OBVIOUS
    <3> HIDE DEF stale
    <3> QED BY <3>1, <3>2
  <2>6. ASSUME NEW c \in Callers, RenameStale(c) PROVE ExclusionInv'
    BY <2>6 DEF RenameStale
  <2>7. ASSUME NEW c \in Callers, WaitForLease(c) PROVE ExclusionInv'
    BY <2>7 DEF WaitForLease
  <2>8. ASSUME NEW c \in Callers, LeaseDeadline(c) PROVE ExclusionInv'
    BY <2>8 DEF LeaseDeadline
  <2>9. ASSUME NEW c \in Callers, RenewLease(c) PROVE ExclusionInv'
    BY <2>9 DEF RenewLease
  <2>10. ASSUME NEW c \in Callers, RenewWrite(c) PROVE ExclusionInv'
    BY <2>10 DEF RenewWrite
  <2>11. ASSUME NEW c \in Callers, ReleaseLease(c) PROVE ExclusionInv'
    BY <2>11 DEF ReleaseLease
  <2>12. ASSUME NEW c \in Callers, CallerDies(c) PROVE ExclusionInv'
    BY <2>12 DEF CallerDies
  <2>13. CASE LeaseTime
    BY <2>13 DEF LeaseTime
  <2>14. CASE UNCHANGED leaseVars
    BY <2>14 DEF leaseVars
  <2> HIDE DEF ExclusionInv
  <2> QED BY <2>1, <2>2, <2>3, <2>4, <2>5, <2>6, <2>7, <2>8, <2>9, <2>10, <2>11, <2>12, <2>13, <2>14
          DEF LeaseNext, CallerStep
<1>3. ExclusionInv => LeaseExclusive
  BY DEF ExclusionInv, AtWork, LeaseExclusive, HoldsLease
<1> QED BY <1>1, <1>2, <1>3, LeaseTypeCorrect, PTL DEF LeaseSpec

-----------------------------------------------------------------------------
(* The tokens of one account.                                              *)

Positions ==
  {"idle", "load", "lease", "reload", "ask", "answer", "save", "mirror", "final", "done"}
Holding == {"reload", "ask", "answer", "save", "mirror", "final"}
Past == {"answer", "save", "mirror", "final", "done"}
Slips == {"lost", "overrun", "mirror", "reverted", "behind", "adopted"}

CallRecords ==
  [at : Positions, gen : Nat, force : BOOLEAN, init : Nat, cur : 0..issued, got : 0..issued]

PlainRecords == [at : {"idle", "held", "mirror", "adopt"}, pair : 0..issued, changed : BOOLEAN]

TokenTyped ==
  /\ issued \in Pairs
  /\ tokenStore \in 1..issued /\ tokenMirror \in 1..issued
  /\ accepted \subseteq 1..issued /\ refused \in 0..issued
  /\ loginOf \in [Pairs -> 1..issued] /\ asked \in [Pairs -> Nat]
  /\ generation \in [Windows -> Nat] /\ inFlight \in [Windows -> RefreshCalls \cup {NoCall}]
  /\ refreshLease \in RefreshCalls \cup {NoCall}
  /\ writeLease \in RefreshCalls \cup {NoCall, Login}
  /\ newLogin \in 0..issued
  /\ call \in [RefreshCalls -> CallRecords]
  /\ authFile \in 1..issued /\ plain \in [PlainWriters -> PlainRecords]
  /\ slips \subseteq Slips

(* A call has a pair to send, and a pair to store; so has a plain writer.   *)
PairsAtHand ==
  /\ \A c \in RefreshCalls :
       /\ call[c].at \in {"ask", "answer", "save"} => call[c].cur # 0
       /\ call[c].at \in {"save", "mirror"} => call[c].got # 0
  /\ \A q \in PlainWriters : plain[q].at # "idle" => plain[q].pair # 0

(* Pairs not issued yet are as in the beginning.                            *)
FuturePairs ==
  /\ loginOf[1] = 1
  /\ \A p \in Pairs : p > issued => loginOf[p] = 1 /\ asked[p] = 0

(* A pair is issued for a login or for a call that has asked.               *)
CallsPast == {c \in RefreshCalls : call[c].at \in Past}
IssuedFor ==
  /\ Cardinality(Logins) <= MaxLogins + 1
  /\ issued <= Cardinality(Logins) + Cardinality(CallsPast)

TokenShape == TokenTyped /\ PairsAtHand /\ FuturePairs /\ IssuedFor

-----------------------------------------------------------------------------
(* What holds until something slips.                                        *)

(* A call that works under the refresh lease still has it.                  *)
LeaseHeld == \A c \in RefreshCalls : call[c].at \in Holding => refreshLease = c

(* The mirror is behind the store only while a writer is on its way to it.  *)
MirrorFollows ==
  /\ tokenMirror <= tokenStore
  /\ writeLease = NoCall => tokenMirror = tokenStore
  /\ (writeLease = Login) <=> (newLogin # 0)
  /\ newLogin # 0 => tokenStore = newLogin
  /\ \A c \in RefreshCalls :
       /\ (call[c].at = "mirror") <=> (writeLease = c)
       /\ call[c].at = "mirror" => tokenStore = call[c].got

(* The provider takes the stored pair, or has just exchanged it.            *)
StoreUsable ==
  \/ tokenStore \in accepted
  \/ \E c \in RefreshCalls : call[c].at \in {"answer", "save"} /\ call[c].cur = tokenStore

(* What a call is about to send is good, and what it got is.                *)
CallUsable ==
  \A c \in RefreshCalls :
    /\ call[c].at = "ask" => call[c].cur \in accepted
    /\ call[c].at \in {"answer", "save", "mirror"} =>
         /\ call[c].got \in accepted /\ call[c].got > call[c].cur
         /\ loginOf[call[c].got] = loginOf[call[c].cur]
    /\ call[c].at \in {"ask", "answer", "save"} /\ Superseded(c) => call[c].cur # tokenStore

AcceptedIsUnasked ==
  \A p \in Pairs : asked[p] <= 1 /\ (p \in accepted => asked[p] = 0)

NewestLoginStored == \A p \in Pairs : loginOf[p] <= loginOf[tokenStore]

Unslipped ==
  /\ LeaseHeld /\ MirrorFollows /\ StoreUsable /\ CallUsable
  /\ AcceptedIsUnasked /\ NewestLoginStored

(* No pair at hand or in auth.json is ahead of the store: written back, it  *)
(* is the stored one or a slip.                                             *)
NothingAhead ==
  /\ authFile <= tokenStore
  /\ \A q \in PlainWriters : plain[q].pair <= tokenStore

TokenInv == TokenShape /\ (slips = {} => Unslipped /\ NothingAhead)

-----------------------------------------------------------------------------
(* Arithmetic of the pairs.                                                 *)
LEMMA PairsAreNaturals ==
  /\ Cardinality(RefreshCalls) \in Nat /\ MaxLogins \in Nat
  /\ Pairs = 1..(1 + MaxLogins + Cardinality(RefreshCalls))
  /\ 1 \in Pairs /\ IsFiniteSet(Pairs)
  /\ \A p \in Pairs : p \in Nat /\ 1..p \subseteq Pairs
<1>1. Cardinality(RefreshCalls) \in Nat /\ MaxLogins \in Nat
  BY TokenRefreshAssumption, FS_CardinalityType
<1>2. Pairs = 1..(1 + MaxLogins + Cardinality(RefreshCalls))
  BY DEF Pairs
<1>3. IsFiniteSet(Pairs)
  BY <1>1, <1>2, FS_Interval
<1>4. QED
  BY <1>1, <1>2, <1>3

(* Effective is one of the two pairs that are kept.                         *)
LEMMA EffectiveIsKept == Effective \in {tokenStore, tokenMirror}
BY DEF Effective

LEMMA LoadsAreTyped ==
  ASSUME TokenTyped, LoadTokens
  PROVE  /\ tokenStore' \in 1..issued /\ Effective \in 1..issued
         /\ slips' \subseteq Slips /\ slips \subseteq slips'
<1>1. tokenStore' = Effective /\ slips' \in {slips, slips \cup {"reverted"}}
  BY DEF LoadTokens
<1>2. Effective \in 1..issued
  BY EffectiveIsKept DEF TokenTyped
<1>3. QED
  BY <1>1, <1>2 DEF TokenTyped, Slips

(* Counting the calls that have asked.                                      *)
LEMMA PastCounted ==
  ASSUME NEW S \in SUBSET RefreshCalls, NEW T \in SUBSET RefreshCalls, S \subseteq T
  PROVE  /\ Cardinality(S) \in Nat /\ Cardinality(T) \in Nat
         /\ Cardinality(S) <= Cardinality(T)
         /\ Cardinality(T) <= Cardinality(RefreshCalls)
         /\ \A c \in T : c \notin S => Cardinality(S) + 1 <= Cardinality(T)
<1>1. IsFiniteSet(RefreshCalls) /\ IsFiniteSet(S) /\ IsFiniteSet(T)
  BY TokenRefreshAssumption, FS_Subset
<1>2. /\ Cardinality(S) \in Nat /\ Cardinality(T) \in Nat
      /\ Cardinality(S) <= Cardinality(T)
      /\ Cardinality(T) <= Cardinality(RefreshCalls)
  BY <1>1, FS_Subset, FS_CardinalityType
<1>3. ASSUME NEW c \in T, c \notin S PROVE Cardinality(S) + 1 <= Cardinality(T)
  <2>1. Cardinality(S \cup {c}) = Cardinality(S) + 1 /\ IsFiniteSet(S \cup {c})
    BY <1>1, <1>3, FS_AddElement
  <2>2. S \cup {c} \subseteq T
    BY <1>3
  <2>3. QED
    BY <1>1, <2>1, <2>2, FS_Subset
<1>4. QED
  BY <1>2, <1>3

LEMMA LoginsAreFinite ==
  ASSUME TokenTyped
  PROVE  IsFiniteSet(Logins) /\ Cardinality(Logins) \in Nat
<1>1. issued \in Nat /\ Logins \subseteq 1..issued
  BY PairsAreNaturals DEF Logins, TokenTyped
<1>2. IsFiniteSet(1..issued)
  BY <1>1, FS_Interval
<1>3. IsFiniteSet(Logins)
  BY <1>1, <1>2, FS_Subset
<1>4. QED
  BY <1>3, FS_CardinalityType

-----------------------------------------------------------------------------
(* The step of a call that issues no pair.                                  *)
LEMMA CallMoves ==
  ASSUME TokenShape, NEW c \in RefreshCalls, NEW r \in CallRecords,
         call' = [call EXCEPT ![c] = r],
         r.at \in {"ask", "answer", "save"} => r.cur # 0,
         r.at \in {"save", "mirror"} => r.got # 0,
         call[c].at \in Past => r.at \in Past,
         UNCHANGED <<issued, loginOf, asked, accepted, generation, plain>>,
         authFile' \in 1..issued,
         tokenStore' \in 1..issued, tokenMirror' \in 1..issued,
         refused' \in 0..issued, newLogin' \in 0..issued,
         inFlight' \in [Windows -> RefreshCalls \cup {NoCall}],
         refreshLease' \in RefreshCalls \cup {NoCall},
         writeLease' \in RefreshCalls \cup {NoCall, Login},
         slips' \subseteq Slips
  PROVE  TokenShape'
<1>1. TokenTyped'
  <2>1. CallRecords' = CallRecords
    BY DEF CallRecords
  <2>2. call' \in [RefreshCalls -> CallRecords']
    BY <2>1 DEF TokenShape, TokenTyped
  <2>3. QED
    BY <2>2 DEF TokenShape, TokenTyped, PlainRecords
<1>2. PairsAtHand'
  BY DEF TokenShape, TokenTyped, PairsAtHand
<1>3. FuturePairs'
  BY DEF TokenShape, FuturePairs
<1>4. CallsPast \subseteq CallsPast'
  BY DEF TokenShape, TokenTyped, CallsPast
<1>5. Cardinality(CallsPast) \in Nat /\ Cardinality(CallsPast') \in Nat
      /\ Cardinality(CallsPast) <= Cardinality(CallsPast')
  BY <1>4, PastCounted DEF CallsPast
<1>6. Logins' = Logins /\ Cardinality(Logins) \in Nat /\ issued \in Nat
  BY LoginsAreFinite, PairsAreNaturals DEF Logins, TokenShape, TokenTyped
<1>7. IssuedFor'
  BY <1>5, <1>6 DEF TokenShape, IssuedFor
<1>8. QED
  BY <1>1, <1>2, <1>3, <1>7 DEF TokenShape

(* A step of nobody's call.                                                 *)
LEMMA CallsRest ==
  ASSUME TokenShape, UNCHANGED <<call, issued, loginOf, asked, accepted, generation, plainVars>>,
         tokenStore' \in 1..issued, tokenMirror' \in 1..issued,
         refused' \in 0..issued, newLogin' \in 0..issued,
         inFlight' \in [Windows -> RefreshCalls \cup {NoCall}],
         refreshLease' \in RefreshCalls \cup {NoCall},
         writeLease' \in RefreshCalls \cup {NoCall, Login},
         slips' \subseteq Slips
  PROVE  TokenShape'
BY DEF TokenShape, TokenTyped, CallRecords, PlainRecords, PairsAtHand, FuturePairs, IssuedFor,
   CallsPast, Logins, plainVars

(* A step of a writer without a lease.                                      *)
LEMMA PlainMoves ==
  ASSUME TokenShape, NEW q \in PlainWriters, NEW r \in PlainRecords,
         plain' = [plain EXCEPT ![q] = r], r.at # "idle" => r.pair # 0,
         UNCHANGED otherVars,
         tokenStore' \in 1..issued, tokenMirror' \in 1..issued, authFile' \in 1..issued,
         slips' \subseteq Slips
  PROVE  TokenShape'
<1>1. UNCHANGED <<call, issued, loginOf, asked, accepted, generation, refused, newLogin, inFlight,
                  refreshLease, writeLease>>
  BY DEF otherVars, providerVars, windowVars
<1>2. CallRecords' = CallRecords /\ PlainRecords' = PlainRecords
  BY <1>1 DEF CallRecords, PlainRecords
<1>3. plain' \in [PlainWriters -> PlainRecords']
  BY <1>2 DEF TokenShape, TokenTyped
<1>4. TokenTyped'
  BY <1>1, <1>2, <1>3 DEF TokenShape, TokenTyped
<1>5. PairsAtHand'
  BY <1>1 DEF TokenShape, TokenTyped, PairsAtHand
<1>6. FuturePairs' /\ IssuedFor'
  BY <1>1 DEF TokenShape, FuturePairs, IssuedFor, CallsPast, Logins
<1>7. QED
  BY <1>4, <1>5, <1>6 DEF TokenShape

EndedCall == [IdleCall EXCEPT !.at = "done"]

LEMMA EndCallEffect ==
  ASSUME TokenTyped, NEW c \in RefreshCalls, EndCall(c)
  PROVE  /\ EndedCall \in CallRecords /\ EndedCall.at = "done"
         /\ call' = [call EXCEPT ![c] = EndedCall]
         /\ inFlight' \in [Windows -> RefreshCalls \cup {NoCall}]
         /\ refreshLease' \in RefreshCalls \cup {NoCall}
         /\ refreshLease' = IF refreshLease = c THEN NoCall ELSE refreshLease
         /\ UNCHANGED generation
<1>1. IdleCall \in CallRecords
  BY PairsAreNaturals DEF IdleCall, CallRecords, Positions, TokenTyped
<1>2. EndedCall \in CallRecords /\ EndedCall.at = "done"
  BY <1>1 DEF EndedCall, CallRecords, Positions
<1>3. call' = [call EXCEPT ![c] = EndedCall]
  BY DEF EndCall, EndedCall
<1>4. inFlight' \in [Windows -> RefreshCalls \cup {NoCall}]
  BY TokenRefreshAssumption DEF EndCall, TokenTyped
<1>5. QED
  BY <1>1, <1>2, <1>3, <1>4 DEF EndCall, TokenTyped

(* A call that ends, whatever it has read or lost.                          *)
LEMMA CallEnds ==
  ASSUME TokenShape, NEW c \in RefreshCalls, EndCall(c),
         UNCHANGED <<storeVars, providerVars, age, plainVars>>,
         tokenStore' \in 1..issued, refused' \in 0..issued, slips' \subseteq Slips
  PROVE  TokenShape'
<1>1. /\ EndedCall \in CallRecords /\ EndedCall.at = "done"
      /\ call' = [call EXCEPT ![c] = EndedCall]
      /\ inFlight' \in [Windows -> RefreshCalls \cup {NoCall}]
      /\ refreshLease' \in RefreshCalls \cup {NoCall}
      /\ UNCHANGED generation
  BY EndCallEffect DEF TokenShape
<1>2. QED
  BY <1>1, CallMoves DEF Past, storeVars, providerVars, plainVars, TokenShape, TokenTyped

(* A call that goes to its next position.                                   *)
Moved(c, position) == [call[c] EXCEPT !.at = position]

LEMMA CallGotoEffect ==
  ASSUME TokenTyped, NEW c \in RefreshCalls, NEW x \in Positions
  PROVE  /\ call[c] \in CallRecords /\ Moved(c, x) \in CallRecords
         /\ Moved(c, x).at = x /\ Moved(c, x).gen = call[c].gen
         /\ Moved(c, x).cur = call[c].cur /\ Moved(c, x).got = call[c].got
         /\ CallGoto(c, x) => call' = [call EXCEPT ![c] = Moved(c, x)]
<1>1. call[c] \in CallRecords
  BY DEF TokenTyped
<1>2. CallGoto(c, x) => call' = [call EXCEPT ![c] = Moved(c, x)]
  BY DEF CallGoto, Moved
<1>3. QED
  BY <1>1, <1>2 DEF Moved, CallRecords

-----------------------------------------------------------------------------
LEMMA TokenInitShape == TokenInit => TokenShape
<1> SUFFICES ASSUME TokenInit PROVE TokenShape
  OBVIOUS
<1> USE PairsAreNaturals
<1>1. IdleCall \in CallRecords /\ IdleCall.at = "idle"
  BY DEF IdleCall, CallRecords, Positions, TokenInit
<1>2. TokenTyped
  <2>1. issued \in Pairs /\ tokenStore \in 1..issued /\ tokenMirror \in 1..issued
        /\ accepted \subseteq 1..issued /\ refused \in 0..issued /\ newLogin \in 0..issued
    BY DEF TokenInit
  <2>2. loginOf \in [Pairs -> 1..issued] /\ asked \in [Pairs -> Nat]
    BY DEF TokenInit
  <2>3. call \in [RefreshCalls -> CallRecords]
    BY <1>1 DEF TokenInit
  <2>4. authFile \in 1..issued /\ plain \in [PlainWriters -> PlainRecords]
    BY DEF TokenInit, IdlePlain, PlainRecords
  <2>5. QED
    BY <2>1, <2>2, <2>3, <2>4 DEF TokenInit, TokenTyped
<1>3. PairsAtHand /\ FuturePairs
  BY <1>1 DEF TokenInit, IdlePlain, PairsAtHand, FuturePairs
<1>4. IssuedFor
  <2>1. Logins = {1}
    BY DEF TokenInit, Logins
  <2>2. Cardinality(Logins) = 1
    BY <2>1, FS_Singleton
  <2>3. Cardinality(CallsPast) \in Nat
    BY PastCounted DEF CallsPast
  <2>4. QED
    BY <2>2, <2>3 DEF TokenInit, IssuedFor
<1>5. QED
  BY <1>2, <1>3, <1>4 DEF TokenShape

(* Asking: the one step of a call that issues a pair.                       *)
LEMMA AskProviderShape ==
  ASSUME TokenShape, NEW c \in RefreshCalls, AskProvider(c)
  PROVE  TokenShape' /\ issued + 1 \in Pairs
<1>1. /\ call[c].at = "ask" /\ call[c].cur \in 1..issued /\ call[c] \in CallRecords
      /\ issued \in Nat /\ TokenTyped
  <2>1. TokenTyped /\ issued \in Nat /\ call[c] \in CallRecords /\ call[c].at = "ask"
    BY PairsAreNaturals DEF AskProvider, At, TokenShape, TokenTyped
  <2>2. call[c].cur \in 0..issued /\ call[c].cur # 0
    BY <2>1 DEF CallRecords, TokenShape, PairsAtHand
  <2>3. QED
    BY <2>1, <2>2
<1>2. Cardinality(Logins) \in Nat
  BY <1>1, LoginsAreFinite
<1>3. /\ Cardinality(CallsPast) \in Nat
      /\ Cardinality(CallsPast) + 1 <= Cardinality(RefreshCalls)
  BY <1>1, PastCounted DEF CallsPast, Past
<1>4. issued + 1 \in Pairs
  BY <1>1, <1>2, <1>3, PairsAreNaturals DEF TokenShape, IssuedFor
<1>10. /\ 1 \in Pairs /\ issued + 1 # 1 /\ loginOf[1] = 1 /\ loginOf[issued + 1] = 1
       /\ loginOf \in [Pairs -> 1..issued] /\ call[c].cur \in Pairs
       /\ loginOf[call[c].cur] \in 1..issued /\ issued + 1 \in Pairs /\ issued \in Pairs
  BY <1>1, <1>4, PairsAreNaturals DEF TokenShape, TokenTyped, FuturePairs
<1>5. /\ asked' \in [Pairs -> Nat]
      /\ \A p \in Pairs : p # call[c].cur => asked'[p] = asked[p]
  <2>1. asked' = [asked EXCEPT ![call[c].cur] = @ + 1] /\ asked \in [Pairs -> Nat]
    BY <1>1 DEF AskProvider, TokenTyped
  <2>2. asked[call[c].cur] + 1 \in Nat
    BY <2>1, <1>10
  <2>3. QED
    BY <2>1, <2>2
<1>6. refused' = 0 /\ UNCHANGED <<tokenStore, tokenMirror, writeLease, newLogin, age, inFlight,
                                  generation, refreshLease, authFile, plain, slips>>
  BY DEF AskProvider, storeVars, windowVars, plainVars
<1>11. /\ issued' \in {issued, issued + 1}
       /\ authFile' \in 1..issued' /\ plain' \in [PlainWriters -> PlainRecords']
       /\ \A q \in PlainWriters : plain'[q].at # "idle" => plain'[q].pair # 0
  <2>1. issued' \in {issued, issued + 1}
    BY DEF AskProvider
  <2>2. authFile \in 1..issued' /\ PlainRecords \subseteq PlainRecords'
    BY <1>1, <2>1 DEF TokenTyped, PlainRecords
  <2>3. QED
    BY <1>1, <1>6, <2>1, <2>2 DEF TokenTyped, TokenShape, PairsAtHand
<1>7. CASE call[c].cur \in accepted
  <2> DEFINE r == [call[c] EXCEPT !.at = "answer", !.got = issued + 1]
  <2>1. /\ issued' = issued + 1 /\ accepted' = (accepted \ {call[c].cur}) \cup {issued + 1}
        /\ loginOf' = [loginOf EXCEPT ![issued + 1] = loginOf[call[c].cur]]
        /\ call' = [call EXCEPT ![c] = r]
    BY <1>7 DEF AskProvider
  <2>2. r \in CallRecords' /\ r.at = "answer" /\ r.cur = call[c].cur /\ r.got = issued + 1
    <3>1. r.at = "answer" /\ r.cur = call[c].cur /\ r.got = issued + 1
      BY <1>1 DEF CallRecords
    <3>2. r \in [at : Positions, gen : Nat, force : BOOLEAN, init : Nat, cur : 0..issued + 1,
                 got : 0..issued + 1]
      <4>1. PICK old : old = call[c]
        OBVIOUS
      <4>2. /\ old \in [at : Positions, gen : Nat, force : BOOLEAN, init : Nat,
                       cur : 0..issued, got : 0..issued]
            /\ old.cur \in 0..issued + 1 /\ issued + 1 \in 0..issued + 1
        BY <1>1, <4>1 DEF CallRecords
      <4>3. "answer" \in Positions
        BY DEF Positions
      <4>4. r = [old EXCEPT !.at = "answer", !.got = issued + 1]
        BY <4>1
      <4>5. QED
        BY <4>2, <4>3, <4>4
    <3>3. QED
      BY <2>1, <3>1, <3>2 DEF CallRecords
  <2> HIDE DEF r
  <2>3. CallRecords \subseteq CallRecords'
    BY <1>1, <2>1 DEF CallRecords
  <2>4. call' \in [RefreshCalls -> CallRecords']
    BY <1>1, <2>1, <2>2, <2>3 DEF TokenTyped
  <2>5. loginOf' \in [Pairs -> 1..issued']
    <3>1. \A p \in Pairs : loginOf[p] \in 1..issued + 1
      <4>1. issued \in Nat /\ loginOf \in [Pairs -> 1..issued]
        BY <1>1, <1>10
      <4>2. 1..issued \subseteq 1..issued + 1
        BY <4>1
      <4>3. QED
        BY <4>1, <4>2
    <3>2. QED
      BY <1>1, <1>10, <2>1, <3>1
  <2>6. TokenTyped'
    <3>1. /\ tokenStore \in 1..issued' /\ tokenMirror \in 1..issued' /\ newLogin \in 0..issued'
          /\ accepted' \subseteq 1..issued' /\ 0 \in 0..issued'
      <4>1. 1..issued \subseteq 1..issued + 1 /\ 0..issued \subseteq 0..issued + 1
            /\ issued + 1 \in 1..issued + 1 /\ 0 \in 0..issued + 1
        BY <1>1
      <4>2. /\ tokenStore \in 1..issued /\ tokenMirror \in 1..issued /\ newLogin \in 0..issued
            /\ accepted \subseteq 1..issued
        BY <1>1 DEF TokenTyped
      <4>3. accepted' \subseteq 1..issued + 1
        BY <2>1, <4>1, <4>2
      <4>4. QED
        BY <2>1, <4>1, <4>2, <4>3
    <3>2. QED
      BY <1>1, <1>4, <1>5, <1>6, <1>11, <2>1, <2>4, <2>5, <3>1 DEF TokenTyped
  <2>7. PairsAtHand'
    BY <1>1, <1>11, <2>1, <2>2 DEF TokenShape, TokenTyped, PairsAtHand
  <2>8. FuturePairs'
    BY <1>1, <1>4, <1>5, <2>1 DEF TokenShape, TokenTyped, FuturePairs
  <2>9. Logins' = Logins
    <3>1. ASSUME NEW l \in Logins PROVE l \in Logins'
      <4>1. PICK p \in Pairs : l = loginOf[p]
        BY DEF Logins
      <4>2. \E q \in Pairs : loginOf'[q] = l
        BY <1>1, <4>1, <2>1, <1>10
      <4>3. QED
        BY <4>2 DEF Logins
    <3>2. ASSUME NEW l \in Logins' PROVE l \in Logins
      <4>1. PICK p \in Pairs : l = loginOf'[p]
        BY DEF Logins
      <4>2. \E q \in Pairs : loginOf[q] = l
        BY <1>1, <4>1, <2>1, <1>10
      <4>3. QED
        BY <4>2 DEF Logins
    <3>3. QED
      BY <3>1, <3>2
  <2>10. /\ Cardinality(CallsPast') \in Nat
         /\ Cardinality(CallsPast) + 1 <= Cardinality(CallsPast')
    <3>1. CallsPast \subseteq CallsPast' /\ c \in CallsPast' /\ c \notin CallsPast
      BY <1>1, <2>1, <2>2 DEF CallsPast, Past, TokenTyped
    <3>2. QED
      BY <3>1, PastCounted DEF CallsPast
  <2>11. IssuedFor'
    BY <1>1, <1>2, <1>3, <2>1, <2>9, <2>10 DEF TokenShape, IssuedFor
  <2>12. QED
    BY <1>4, <2>6, <2>7, <2>8, <2>11 DEF TokenShape
<1>8. CASE call[c].cur \notin accepted
  <2>1. UNCHANGED <<issued, accepted, loginOf>> /\ CallGoto(c, "answer")
    BY <1>8 DEF AskProvider
  <2>2. /\ Moved(c, "answer") \in CallRecords /\ Moved(c, "answer").at = "answer"
        /\ Moved(c, "answer").cur = call[c].cur
        /\ call' = [call EXCEPT ![c] = Moved(c, "answer")]
    BY <1>1, <2>1, CallGotoEffect DEF Positions
  <2>3. CallRecords' = CallRecords
    BY <2>1 DEF CallRecords
  <2>4. TokenTyped'
    BY <1>1, <1>5, <1>6, <1>11, <2>1, <2>2, <2>3 DEF TokenTyped
  <2>5. PairsAtHand'
    BY <1>1, <1>11, <2>1, <2>2 DEF TokenShape, TokenTyped, PairsAtHand
  <2>6. FuturePairs'
    BY <1>1, <1>5, <2>1 DEF TokenShape, FuturePairs
  <2>7. Logins' = Logins
    BY <2>1 DEF Logins
  <2>8. /\ Cardinality(CallsPast') \in Nat
        /\ Cardinality(CallsPast) <= Cardinality(CallsPast')
    <3>1. CallsPast \subseteq CallsPast'
      BY <1>1, <2>2 DEF CallsPast, Past, TokenTyped
    <3>2. QED
      BY <3>1, PastCounted DEF CallsPast
  <2>9. IssuedFor'
    BY <1>1, <1>2, <1>3, <2>1, <2>7, <2>8 DEF TokenShape, IssuedFor
  <2>10. QED
    BY <1>4, <2>4, <2>5, <2>6, <2>9 DEF TokenShape
<1>9. QED
  BY <1>7, <1>8

(* A login issues a pair that is its own login.                             *)
LEMMA StoreLoginShape ==
  ASSUME TokenShape, NEW w \in Windows, StoreLogin(w)
  PROVE  TokenShape' /\ issued + 1 \in Pairs
<1>1. /\ TokenTyped /\ issued \in Nat /\ Cardinality(Logins) <= MaxLogins
      /\ issued' = issued + 1 /\ newLogin' = issued + 1 /\ tokenStore' = issued + 1
      /\ accepted' = accepted \cup {issued + 1}
      /\ loginOf' = [loginOf EXCEPT ![issued + 1] = issued + 1]
      /\ writeLease' = Login
      /\ generation' = [generation EXCEPT ![w] = @ + 1]
      /\ inFlight' = [inFlight EXCEPT ![w] = NoCall]
      /\ UNCHANGED <<tokenMirror, asked, refused, refreshLease, call, authFile, plain, slips>>
  BY PairsAreNaturals DEF StoreLogin, plainVars, TokenShape, TokenTyped
<1>2. IsFiniteSet(Logins) /\ Cardinality(Logins) \in Nat
  BY <1>1, LoginsAreFinite
<1>3. /\ Cardinality(CallsPast) \in Nat
      /\ Cardinality(CallsPast) <= Cardinality(RefreshCalls)
  BY PastCounted DEF CallsPast
<1>4. issued + 1 \in Pairs
  BY <1>1, <1>2, <1>3, PairsAreNaturals DEF TokenShape, IssuedFor
<1>5. TokenTyped'
  <2>1. CallRecords \subseteq CallRecords'
    BY <1>1 DEF CallRecords
  <2>2. call' \in [RefreshCalls -> CallRecords']
    BY <1>1, <2>1 DEF TokenTyped
  <2>3. loginOf' \in [Pairs -> 1..issued']
    BY <1>1, <1>4 DEF TokenTyped
  <2>4. /\ generation' \in [Windows -> Nat]
        /\ inFlight' \in [Windows -> RefreshCalls \cup {NoCall}]
    BY <1>1 DEF TokenTyped
  <2>5. authFile' \in 1..issued' /\ plain' \in [PlainWriters -> PlainRecords']
    <3>1. PlainRecords \subseteq PlainRecords'
      BY <1>1 DEF PlainRecords
    <3>2. QED
      BY <1>1, <3>1 DEF TokenTyped
  <2>6. QED
    BY <1>1, <1>4, <2>2, <2>3, <2>4, <2>5 DEF TokenTyped
<1>6. PairsAtHand'
  BY <1>1 DEF TokenShape, PairsAtHand
<1>7. FuturePairs'
  BY <1>1, <1>4 DEF TokenShape, TokenTyped, FuturePairs
<1>8. Logins' = Logins \cup {issued + 1} /\ issued + 1 \notin Logins
  <2> /\ 1 \in Pairs /\ issued + 1 # 1 /\ loginOf[1] = 1 /\ loginOf[issued + 1] = 1
      /\ loginOf \in [Pairs -> 1..issued]
    BY <1>1, <1>4, PairsAreNaturals DEF TokenShape, TokenTyped, FuturePairs
  <2>1. issued + 1 \notin Logins
    <3>1. \A p \in Pairs : loginOf[p] # issued + 1
      BY <1>1
    <3>2. QED
      BY <3>1 DEF Logins
  <2>2. ASSUME NEW l \in Logins PROVE l \in Logins'
    <3>1. PICK p \in Pairs : l = loginOf[p]
      BY DEF Logins
    <3>2. \E q \in Pairs : loginOf'[q] = l
      BY <1>1, <1>4, <3>1
    <3>3. QED
      BY <3>2 DEF Logins
  <2>3. issued + 1 \in Logins'
    BY <1>1, <1>4 DEF Logins, TokenTyped
  <2>4. ASSUME NEW l \in Logins' PROVE l \in Logins \cup {issued + 1}
    BY <1>1, <1>4 DEF Logins, TokenTyped
  <2>5. QED
    BY <2>1, <2>2, <2>3, <2>4
<1>9. Cardinality(Logins') = Cardinality(Logins) + 1
  BY <1>2, <1>8, FS_AddElement
<1>10. IssuedFor'
  <2>1. CallsPast' = CallsPast
    BY <1>1 DEF CallsPast
  <2>2. QED
    BY <1>1, <1>2, <1>3, <1>9, <2>1, TokenRefreshAssumption DEF TokenShape, IssuedFor
<1>11. QED
  BY <1>4, <1>5, <1>6, <1>7, <1>10 DEF TokenShape

(* A writer without a lease handles pairs that have been issued.            *)
LEMMA PlainShape ==
  ASSUME TokenShape, NEW q \in PlainWriters, PlainStep(q)
  PROVE  TokenShape'
<1>1. /\ TokenTyped /\ plain[q] \in PlainRecords /\ slips \subseteq Slips /\ issued \in Nat
      /\ tokenStore \in 1..issued /\ tokenMirror \in 1..issued /\ authFile \in 1..issued
      /\ newLogin \in 0..issued
      /\ plain[q].at # "idle" => plain[q].pair \in 1..issued
  BY PairsAreNaturals DEF TokenShape, TokenTyped, PairsAtHand, PlainRecords
<1>2. \A x \in {"held", "mirror", "adopt"}, p \in 1..issued, b \in BOOLEAN :
        /\ [at |-> x, pair |-> p, changed |-> b] \in PlainRecords
        /\ [at |-> x, pair |-> p, changed |-> b].pair # 0
  BY <1>1 DEF PlainRecords
<1>3. IdlePlain \in PlainRecords /\ IdlePlain.at = "idle"
  BY <1>1 DEF IdlePlain, PlainRecords
<1>4. LoadTokens => tokenStore' \in 1..issued /\ Effective \in 1..issued /\ slips' \subseteq Slips
  BY <1>1, LoadsAreTyped
<1>5. \A p \in 1..issued : MirrorPair(p) => tokenMirror' \in 1..issued /\ slips' \subseteq Slips
  BY <1>1 DEF MirrorPair, Slip, Slips
<1>6. CASE ReadForUse(q)
  BY <1>1, <1>2, <1>4, <1>6, PlainMoves DEF ReadForUse, PlainGoto
<1>7. CASE TakeFresh(q)
  <2>1. (plain[q].changed \/ Effective # plain[q].pair) \in BOOLEAN
    BY <1>1 DEF PlainRecords
  <2>2. QED
    BY <1>1, <1>2, <1>4, <1>7, <2>1, PlainMoves DEF TakeFresh, PlainGoto
<1>8. CASE KeepImported(q)
  <2>1. newLogin \in 1..issued
    BY <1>1, <1>8 DEF KeepImported
  <2>2. QED
    BY <1>1, <1>2, <1>8, <2>1, PlainMoves DEF KeepImported, PlainGoto
<1>9. CASE DropHeld(q)
  BY <1>1, <1>3, <1>9, PlainMoves DEF DropHeld, PlainEnds
<1>10. CASE StoreHeld(q)
  <2>1. plain[q].pair \in 1..issued
    BY <1>1, <1>10 DEF StoreHeld, PlainAt
  <2>2. tokenStore' \in 1..issued /\ slips' \subseteq Slips
    BY <1>1, <1>10, <2>1 DEF StoreHeld, Slips
  <2>3. UNCHANGED <<tokenMirror, authFile, otherVars>>
    BY <1>10 DEF StoreHeld
  <2>4. CASE plain[q].changed
    BY <1>1, <1>2, <1>10, <2>1, <2>2, <2>3, <2>4, PlainMoves DEF StoreHeld, PlainGoto
  <2>5. CASE ~plain[q].changed
    BY <1>1, <1>2, <1>10, <2>2, <2>3, <2>5, PlainMoves DEF StoreHeld, PlainGoto
  <2>6. QED
    BY <2>4, <2>5
<1>11. CASE SwitchToHeld(q)
  <2>1. plain[q].pair \in 1..issued
    BY <1>1, <1>11 DEF SwitchToHeld, PlainAt
  <2>2. QED
    BY <1>1, <1>2, <1>11, <2>1, PlainMoves DEF SwitchToHeld, PlainGoto
<1>12. CASE ReadForMirror(q)
  BY <1>1, <1>2, <1>12, PlainMoves DEF ReadForMirror, PlainGoto
<1>13. CASE MirrorHeld(q)
  <2>1. plain[q].pair \in 1..issued
    BY <1>1, <1>13 DEF MirrorHeld, PlainAt
  <2>2. tokenMirror' \in 1..issued /\ slips' \subseteq Slips /\ authFile' \in 1..issued
    BY <1>1, <1>5, <1>13, <2>1 DEF MirrorHeld, Slip, Slips
  <2>3. QED
    BY <1>1, <1>3, <1>13, <2>2, PlainMoves DEF MirrorHeld, PlainEnds
<1>14. CASE ReadAuthFile(q)
  BY <1>1, <1>2, <1>14, PlainMoves DEF ReadAuthFile, PlainGoto
<1>15. CASE AdoptAuthFile(q)
  <2>1. plain[q].pair \in 1..issued
    BY <1>1, <1>15 DEF AdoptAuthFile, PlainAt
  <2>2. tokenStore' \in 1..issued /\ slips' \subseteq Slips
    BY <1>1, <1>15, <2>1 DEF AdoptAuthFile, Slips
  <2>3. UNCHANGED <<tokenMirror, authFile, otherVars>>
    BY <1>15 DEF AdoptAuthFile
  <2>4. CASE plain[q].pair = tokenStore
    BY <1>1, <1>3, <1>15, <2>2, <2>3, <2>4, PlainMoves DEF AdoptAuthFile, PlainEnds
  <2>5. CASE plain[q].pair # tokenStore
    BY <1>1, <1>2, <1>15, <2>1, <2>2, <2>3, <2>5, PlainMoves DEF AdoptAuthFile, PlainGoto
  <2>6. QED
    BY <2>4, <2>5
<1>16. QED
  BY <1>6, <1>7, <1>8, <1>9, <1>10, <1>11, <1>12, <1>13, <1>14, <1>15 DEF PlainStep

(* Every step of every call, login and clock keeps the shape.               *)
LEMMA TokenStepShape == TokenShape /\ [TokenNext]_tokenVars => TokenShape'
<1> SUFFICES ASSUME TokenShape, [TokenNext]_tokenVars PROVE TokenShape'
  OBVIOUS
<1>0. /\ TokenTyped /\ tokenStore \in 1..issued /\ refused \in 0..issued /\ slips \subseteq Slips
      /\ 0 \in 0..issued
  BY PairsAreNaturals DEF TokenShape, TokenTyped
<1>1. ASSUME NEW c \in RefreshCalls, StartRefresh(c) PROVE TokenShape'
  <2>1. PICK force \in BOOLEAN :
          call' = [call EXCEPT ![c] = [IdleCall EXCEPT !.at = "load", !.force = force,
                                         !.gen = generation[CallWindow[c]]]]
    BY <1>1, Zenon DEF StartRefresh
  <2> DEFINE r == [IdleCall EXCEPT !.at = "load", !.force = force,
                                   !.gen = generation[CallWindow[c]]]
  <2>2. generation[CallWindow[c]] \in Nat
    BY <1>0, TokenRefreshAssumption DEF TokenTyped
  <2>3. r \in CallRecords /\ r.at = "load"
    BY <1>0, <2>2 DEF IdleCall, CallRecords, Positions
  <2> HIDE DEF r
  <2>4. call' = [call EXCEPT ![c] = r] /\ call[c].at \notin Past
    BY <1>1, <2>1 DEF r, StartRefresh, At, Past
  <2>5. inFlight' \in [Windows -> RefreshCalls \cup {NoCall}]
    BY <1>0, <1>1, TokenRefreshAssumption DEF StartRefresh, TokenTyped
  <2>6. QED
    BY <1>0, <1>1, <2>3, <2>4, <2>5, CallMoves DEF StartRefresh, storeVars, providerVars, plainVars, TokenTyped
<1>2. ASSUME NEW c \in RefreshCalls, LoadFirst(c) PROVE TokenShape'
  <2>1. tokenStore' \in 1..issued /\ Effective \in 1..issued /\ slips' \subseteq Slips
    BY <1>0, <1>2, LoadsAreTyped DEF LoadFirst
  <2>2. CASE EndCall(c)
    BY <1>0, <1>2, <2>1, <2>2, CallEnds DEF LoadFirst
  <2>3. CASE /\ call' = [call EXCEPT ![c].at = "lease", ![c].init = Effective]
             /\ UNCHANGED <<windowVars, refreshLease>>
    <3> DEFINE r == [call[c] EXCEPT !.at = "lease", !.init = Effective]
    <3>1. r \in CallRecords /\ r.at = "lease"
      BY <1>0, <2>1, PairsAreNaturals DEF TokenTyped, CallRecords, Positions
    <3> HIDE DEF r
    <3>2. call' = [call EXCEPT ![c] = r] /\ call[c].at \notin Past
      BY <1>2, <2>3 DEF r, LoadFirst, At, Past
    <3>3. QED
      BY <1>0, <1>2, <2>1, <2>3, <3>1, <3>2, CallMoves
         DEF LoadFirst, storeVars, providerVars, plainVars, windowVars, TokenTyped
  <2>4. QED
    BY <1>2, <2>2, <2>3 DEF LoadFirst
<1>3. ASSUME NEW c \in RefreshCalls, TakeLease(c) PROVE TokenShape'
  <2>1. /\ Moved(c, "reload") \in CallRecords /\ Moved(c, "reload").at = "reload"
        /\ call' = [call EXCEPT ![c] = Moved(c, "reload")] /\ call[c].at \notin Past
    BY <1>0, <1>3, CallGotoEffect DEF TakeLease, Positions, At, Past
  <2>2. QED
    BY <1>0, <1>3, <2>1, CallMoves DEF TakeLease, storeVars, providerVars, plainVars, windowVars, TokenTyped
<1>4. ASSUME NEW c \in RefreshCalls, GiveUpLease(c) PROVE TokenShape'
  <2>1. tokenStore' \in 1..issued /\ slips' \subseteq Slips
    BY <1>0, <1>4, LoadsAreTyped DEF GiveUpLease
  <2>2. QED
    BY <1>0, <1>4, <2>1, CallEnds DEF GiveUpLease
<1>5. ASSUME NEW c \in RefreshCalls, Reload(c) PROVE TokenShape'
  <2>1. tokenStore' \in 1..issued /\ Effective \in 1..issued /\ slips' \subseteq Slips
    BY <1>0, <1>5, LoadsAreTyped DEF Reload
  <2>2. CASE EndCall(c)
    BY <1>0, <1>5, <2>1, <2>2, CallEnds DEF Reload
  <2>3. CASE /\ call' = [call EXCEPT ![c].at = "ask", ![c].cur = Effective]
             /\ UNCHANGED <<windowVars, refreshLease>>
    <3> DEFINE r == [call[c] EXCEPT !.at = "ask", !.cur = Effective]
    <3>1. r \in CallRecords /\ r.at = "ask" /\ r.cur # 0
      <4>1. call[c] \in CallRecords /\ Effective # 0 /\ Effective \in 0..issued
        BY <1>0, <2>1 DEF TokenTyped
      <4>2. QED
        BY <4>1 DEF CallRecords, Positions
    <3> HIDE DEF r
    <3>2. call' = [call EXCEPT ![c] = r] /\ call[c].at \notin Past
      BY <1>5, <2>3 DEF r, Reload, At, Past
    <3>3. QED
      BY <1>0, <1>5, <2>1, <2>3, <3>1, <3>2, CallMoves
         DEF Reload, storeVars, providerVars, plainVars, windowVars, TokenTyped
  <2>4. QED
    BY <1>5, <2>2, <2>3 DEF Reload
<1>6. ASSUME NEW c \in RefreshCalls, AskProvider(c) PROVE TokenShape'
  BY <1>6, AskProviderShape
<1>7. ASSUME NEW c \in RefreshCalls, ReadAnswer(c) PROVE TokenShape'
  <2>1. call[c] \in CallRecords /\ call[c].at = "answer" /\ call[c].cur \in 0..issued
    BY <1>0, <1>7 DEF ReadAnswer, At, TokenTyped, CallRecords
  <2>2. CASE call[c].got # 0 /\ ~Superseded(c)
    <3>1. /\ Moved(c, "save") \in CallRecords /\ Moved(c, "save").at = "save"
          /\ Moved(c, "save").cur # 0 /\ Moved(c, "save").got # 0
          /\ call' = [call EXCEPT ![c] = Moved(c, "save")]
          /\ UNCHANGED <<windowVars, refreshLease, tokenStore, refused, slips>>
      BY <1>0, <1>7, <2>1, <2>2, CallGotoEffect DEF ReadAnswer, Positions, TokenShape, PairsAtHand
    <3>2. QED
      BY <1>0, <1>7, <3>1, CallMoves
         DEF ReadAnswer, Past, storeVars, providerVars, plainVars, windowVars, TokenTyped
  <2>3. CASE ~(call[c].got # 0 /\ ~Superseded(c))
    <3>1. tokenStore' \in 1..issued /\ slips' \subseteq Slips /\ refused' \in 0..issued
      BY <1>0, <1>7, <2>1, <2>3, LoadsAreTyped DEF ReadAnswer
    <3>2. QED
      BY <1>0, <1>7, <2>3, <3>1, CallEnds DEF ReadAnswer
  <2>4. QED
    BY <2>2, <2>3
<1>8. ASSUME NEW c \in RefreshCalls, SaveRefreshed(c) PROVE TokenShape'
  <2>1. call[c] \in CallRecords /\ call[c].at = "save" /\ call[c].got \in 1..issued
    <3>1. call[c] \in CallRecords /\ call[c].at = "save" /\ call[c].got # 0
      BY <1>0, <1>8 DEF SaveRefreshed, At, TokenShape, TokenTyped, PairsAtHand
    <3>2. QED
      BY <3>1, PairsAreNaturals, <1>0 DEF CallRecords, TokenTyped
  <2>2. CASE tokenStore = call[c].cur
    <3>1. /\ Moved(c, "mirror") \in CallRecords /\ Moved(c, "mirror").at = "mirror"
          /\ Moved(c, "mirror").got # 0 /\ call' = [call EXCEPT ![c] = Moved(c, "mirror")]
          /\ tokenStore' = call[c].got /\ writeLease' = c
      BY <1>0, <1>8, <2>1, <2>2, CallGotoEffect DEF SaveRefreshed, Positions
    <3>2. QED
      BY <1>0, <1>8, <2>1, <3>1, CallMoves
         DEF SaveRefreshed, Past, providerVars, plainVars, windowVars, TokenTyped
  <2>3. CASE tokenStore # call[c].cur
    <3>1. /\ Moved(c, "final") \in CallRecords /\ Moved(c, "final").at = "final"
          /\ call' = [call EXCEPT ![c] = Moved(c, "final")]
          /\ UNCHANGED <<tokenStore, writeLease>>
      BY <1>0, <1>8, <2>3, CallGotoEffect DEF SaveRefreshed, Positions
    <3>2. QED
      BY <1>0, <1>8, <2>1, <3>1, CallMoves
         DEF SaveRefreshed, Past, providerVars, plainVars, windowVars, TokenTyped
  <2>4. QED
    BY <2>2, <2>3
<1>9. ASSUME NEW c \in RefreshCalls, SaveTimesOut(c) PROVE TokenShape'
  BY <1>0, <1>9, CallEnds DEF SaveTimesOut, Slip, Slips
<1>10. ASSUME NEW c \in RefreshCalls, WriteMirror(c) PROVE TokenShape'
  <2>1. call[c] \in CallRecords /\ call[c].at = "mirror" /\ call[c].got \in 1..issued
    <3>1. call[c] \in CallRecords /\ call[c].at = "mirror" /\ call[c].got # 0
      BY <1>0, <1>10 DEF WriteMirror, At, TokenShape, TokenTyped, PairsAtHand
    <3>2. QED
      BY <3>1, PairsAreNaturals, <1>0 DEF CallRecords, TokenTyped
  <2>2. /\ Moved(c, "final") \in CallRecords /\ Moved(c, "final").at = "final"
        /\ call' = [call EXCEPT ![c] = Moved(c, "final")]
    BY <1>0, <1>10, CallGotoEffect DEF WriteMirror, Positions
  <2>3. tokenMirror' \in 1..issued /\ slips' \subseteq Slips
    BY <1>0, <1>10, <2>1 DEF WriteMirror, MirrorPair, Slip, Slips, TokenTyped
  <2>4. QED
    BY <1>0, <1>10, <2>1, <2>2, <2>3, CallMoves
       DEF WriteMirror, Past, providerVars, plainVars, windowVars, TokenTyped
<1>11. ASSUME NEW c \in RefreshCalls, FinishRefresh(c) PROVE TokenShape'
  <2>1. tokenStore' \in 1..issued /\ slips' \subseteq Slips
    BY <1>0, <1>11, LoadsAreTyped DEF FinishRefresh
  <2>2. QED
    BY <1>0, <1>11, <2>1, CallEnds DEF FinishRefresh
<1>12. ASSUME NEW c \in RefreshCalls, LoseAnswer(c) PROVE TokenShape'
  BY <1>0, <1>12, CallEnds DEF LoseAnswer, Slip, Slips
<1>13. ASSUME NEW w \in Windows, StoreLogin(w) PROVE TokenShape'
  BY <1>13, StoreLoginShape
<1>14. CASE ReadTokens
  <2>1. tokenStore' \in 1..issued /\ slips' \subseteq Slips
    BY <1>0, <1>14, LoadsAreTyped DEF ReadTokens
  <2>2. QED
    BY <1>0, <1>14, <2>1, CallsRest DEF ReadTokens, storeVars, providerVars, plainVars, windowVars, TokenTyped
<1>15. CASE MirrorLogin
  <2>1. newLogin \in 1..issued
    BY <1>0, <1>15 DEF MirrorLogin, TokenTyped
  <2>2. tokenMirror' \in 1..issued /\ slips' \subseteq Slips /\ newLogin' = 0
    BY <1>0, <1>15, <2>1 DEF MirrorLogin, MirrorPair, Slip, Slips, TokenTyped
  <2>3. QED
    BY <1>0, <1>15, <2>2, CallsRest DEF MirrorLogin, providerVars, plainVars, windowVars, TokenTyped
<1>16. CASE Ageing
  BY <1>0, <1>16, CallsRest DEF Ageing, storeVars, providerVars, plainVars, windowVars, TokenTyped
<1>17. CASE OverrunLease
  BY <1>0, <1>17, CallsRest DEF OverrunLease, Slip, Slips, storeVars, providerVars, plainVars, windowVars,
     TokenTyped
<1>20. ASSUME NEW q \in PlainWriters, PlainStep(q) PROVE TokenShape'
  BY <1>20, PlainShape
<1>18. CASE UNCHANGED tokenVars
  BY <1>0, <1>18, CallsRest DEF tokenVars, storeVars, providerVars, plainVars, windowVars, TokenTyped
<1>19. QED
  BY <1>1, <1>2, <1>3, <1>4, <1>5, <1>6, <1>7, <1>8, <1>9, <1>10, <1>11, <1>12, <1>13, <1>14,
     <1>15, <1>16, <1>17, <1>18, <1>20 DEF TokenNext, RefreshStep

-----------------------------------------------------------------------------
(* What holds until something slips.                                        *)

LEMMA SlipsGrow ==
  ASSUME TokenShape, [TokenNext]_tokenVars, slips' = {}
  PROVE  slips = {}
<1>1. LoadTokens => slips \subseteq slips'
  BY LoadsAreTyped DEF TokenShape
<1>2. \A p : MirrorPair(p) => slips \subseteq slips'
  BY DEF MirrorPair, Slip
<1>5. ASSUME NEW q \in PlainWriters, PlainStep(q) PROVE slips \subseteq slips'
  BY <1>1, <1>2, <1>5 DEF PlainStep, ReadForUse, TakeFresh, KeepImported, DropHeld, StoreHeld,
     SwitchToHeld, ReadForMirror, MirrorHeld, ReadAuthFile, AdoptAuthFile, Slip
<1>6. ASSUME NEW c \in RefreshCalls, StartRefresh(c) \/ RefreshStep(c) \/ LoseAnswer(c)
      PROVE  slips \subseteq slips'
  <2>1. LoadFirst(c) \/ GiveUpLease(c) \/ Reload(c) => slips \subseteq slips'
    BY <1>1 DEF LoadFirst, GiveUpLease, Reload
  <2>4. StartRefresh(c) \/ TakeLease(c) \/ AskProvider(c) => slips' = slips
    BY Zenon DEF StartRefresh, TakeLease, AskProvider
  <2>2. ReadAnswer(c) \/ SaveRefreshed(c) \/ SaveTimesOut(c) \/ WriteMirror(c) \/ FinishRefresh(c)
        \/ LoseAnswer(c) => slips \subseteq slips'
    BY <1>1, <1>2 DEF ReadAnswer, SaveRefreshed, SaveTimesOut, WriteMirror, FinishRefresh,
       LoseAnswer, Slip
  <2>3. QED
    BY <1>6, <2>1, <2>2, <2>4 DEF RefreshStep
<1>7. (\E w \in Windows : StoreLogin(w)) => slips \subseteq slips'
  BY DEF StoreLogin
<1>8. ReadTokens \/ MirrorLogin \/ Ageing \/ OverrunLease \/ UNCHANGED tokenVars =>
        slips \subseteq slips'
  BY <1>1, <1>2 DEF ReadTokens, MirrorLogin, Ageing, OverrunLease, tokenVars, Slip
<1>3. slips \subseteq slips'
  BY <1>5, <1>6, <1>7, <1>8 DEF TokenNext
<1>4. QED
  BY <1>3

(* A reader finds in the mirror nothing that the store has not.             *)
LEMMA LoadKeepsStore ==
  ASSUME TokenTyped, MirrorFollows, LoadTokens, slips' = {}
  PROVE  Effective = tokenStore /\ tokenStore' = tokenStore
<1>1. tokenStore' = Effective /\ ~(Effective < tokenStore)
  BY DEF LoadTokens
<1>2. Effective \in {tokenStore, tokenMirror} /\ tokenMirror <= tokenStore
      /\ tokenStore \in Nat /\ tokenMirror \in Nat
  BY EffectiveIsKept, PairsAreNaturals DEF MirrorFollows, TokenTyped
<1>3. QED
  BY <1>1, <1>2

(* Calls that work under the refresh lease exclude each other.              *)
LEMMA OneHolder ==
  ASSUME LeaseHeld, NEW c \in RefreshCalls, NEW d \in RefreshCalls,
         call[c].at \in Holding, call[d].at \in Holding
  PROVE  c = d
BY DEF LeaseHeld

(* The step of a call that touches no pair.                                 *)
LEMMA QuietCallStep ==
  ASSUME TokenTyped, Unslipped, NEW c \in RefreshCalls, NEW r \in CallRecords,
         call' = [call EXCEPT ![c] = r],
         UNCHANGED <<tokenStore, storeVars, providerVars, generation>>,
         call[c].at # "mirror", r.at # "mirror",
         r.at \in Holding => refreshLease' = c,
         \A d \in RefreshCalls : d # c /\ refreshLease = d => refreshLease' = d,
         call[c].at \in {"answer", "save"} /\ call[c].cur = tokenStore =>
           r.at \in {"answer", "save"} /\ r.cur = call[c].cur,
         r.at = "ask" => r.cur \in accepted /\ r.gen = generation[CallWindow[c]],
         r.at \in {"answer", "save"} =>
           /\ call[c].at \in {"answer", "save"} /\ r.gen = call[c].gen
           /\ r.cur = call[c].cur /\ r.got = call[c].got
  PROVE  Unslipped'
<1>1. call'[c] = r /\ \A d \in RefreshCalls : d # c => call'[d] = call[d]
  BY DEF TokenTyped
<1>2. LeaseHeld'
  BY <1>1 DEF Unslipped, LeaseHeld
<1>3. MirrorFollows'
  BY <1>1 DEF Unslipped, MirrorFollows, storeVars
<1>4. StoreUsable'
  BY <1>1 DEF Unslipped, StoreUsable, providerVars
<1>5. CallUsable'
  <2>1. ASSUME NEW d \in RefreshCalls, d # c
        PROVE  /\ call'[d].at = "ask" => call'[d].cur \in accepted'
               /\ call'[d].at \in {"answer", "save", "mirror"} =>
                    /\ call'[d].got \in accepted' /\ call'[d].got > call'[d].cur
                    /\ loginOf'[call'[d].got] = loginOf'[call'[d].cur]
               /\ call'[d].at \in {"ask", "answer", "save"} /\ Superseded(d)' =>
                    call'[d].cur # tokenStore'
    BY <1>1, <2>1 DEF Unslipped, CallUsable, Superseded, providerVars
  <2>2. /\ r.at = "ask" => r.cur \in accepted'
        /\ r.at \in {"answer", "save", "mirror"} =>
             /\ r.got \in accepted' /\ r.got > r.cur
             /\ loginOf'[r.got] = loginOf'[r.cur]
    BY DEF Unslipped, CallUsable, providerVars
  <2>3. r.at \in {"ask", "answer", "save"} /\ Superseded(c)' => r.cur # tokenStore'
    BY <1>1 DEF Unslipped, CallUsable, Superseded, providerVars
  <2>4. QED
    BY <1>1, <2>1, <2>2, <2>3 DEF CallUsable
<1>6. AcceptedIsUnasked' /\ NewestLoginStored'
  BY DEF Unslipped, AcceptedIsUnasked, NewestLoginStored, providerVars
<1>7. QED
  BY <1>2, <1>3, <1>4, <1>5, <1>6 DEF Unslipped

(* A call that ends without having exchanged the stored pair.               *)
LEMMA QuietCallEnds ==
  ASSUME TokenTyped, Unslipped, NEW c \in RefreshCalls, EndCall(c),
         UNCHANGED <<tokenStore, storeVars, providerVars>>,
         call[c].at # "mirror",
         ~(call[c].at \in {"answer", "save"} /\ call[c].cur = tokenStore)
  PROVE  Unslipped'
<1>1. /\ EndedCall \in CallRecords /\ EndedCall.at = "done"
      /\ call' = [call EXCEPT ![c] = EndedCall]
      /\ refreshLease' = IF refreshLease = c THEN NoCall ELSE refreshLease
      /\ UNCHANGED generation
  BY EndCallEffect
<1>2. QED
  BY <1>1, QuietCallStep DEF Holding

(* The refresh token that is sent is one nobody has sent.                   *)
LEMMA AskUnslipped ==
  ASSUME TokenShape, Unslipped, NEW c \in RefreshCalls, AskProvider(c)
  PROVE  Unslipped'
<1>1. /\ TokenTyped /\ issued \in Nat /\ call[c].at = "ask" /\ call[c] \in CallRecords
      /\ call[c].cur \in accepted /\ call[c].cur \in 1..issued
  <2>1. TokenTyped /\ issued \in Nat /\ call[c].at = "ask" /\ call[c] \in CallRecords
    BY PairsAreNaturals DEF AskProvider, At, TokenShape, TokenTyped
  <2>2. call[c].cur \in accepted
    BY <2>1 DEF Unslipped, CallUsable
  <2>3. QED
    BY <2>1, <2>2 DEF TokenTyped
<1>2. issued + 1 \in Pairs /\ call[c].cur \in Pairs
  BY <1>1, AskProviderShape, PairsAreNaturals DEF TokenTyped
<1> DEFINE r == [call[c] EXCEPT !.at = "answer", !.got = issued + 1]
<1>3. /\ issued' = issued + 1 /\ accepted' = (accepted \ {call[c].cur}) \cup {issued + 1}
      /\ loginOf' = [loginOf EXCEPT ![issued + 1] = loginOf[call[c].cur]]
      /\ call' = [call EXCEPT ![c] = r]
      /\ asked' = [asked EXCEPT ![call[c].cur] = @ + 1]
      /\ UNCHANGED <<tokenStore, tokenMirror, writeLease, newLogin, generation, refreshLease>>
  BY <1>1 DEF AskProvider, storeVars, windowVars
<1>4. r.at = "answer" /\ r.cur = call[c].cur /\ r.got = issued + 1 /\ r.gen = call[c].gen
  BY <1>1 DEF CallRecords
<1> HIDE DEF r
<1>5. /\ call'[c] = r
      /\ \A d \in RefreshCalls : d # c =>
           call'[d] = call[d] /\ call[d].at \notin Holding /\ call[d] \in CallRecords
  BY <1>1, <1>3, OneHolder DEF TokenTyped, Unslipped, Holding
<1>6. LeaseHeld'
  BY <1>1, <1>3, <1>4, <1>5 DEF Unslipped, LeaseHeld, Holding
<1>7. MirrorFollows'
  BY <1>1, <1>3, <1>4, <1>5 DEF Unslipped, MirrorFollows, Holding
<1>8. StoreUsable'
  <2>1. tokenStore \in accepted
    BY <1>1, <1>5 DEF Unslipped, StoreUsable, Holding
  <2>2. CASE tokenStore = call[c].cur
    BY <1>3, <1>4, <1>5, <2>2 DEF StoreUsable
  <2>3. CASE tokenStore # call[c].cur
    BY <1>3, <2>1, <2>3 DEF StoreUsable
  <2>4. QED
    BY <2>2, <2>3
<1>9. CallUsable'
  <2>1. /\ loginOf'[issued + 1] = loginOf[call[c].cur]
        /\ loginOf'[call[c].cur] = loginOf[call[c].cur]
    BY <1>1, <1>2, <1>3 DEF TokenTyped
  <2>2. Superseded(c)' => call[c].cur # tokenStore
    BY <1>1, <1>3, <1>4, <1>5 DEF Unslipped, CallUsable, Superseded
  <2>3. r.got \in accepted' /\ r.got > r.cur /\ loginOf'[r.got] = loginOf'[r.cur]
    BY <1>1, <1>3, <1>4, <2>1
  <2>4. QED
    BY <1>3, <1>4, <1>5, <2>2, <2>3 DEF CallUsable, Holding
<1>10. AcceptedIsUnasked'
  <2>1. asked[call[c].cur] = 0 /\ asked[issued + 1] = 0 /\ issued + 1 # call[c].cur
    BY <1>1, <1>2 DEF Unslipped, AcceptedIsUnasked, TokenShape, FuturePairs
  <2>2. asked'[call[c].cur] = 1 /\ asked'[issued + 1] = 0
        /\ \A p \in Pairs : p # call[c].cur => asked'[p] = asked[p]
    BY <1>1, <1>2, <1>3, <2>1 DEF TokenTyped
  <2>3. QED
    BY <1>3, <2>1, <2>2 DEF Unslipped, AcceptedIsUnasked
<1>11. NewestLoginStored'
  <2>1. tokenStore \in Pairs /\ tokenStore # issued + 1
    BY <1>1, PairsAreNaturals DEF TokenTyped
  <2>2. loginOf'[tokenStore] = loginOf[tokenStore]
    BY <1>3, <2>1 DEF TokenTyped
  <2>3. \A p \in Pairs : loginOf'[p] \in {loginOf[p], loginOf[call[c].cur]}
    BY <1>1, <1>3 DEF TokenTyped
  <2>4. QED
    BY <1>2, <1>3, <2>2, <2>3 DEF Unslipped, NewestLoginStored
<1>12. QED
  BY <1>6, <1>7, <1>8, <1>9, <1>10, <1>11 DEF Unslipped

(* The new pair takes the place of the one it was exchanged for.            *)
LEMMA SaveUnslipped ==
  ASSUME TokenShape, Unslipped, NEW c \in RefreshCalls, SaveRefreshed(c)
  PROVE  Unslipped'
<1>1. /\ TokenTyped /\ call[c].at = "save" /\ call[c] \in CallRecords /\ writeLease = NoCall
      /\ UNCHANGED <<tokenMirror, newLogin, providerVars, generation, refreshLease>>
      /\ issued \in Nat
  BY PairsAreNaturals DEF SaveRefreshed, At, windowVars, TokenShape, TokenTyped
<1>2. CASE tokenStore # call[c].cur
  <2>1. /\ Moved(c, "final") \in CallRecords /\ Moved(c, "final").at = "final"
        /\ call' = [call EXCEPT ![c] = Moved(c, "final")]
        /\ UNCHANGED <<tokenStore, writeLease>>
    BY <1>1, <1>2, CallGotoEffect DEF SaveRefreshed, Positions
  <2>2. refreshLease = c
    BY <1>1 DEF Unslipped, LeaseHeld, Holding
  <2>3. QED
    BY <1>1, <1>2, <2>1, <2>2, QuietCallStep DEF storeVars
<1>3. CASE tokenStore = call[c].cur
  <2> DEFINE r == Moved(c, "mirror")
  <2>1. /\ r \in CallRecords /\ r.at = "mirror" /\ r.got = call[c].got /\ r.cur = call[c].cur
        /\ call' = [call EXCEPT ![c] = r]
        /\ tokenStore' = call[c].got /\ writeLease' = c
    BY <1>1, <1>3, CallGotoEffect DEF SaveRefreshed, Positions
  <2> HIDE DEF r
  <2>2. /\ call'[c] = r
        /\ \A d \in RefreshCalls : d # c => call'[d] = call[d] /\ call[d].at \notin Holding
    BY <1>1, <2>1, OneHolder DEF TokenTyped, Unslipped, Holding
  <2>3. /\ call[c].got \in accepted /\ call[c].got > call[c].cur
        /\ loginOf[call[c].got] = loginOf[call[c].cur] /\ call[c].got \in Nat
    BY <1>1 DEF Unslipped, CallUsable, CallRecords
  <2>4. LeaseHeld'
    BY <1>1, <2>1, <2>2 DEF Unslipped, LeaseHeld, Holding
  <2>5. MirrorFollows'
    <3>1. /\ newLogin = 0 /\ tokenMirror = tokenStore /\ c # NoCall /\ c # Login
          /\ \A d \in RefreshCalls : call[d].at # "mirror"
      BY <1>1, TokenRefreshAssumption DEF Unslipped, MirrorFollows
    <3>2. tokenMirror' <= tokenStore' /\ writeLease' # NoCall /\ writeLease' # Login
      BY <1>1, <1>3, <2>1, <2>3, <3>1 DEF TokenTyped
    <3>3. QED
      BY <1>1, <2>1, <2>2, <3>1, <3>2 DEF MirrorFollows
  <2>6. StoreUsable'
    BY <1>1, <2>1, <2>3 DEF StoreUsable, providerVars
  <2>7. CallUsable'
    BY <1>1, <2>1, <2>2, <2>3 DEF CallUsable, Holding, providerVars
  <2>8. AcceptedIsUnasked'
    BY <1>1 DEF Unslipped, AcceptedIsUnasked, providerVars
  <2>9. NewestLoginStored'
    BY <1>1, <1>3, <2>1, <2>3 DEF Unslipped, NewestLoginStored, providerVars
  <2>10. QED
    BY <2>4, <2>5, <2>6, <2>7, <2>8, <2>9 DEF Unslipped
<1>4. QED
  BY <1>2, <1>3

(* The writer brings the mirror to where the store is.                      *)
LEMMA WriteMirrorUnslipped ==
  ASSUME TokenShape, Unslipped, NEW c \in RefreshCalls, WriteMirror(c), slips' = {}
  PROVE  Unslipped'
<1>1. /\ TokenTyped /\ call[c].at = "mirror" /\ writeLease' = NoCall
      /\ tokenMirror' = call[c].got /\ tokenStore = call[c].got
      /\ UNCHANGED <<tokenStore, newLogin, providerVars, generation, refreshLease>>
      /\ writeLease = c /\ newLogin = 0 /\ issued \in Nat /\ tokenStore \in 1..issued
  <2>1. slips' # slips \cup {"mirror"}
    OBVIOUS
  <2>2. call[c].at = "mirror" /\ tokenMirror' = call[c].got /\ writeLease' = NoCall
    BY <2>1 DEF WriteMirror, At, MirrorPair, Slip
  <2>3. writeLease = c /\ newLogin = 0 /\ tokenStore = call[c].got
    BY <2>2, TokenRefreshAssumption DEF Unslipped, MirrorFollows
  <2>4. QED
    BY <2>2, <2>3, PairsAreNaturals DEF WriteMirror, windowVars, TokenShape, TokenTyped
<1> DEFINE r == Moved(c, "final")
<1>2. r.at = "final" /\ call' = [call EXCEPT ![c] = r]
  BY <1>1, CallGotoEffect DEF WriteMirror, Positions
<1> HIDE DEF r
<1>3. /\ call'[c] = r
      /\ \A d \in RefreshCalls : d # c => call'[d] = call[d] /\ call[d].at \notin Holding
  BY <1>1, <1>2, OneHolder DEF TokenTyped, Unslipped, Holding
<1>4. LeaseHeld'
  BY <1>1, <1>2, <1>3 DEF Unslipped, LeaseHeld, Holding
<1>5. MirrorFollows'
  <2>1. /\ writeLease' # Login /\ newLogin' = 0 /\ tokenMirror' = tokenStore'
        /\ tokenMirror' <= tokenStore'
    BY <1>1, TokenRefreshAssumption
  <2>2. \A d \in RefreshCalls : call'[d].at # "mirror" /\ writeLease' # d
    BY <1>1, <1>2, <1>3, TokenRefreshAssumption DEF Holding
  <2>3. QED
    BY <2>1, <2>2 DEF MirrorFollows
<1>6. StoreUsable'
  BY <1>1 DEF Unslipped, CallUsable, StoreUsable, providerVars
<1>7. CallUsable'
  BY <1>1, <1>2, <1>3 DEF CallUsable, Holding
<1>8. AcceptedIsUnasked' /\ NewestLoginStored'
  BY <1>1 DEF Unslipped, AcceptedIsUnasked, NewestLoginStored, providerVars
<1>9. QED
  BY <1>4, <1>5, <1>6, <1>7, <1>8 DEF Unslipped

(* A login is newer than whatever the refreshes under way have read.        *)
LEMMA StoreLoginUnslipped ==
  ASSUME TokenShape, Unslipped, NEW w \in Windows, StoreLogin(w)
  PROVE  Unslipped'
<1>1. /\ TokenTyped /\ issued \in Nat /\ writeLease = NoCall
      /\ issued' = issued + 1 /\ newLogin' = issued + 1 /\ tokenStore' = issued + 1
      /\ accepted' = accepted \cup {issued + 1}
      /\ loginOf' = [loginOf EXCEPT ![issued + 1] = issued + 1]
      /\ writeLease' = Login
      /\ UNCHANGED <<tokenMirror, asked, refreshLease, call>>
      /\ issued + 1 \in Pairs
  BY PairsAreNaturals, StoreLoginShape DEF StoreLogin, TokenShape, TokenTyped
<1>2. \A c \in RefreshCalls : call[c] \in CallRecords /\ call[c].cur <= issued
        /\ call[c].cur \in Nat
  BY <1>1 DEF TokenTyped, CallRecords
<1>3. LeaseHeld'
  BY <1>1 DEF Unslipped, LeaseHeld
<1>4. MirrorFollows'
  <2>1. \A c \in RefreshCalls : call[c].at # "mirror" /\ c # Login
    BY <1>1, TokenRefreshAssumption DEF Unslipped, MirrorFollows
  <2>2. tokenMirror <= issued + 1 /\ issued + 1 # 0
    BY <1>1 DEF TokenTyped
  <2>3. QED
    BY <1>1, <2>1, <2>2, TokenRefreshAssumption DEF MirrorFollows
<1>5. StoreUsable'
  BY <1>1 DEF StoreUsable
<1>6. CallUsable'
  <2>1. ASSUME NEW c \in RefreshCalls, call[c].at \in {"answer", "save", "mirror"}
        PROVE  /\ call[c].got # issued + 1 /\ call[c].cur # issued + 1
               /\ loginOf'[call[c].got] = loginOf[call[c].got]
               /\ loginOf'[call[c].cur] = loginOf[call[c].cur]
    BY <1>1, <1>2, <2>1 DEF TokenTyped, Unslipped, CallUsable
  <2>2. QED
    BY <1>1, <1>2, <2>1 DEF Unslipped, CallUsable
<1>7. AcceptedIsUnasked'
  <2>1. asked[issued + 1] = 0
    BY <1>1 DEF TokenShape, FuturePairs
  <2>2. QED
    BY <1>1, <2>1 DEF Unslipped, AcceptedIsUnasked
<1>8. NewestLoginStored'
  <2>1. \A p \in Pairs : loginOf[p] \in Nat /\ loginOf[p] <= issued
    BY <1>1 DEF TokenTyped
  <2>2. loginOf'[issued + 1] = issued + 1
    BY <1>1 DEF TokenTyped
  <2>3. \A p \in Pairs : loginOf'[p] \in {loginOf[p], issued + 1}
    BY <1>1 DEF TokenTyped
  <2>4. QED
    BY <1>1, <2>1, <2>2, <2>3 DEF NewestLoginStored
<1>9. QED
  BY <1>3, <1>4, <1>5, <1>6, <1>7, <1>8 DEF Unslipped

LEMMA MirrorLoginUnslipped ==
  ASSUME TokenShape, Unslipped, MirrorLogin, slips' = {}
  PROVE  Unslipped'
<1>1. /\ newLogin # 0 /\ tokenStore = newLogin /\ writeLease = Login
      /\ tokenMirror' = newLogin /\ newLogin' = 0 /\ writeLease' = NoCall
      /\ UNCHANGED <<tokenStore, providerVars, generation, refreshLease, call>>
      /\ tokenStore \in Nat
  <2>1. slips' # slips \cup {"mirror"}
    OBVIOUS
  <2>2. newLogin # 0 /\ tokenStore = newLogin /\ writeLease = Login
    BY DEF MirrorLogin, Unslipped, MirrorFollows
  <2>3. QED
    BY <2>1, <2>2, PairsAreNaturals
       DEF MirrorLogin, MirrorPair, Slip, windowVars, TokenShape, TokenTyped
<1>2. MirrorFollows'
  <2>1. \A c \in RefreshCalls : call[c].at # "mirror" /\ c # NoCall
    BY <1>1, TokenRefreshAssumption DEF Unslipped, MirrorFollows
  <2>2. QED
    BY <1>1, <2>1, TokenRefreshAssumption DEF MirrorFollows
<1>3. LeaseHeld' /\ StoreUsable'
  BY <1>1 DEF Unslipped, LeaseHeld, StoreUsable, providerVars
<1>4. CallUsable'
  BY <1>1 DEF Unslipped, CallUsable, Superseded, providerVars
<1>5. AcceptedIsUnasked' /\ NewestLoginStored'
  BY <1>1 DEF Unslipped, AcceptedIsUnasked, NewestLoginStored, providerVars
<1>6. QED
  BY <1>2, <1>3, <1>4, <1>5 DEF Unslipped

(* A step that moves no call and no pair.                                   *)
LEMMA NothingMoves ==
  ASSUME Unslipped, UNCHANGED <<tokenStore, storeVars, providerVars, generation, refreshLease, call>>
  PROVE  Unslipped'
BY DEF Unslipped, LeaseHeld, MirrorFollows, StoreUsable, CallUsable, Superseded,
   AcceptedIsUnasked, NewestLoginStored, storeVars, providerVars

(* A writer without a lease leaves the stored pair, and brings the mirror at *)
(* most to it.                                                              *)
LEMMA PlainUnslipped ==
  ASSUME TokenShape, Unslipped, NothingAhead, NEW q \in PlainWriters, PlainStep(q), slips' = {}
  PROVE  Unslipped' /\ NothingAhead'
<1>1. /\ TokenTyped /\ plain[q] \in PlainRecords /\ issued \in Nat
      /\ tokenStore \in Nat /\ tokenMirror \in Nat /\ authFile \in Nat /\ newLogin \in Nat
      /\ plain[q].pair \in Nat /\ plain[q].pair <= tokenStore /\ authFile <= tokenStore
      /\ tokenMirror <= tokenStore /\ (newLogin # 0 => newLogin = tokenStore)
      /\ (writeLease = NoCall => tokenMirror = tokenStore)
  <2>1. TokenTyped /\ plain[q] \in PlainRecords /\ issued \in Nat
    BY PairsAreNaturals DEF TokenShape, TokenTyped
  <2>2. QED
    BY <2>1 DEF TokenTyped, PlainRecords, NothingAhead, Unslipped, MirrorFollows
<1>2. LoadTokens => Effective = tokenStore /\ tokenStore' = tokenStore
  BY <1>1, LoadKeepsStore DEF Unslipped
<1>0. plain = [d \in PlainWriters |-> plain[d]]
  BY <1>1 DEF TokenTyped
<1>3. /\ UNCHANGED otherVars /\ tokenStore' = tokenStore
      /\ tokenMirror' \in {tokenMirror, plain[q].pair} /\ tokenMirror' >= tokenMirror
      /\ authFile' \in {authFile, plain[q].pair}
      /\ plain'[q].pair \in {0, plain[q].pair, tokenStore, authFile}
      /\ \A d \in PlainWriters : d # q => plain'[d] = plain[d]
  <2>1. CASE ReadForUse(q)
    BY <1>0, <1>1, <1>2, <2>1 DEF ReadForUse, PlainGoto
  <2>2. CASE TakeFresh(q)
    BY <1>0, <1>1, <1>2, <2>2 DEF TakeFresh, PlainGoto
  <2>3. CASE KeepImported(q)
    BY <1>0, <1>1, <2>3 DEF KeepImported, PlainGoto
  <2>4. CASE DropHeld(q)
    BY <1>0, <1>1, <2>4 DEF DropHeld, PlainEnds, IdlePlain
  <2>5. CASE StoreHeld(q)
    <3>1. UNCHANGED <<otherVars, tokenMirror, authFile>> /\ tokenStore' = tokenStore
      <4>1. plain[q].changed => ~(plain[q].pair < tokenStore) /\ tokenStore' = plain[q].pair
        BY <2>5 DEF StoreHeld
      <4>2. ~plain[q].changed => tokenStore' = tokenStore
        BY <2>5 DEF StoreHeld
      <4>3. tokenStore' = tokenStore
        BY <1>1, <4>1, <4>2
      <4>4. QED
        BY <2>5, <4>3 DEF StoreHeld
    <3>2. /\ plain'[q].pair \in {0, plain[q].pair, tokenStore, authFile}
          /\ \A d \in PlainWriters : d # q => plain'[d] = plain[d]
      BY <1>0, <2>5 DEF StoreHeld, PlainGoto
    <3>3. QED
      BY <1>1, <3>1, <3>2
  <2>6. CASE SwitchToHeld(q)
    BY <1>0, <1>1, <2>6 DEF SwitchToHeld, PlainGoto
  <2>7. CASE ReadForMirror(q)
    BY <1>0, <1>1, <2>7 DEF ReadForMirror, PlainGoto
  <2>8. CASE MirrorHeld(q)
    <3>1. UNCHANGED <<otherVars, tokenStore>> /\ authFile' \in {authFile, plain[q].pair}
      BY <2>8 DEF MirrorHeld
    <3>2. tokenMirror' \in {tokenMirror, plain[q].pair} /\ tokenMirror' >= tokenMirror
      BY <1>1, <2>8 DEF MirrorHeld, MirrorPair, Slip
    <3>3. plain'[q].pair = 0 /\ \A d \in PlainWriters : d # q => plain'[d] = plain[d]
      BY <1>0, <2>8 DEF MirrorHeld, PlainEnds, IdlePlain
    <3>4. QED
      BY <3>1, <3>2, <3>3
  <2>9. CASE ReadAuthFile(q)
    BY <1>0, <1>1, <2>9 DEF ReadAuthFile, PlainGoto
  <2>10. CASE AdoptAuthFile(q)
    <3>1. UNCHANGED <<otherVars, tokenMirror, authFile>> /\ tokenStore' = tokenStore
      <4>1. plain[q].pair # tokenStore =>
              ~(plain[q].pair < tokenStore) /\ tokenStore' = plain[q].pair
        BY <2>10 DEF AdoptAuthFile
      <4>2. plain[q].pair = tokenStore => tokenStore' = tokenStore
        BY <2>10 DEF AdoptAuthFile
      <4>3. tokenStore' = tokenStore
        BY <1>1, <4>1, <4>2
      <4>4. QED
        BY <2>10, <4>3 DEF AdoptAuthFile
    <3>2. /\ plain'[q].pair \in {0, plain[q].pair, tokenStore, authFile}
          /\ \A d \in PlainWriters : d # q => plain'[d] = plain[d]
      BY <1>0, <2>10 DEF AdoptAuthFile, PlainGoto, PlainEnds, IdlePlain
    <3>3. QED
      BY <1>1, <3>1, <3>2
  <2>11. QED
    BY <2>1, <2>2, <2>3, <2>4, <2>5, <2>6, <2>7, <2>8, <2>9, <2>10 DEF PlainStep
<1>4. UNCHANGED <<writeLease, newLogin, accepted, issued, loginOf, asked, generation, inFlight,
                  refreshLease, call>>
  BY <1>3 DEF otherVars, providerVars, windowVars
<1>5. MirrorFollows'
  <2>1. tokenMirror' <= tokenStore' /\ (writeLease = NoCall => tokenMirror' = tokenStore')
    BY <1>1, <1>3
  <2>2. QED
    BY <1>3, <1>4, <2>1 DEF Unslipped, MirrorFollows
<1>6. Unslipped'
  BY <1>3, <1>4, <1>5 DEF Unslipped, LeaseHeld, StoreUsable, CallUsable, Superseded,
     AcceptedIsUnasked, NewestLoginStored
<1>7. NothingAhead'
  <2>1. authFile' <= tokenStore'
    BY <1>1, <1>3
  <2>2. ASSUME NEW d \in PlainWriters PROVE plain'[d].pair <= tokenStore'
    BY <1>1, <1>3 DEF NothingAhead
  <2>3. QED
    BY <2>1, <2>2 DEF NothingAhead
<1>8. QED
  BY <1>6, <1>7

LEMMA TokenStepUnslipped ==
  ASSUME TokenShape, Unslipped, NothingAhead, [TokenNext]_tokenVars, slips' = {}
  PROVE  Unslipped'
<1>0. TokenTyped /\ MirrorFollows /\ tokenStore \in 1..issued
  BY DEF TokenShape, TokenTyped, Unslipped
<1>00. LoadTokens => Effective = tokenStore /\ tokenStore' = tokenStore
  BY <1>0, LoadKeepsStore
<1>1. ASSUME NEW c \in RefreshCalls, StartRefresh(c) PROVE Unslipped'
  <2>1. PICK force \in BOOLEAN :
          call' = [call EXCEPT ![c] = [IdleCall EXCEPT !.at = "load", !.force = force,
                                         !.gen = generation[CallWindow[c]]]]
    BY <1>1, Zenon DEF StartRefresh
  <2> DEFINE r == [IdleCall EXCEPT !.at = "load", !.force = force,
                                   !.gen = generation[CallWindow[c]]]
  <2>2. generation[CallWindow[c]] \in Nat /\ 0 \in 0..issued
    BY <1>0, TokenRefreshAssumption, PairsAreNaturals DEF TokenTyped
  <2>3. r \in CallRecords /\ r.at = "load"
    BY <1>0, <2>2 DEF IdleCall, CallRecords, Positions
  <2> HIDE DEF r
  <2>4. call' = [call EXCEPT ![c] = r] /\ call[c].at = "idle"
    BY <1>1, <2>1 DEF r, StartRefresh, At
  <2>5. QED
    BY <1>0, <1>1, <2>3, <2>4, QuietCallStep DEF StartRefresh, Holding
<1>2. ASSUME NEW c \in RefreshCalls, LoadFirst(c) PROVE Unslipped'
  <2>1. tokenStore' = tokenStore /\ Effective = tokenStore /\ call[c].at = "load"
    BY <1>00, <1>2 DEF LoadFirst, At
  <2>2. CASE EndCall(c)
    BY <1>0, <1>2, <2>1, <2>2, QuietCallEnds DEF LoadFirst
  <2>3. CASE /\ call' = [call EXCEPT ![c].at = "lease", ![c].init = Effective]
             /\ UNCHANGED <<windowVars, refreshLease>>
    <3> DEFINE r == [call[c] EXCEPT !.at = "lease", !.init = Effective]
    <3>1. r \in CallRecords /\ r.at = "lease"
      <4>1. call[c] \in CallRecords /\ Effective \in Nat /\ "lease" \in Positions
        BY <1>0, <2>1, PairsAreNaturals DEF TokenTyped, Positions
      <4>2. \A e \in Nat : [call[c] EXCEPT !.at = "lease", !.init = e] \in CallRecords
        BY <4>1, Zenon DEF CallRecords
      <4>3. \A e : [call[c] EXCEPT !.at = "lease", !.init = e].at = "lease"
        BY <4>1 DEF CallRecords
      <4>4. r \in CallRecords
        BY <4>1, <4>2, Zenon
      <4>5. QED
        BY <4>3, <4>4
    <3> HIDE DEF r
    <3>2. call' = [call EXCEPT ![c] = r]
      BY <2>3 DEF r
    <3>3. QED
      BY <1>0, <1>2, <2>1, <2>3, <3>1, <3>2, QuietCallStep DEF LoadFirst, windowVars, Holding
  <2>4. QED
    BY <1>2, <2>2, <2>3 DEF LoadFirst
<1>3. ASSUME NEW c \in RefreshCalls, TakeLease(c) PROVE Unslipped'
  <2>1. /\ Moved(c, "reload") \in CallRecords /\ Moved(c, "reload").at = "reload"
        /\ call' = [call EXCEPT ![c] = Moved(c, "reload")] /\ call[c].at = "lease"
        /\ refreshLease = NoCall /\ refreshLease' = c
    BY <1>0, <1>3, CallGotoEffect DEF TakeLease, Positions, At
  <2>2. QED
    BY <1>0, <1>3, <2>1, QuietCallStep, TokenRefreshAssumption DEF TakeLease, windowVars
<1>4. ASSUME NEW c \in RefreshCalls, GiveUpLease(c) PROVE Unslipped'
  BY <1>0, <1>00, <1>4, QuietCallEnds DEF GiveUpLease, At
<1>5. ASSUME NEW c \in RefreshCalls, Reload(c) PROVE Unslipped'
  <2>1. tokenStore' = tokenStore /\ Effective = tokenStore /\ call[c].at = "reload"
    BY <1>00, <1>5 DEF Reload, At
  <2>2. CASE EndCall(c)
    BY <1>0, <1>5, <2>1, <2>2, QuietCallEnds DEF Reload
  <2>3. CASE ~EndCall(c)
    <3> DEFINE r == [call[c] EXCEPT !.at = "ask", !.cur = tokenStore]
    <3>1. /\ call' = [call EXCEPT ![c] = r] /\ UNCHANGED <<windowVars, refreshLease>>
          /\ ~Superseded(c)
      BY <1>5, <2>1, <2>3 DEF Reload
    <3>2. call[c] \in CallRecords /\ tokenStore \in 0..issued
      BY <1>0 DEF TokenTyped
    <3>3. r \in CallRecords /\ r.at = "ask" /\ r.cur = tokenStore /\ r.gen = call[c].gen
      BY <3>2 DEF CallRecords, Positions
    <3> HIDE DEF r
    <3>4. r.gen = generation[CallWindow[c]]
      BY <3>1, <3>3 DEF Superseded
    <3>5. refreshLease = c /\ \A d \in RefreshCalls : call[d].at \notin {"answer", "save"}
      BY <2>1, OneHolder DEF Unslipped, LeaseHeld, Holding
    <3>6. tokenStore \in accepted
      BY <3>5 DEF Unslipped, StoreUsable
    <3>7. QED
      BY <1>0, <1>5, <2>1, <3>1, <3>3, <3>4, <3>5, <3>6, QuietCallStep DEF Reload, windowVars
  <2>4. QED
    BY <2>2, <2>3
<1>6. ASSUME NEW c \in RefreshCalls, AskProvider(c) PROVE Unslipped'
  BY <1>6, AskUnslipped
<1>7. ASSUME NEW c \in RefreshCalls, ReadAnswer(c) PROVE Unslipped'
  <2>1. /\ call[c] \in CallRecords /\ call[c].at = "answer" /\ call[c].got # 0
        /\ Superseded(c) => call[c].cur # tokenStore
    <3>1. call[c] \in CallRecords /\ call[c].at = "answer"
      BY <1>0, <1>7 DEF ReadAnswer, At, TokenTyped
    <3>2. call[c].got > call[c].cur /\ call[c].cur \in Nat
      BY <3>1 DEF Unslipped, CallUsable, CallRecords
    <3>3. QED
      BY <3>1, <3>2 DEF Unslipped, CallUsable
  <2>2. CASE ~Superseded(c)
    <3>1. /\ Moved(c, "save") \in CallRecords /\ Moved(c, "save").at = "save"
          /\ Moved(c, "save").gen = call[c].gen
          /\ Moved(c, "save").cur = call[c].cur /\ Moved(c, "save").got = call[c].got
          /\ call' = [call EXCEPT ![c] = Moved(c, "save")]
          /\ UNCHANGED <<windowVars, refreshLease, tokenStore>>
      BY <1>0, <1>7, <2>1, <2>2, CallGotoEffect DEF ReadAnswer, Positions
    <3>2. refreshLease = c
      BY <2>1 DEF Unslipped, LeaseHeld, Holding
    <3>3. QED
      BY <1>0, <1>7, <2>1, <3>1, <3>2, QuietCallStep DEF ReadAnswer, windowVars
  <2>3. CASE Superseded(c)
    BY <1>0, <1>00, <1>7, <2>1, <2>3, QuietCallEnds DEF ReadAnswer
  <2>4. QED
    BY <2>2, <2>3
<1>8. ASSUME NEW c \in RefreshCalls, SaveRefreshed(c) PROVE Unslipped'
  BY <1>8, SaveUnslipped
<1>9. ASSUME NEW c \in RefreshCalls, WriteMirror(c) PROVE Unslipped'
  BY <1>9, WriteMirrorUnslipped
<1>10. ASSUME NEW c \in RefreshCalls, FinishRefresh(c) PROVE Unslipped'
  BY <1>0, <1>00, <1>10, QuietCallEnds DEF FinishRefresh, At
<1>11. ASSUME NEW c \in RefreshCalls PROVE ~SaveTimesOut(c) /\ ~LoseAnswer(c)
  BY DEF SaveTimesOut, LoseAnswer, Slip
<1>12. ~OverrunLease
  BY DEF OverrunLease, Slip
<1>13. ASSUME NEW w \in Windows, StoreLogin(w) PROVE Unslipped'
  BY <1>13, StoreLoginUnslipped
<1>14. ~ReadTokens
  BY <1>00 DEF ReadTokens
<1>15. CASE MirrorLogin
  BY <1>15, MirrorLoginUnslipped
<1>16. CASE Ageing
  BY <1>16, NothingMoves DEF Ageing, windowVars
<1>17. CASE UNCHANGED tokenVars
  BY <1>17, NothingMoves DEF tokenVars, windowVars
<1>19. ASSUME NEW q \in PlainWriters, PlainStep(q) PROVE Unslipped'
  BY <1>19, PlainUnslipped
<1>18. QED
  BY <1>1, <1>2, <1>3, <1>4, <1>5, <1>6, <1>7, <1>8, <1>9, <1>10, <1>11, <1>12, <1>13, <1>14,
     <1>15, <1>16, <1>17, <1>19 DEF TokenNext, RefreshStep

(* The store never goes back, and what others have at hand was stored.      *)
LEMMA TokenStepAhead ==
  ASSUME TokenShape, Unslipped, NothingAhead, [TokenNext]_tokenVars, slips' = {}
  PROVE  NothingAhead'
<1>1. /\ TokenTyped /\ issued \in Nat /\ tokenStore \in Nat /\ tokenStore <= issued
      /\ authFile \in Nat /\ \A q \in PlainWriters : plain[q].pair \in Nat
  <2>1. TokenTyped /\ issued \in Nat
    BY PairsAreNaturals DEF TokenShape, TokenTyped
  <2>2. \A q \in PlainWriters : plain[q] \in PlainRecords
    BY <2>1 DEF TokenTyped
  <2>3. QED
    BY <2>1, <2>2 DEF TokenTyped, PlainRecords
<1>2. LoadTokens => tokenStore' = tokenStore
  BY <1>1, LoadKeepsStore DEF Unslipped
<1>3. ASSUME NEW q \in PlainWriters, PlainStep(q) PROVE NothingAhead'
  BY <1>3, PlainUnslipped
<1>4. ASSUME NEW c \in RefreshCalls, WriteMirror(c) PROVE NothingAhead'
  <2>1. authFile' = tokenStore /\ UNCHANGED <<tokenStore, plain>>
    BY <1>4 DEF WriteMirror, At, Unslipped, MirrorFollows
  <2>2. QED
    BY <1>1, <2>1 DEF NothingAhead
<1>5. ASSUME NEW c \in RefreshCalls, SaveRefreshed(c) PROVE NothingAhead'
  <2>1. tokenStore' \in Nat /\ tokenStore' >= tokenStore /\ UNCHANGED <<authFile, plain>>
    <3>1. call[c] \in CallRecords /\ call[c].at = "save" /\ call[c].got > call[c].cur
      BY <1>1, <1>5 DEF SaveRefreshed, At, TokenTyped, Unslipped, CallUsable
    <3>2. call[c].got \in Nat /\ call[c].cur \in Nat
      BY <1>1, <3>1 DEF CallRecords
    <3>3. QED
      BY <1>1, <1>5, <3>1, <3>2 DEF SaveRefreshed, plainVars
  <2>2. QED
    BY <1>1, <2>1 DEF NothingAhead
<1>6. ASSUME NEW w \in Windows, StoreLogin(w) PROVE NothingAhead'
  BY <1>1, <1>6 DEF StoreLogin, plainVars, NothingAhead
<1>7. ASSUME UNCHANGED <<tokenStore, plainVars>> PROVE NothingAhead'
  BY <1>7 DEF plainVars, NothingAhead
<1>8. ASSUME NEW c \in RefreshCalls,
             StartRefresh(c) \/ LoadFirst(c) \/ TakeLease(c) \/ GiveUpLease(c) \/ Reload(c)
      PROVE  NothingAhead'
  <2>1. StartRefresh(c) \/ TakeLease(c) => UNCHANGED <<tokenStore, plainVars>>
    BY Zenon DEF StartRefresh, TakeLease
  <2>2. LoadFirst(c) \/ GiveUpLease(c) \/ Reload(c) => UNCHANGED <<tokenStore, plainVars>>
    BY <1>2 DEF LoadFirst, GiveUpLease, Reload
  <2>3. QED
    BY <1>7, <1>8, <2>1, <2>2
<1>9. ASSUME NEW c \in RefreshCalls,
             AskProvider(c) \/ ReadAnswer(c) \/ SaveTimesOut(c) \/ FinishRefresh(c) \/ LoseAnswer(c)
      PROVE  NothingAhead'
  BY <1>2, <1>7, <1>9 DEF AskProvider, ReadAnswer, SaveTimesOut, FinishRefresh, LoseAnswer
<1>10. CASE ReadTokens \/ MirrorLogin \/ Ageing \/ OverrunLease \/ UNCHANGED tokenVars
  BY <1>2, <1>7, <1>10 DEF ReadTokens, MirrorLogin, Ageing, OverrunLease, tokenVars
<1>11. QED
  BY <1>3, <1>4, <1>5, <1>6, <1>8, <1>9, <1>10 DEF TokenNext, RefreshStep

LEMMA TokenInitUnslipped == TokenInit => Unslipped /\ NothingAhead
<1> SUFFICES ASSUME TokenInit PROVE Unslipped /\ NothingAhead
  OBVIOUS
<1>1. \A c \in RefreshCalls : call[c].at = "idle"
  BY DEF TokenInit, IdleCall
<1>2. LeaseHeld /\ CallUsable
  BY <1>1 DEF LeaseHeld, CallUsable, Holding
<1>3. MirrorFollows
  <2>1. tokenMirror = 1 /\ tokenStore = 1 /\ newLogin = 0 /\ writeLease = NoCall
    BY DEF TokenInit
  <2>2. QED
    BY <1>1, <2>1, TokenRefreshAssumption DEF MirrorFollows
<1>4. StoreUsable /\ AcceptedIsUnasked /\ NewestLoginStored
  BY PairsAreNaturals DEF TokenInit, StoreUsable, AcceptedIsUnasked, NewestLoginStored
<1>5. NothingAhead
  BY DEF TokenInit, IdlePlain, NothingAhead
<1>6. QED
  BY <1>2, <1>3, <1>4, <1>5 DEF Unslipped

(* The invariant: the shape always, the order of the pairs until something  *)
(* slips.                                                                   *)
THEOREM TokensAreInOrder == TokenSpec => []TokenInv
<1>1. TokenInit => TokenInv
  BY TokenInitShape, TokenInitUnslipped DEF TokenInv
<1>2. TokenInv /\ [TokenNext]_tokenVars => TokenInv'
  BY TokenStepShape, SlipsGrow, TokenStepUnslipped, TokenStepAhead DEF TokenInv
<1>3. QED
  BY <1>1, <1>2, PTL DEF TokenSpec

(* For any windows, calls and logins the pairs of the model suffice, and    *)
(* every lease is held by one of its takers.                                *)
THEOREM TokenTypeCorrect == TokenSpec => []TokenTypeOK
<1>1. TokenInv => TokenTypeOK
  <2> SUFFICES ASSUME TokenInv PROVE TokenTypeOK
    OBVIOUS
  <2>1. /\ issued \in Pairs /\ 1..issued \subseteq Pairs /\ issued \in Nat
        /\ tokenStore \in 1..issued /\ tokenMirror \in 1..issued /\ accepted \subseteq 1..issued
        /\ refused \in 0..issued /\ authFile \in 1..issued
        /\ plain \in [PlainWriters -> PlainRecords]
    BY PairsAreNaturals DEF TokenInv, TokenShape, TokenTyped
  <2>2. \A q \in PlainWriters : plain[q].pair \in Pairs \cup {0}
    BY <2>1 DEF PlainRecords
  <2>3. QED
    BY <2>1, <2>2 DEF TokenInv, TokenShape, TokenTyped, TokenTypeOK
<1>2. QED
  BY <1>1, TokensAreInOrder, PTL

(* Whatever windows refresh an account's credential at the same time, with  *)
(* whatever logins and writers without a lease in between, a refresh token  *)
(* is sent to the provider once (ensureFreshAccountTokens), as long as no   *)
(* answer, save, mirror or lease is lost, no reader stores back an older    *)
(* pair from the mirror, no writer without a lease (updateQuota) writes one *)
(* back that it has read, and none is adopted from auth.json.               *)
THEOREM RefreshTokenServesOnce == TokenSpec => []NeverAskedTwice
<1>1. TokenInv => NeverAskedTwice
  BY DEF TokenInv, Unslipped, AcceptedIsUnasked, NeverAskedTwice
<1>2. QED
  BY <1>1, TokensAreInOrder, PTL

(* And what is left when all is quiet is a pair of the last login that the  *)
(* provider takes, with the same exceptions.                                *)
THEOREM LastLoginStays == TokenSpec => []UsablePairStays
<1>1. TokenInv => UsablePairStays
  <2> SUFFICES ASSUME TokenInv, TokensQuiet, slips = {}
               PROVE  Effective \in accepted /\ \A l \in Logins : l <= loginOf[Effective]
    BY DEF UsablePairStays
  <2>1. TokenTyped /\ Unslipped
    BY DEF TokenInv, TokenShape
  <2>2. \A c \in RefreshCalls : call[c].at \in {"idle", "done"}
    BY DEF TokensQuiet
  <2>3. writeLease = NoCall
    BY <2>1, <2>2 DEF TokensQuiet, TokenTyped, Unslipped, MirrorFollows
  <2>4. Effective = tokenStore
    BY <2>1, <2>3, EffectiveIsKept DEF Unslipped, MirrorFollows
  <2>5. tokenStore \in accepted
    BY <2>1, <2>2 DEF Unslipped, StoreUsable
  <2>6. QED
    BY <2>1, <2>4, <2>5 DEF Unslipped, NewestLoginStored, Logins
<1>2. QED
  BY <1>1, TokensAreInOrder, PTL

-----------------------------------------------------------------------------
(* The evidence of its health.                                             *)

Observations ==
  [cred : Credentials, kind : ObservedKinds, at : Nat, run : Nat, seq : Nat]
Confirmations == [cred : Credentials, at : Nat]

(* What the tables, or their copy on disk, may hold.                        *)
ObservedSoFar == {o \in Observations : o.at <= clock}
ConfirmedSoFar == {c \in Confirmations : c.at <= clock}

EvidenceTyped ==
  /\ clock \in Nat /\ clock >= 1 /\ clock <= MaxClock
  /\ inUse \in Credentials /\ runtimeId \in Nat /\ sequence \in 0..MaxEvents
  /\ underWay \subseteq ObservedSoFar /\ \A o \in underWay : o.cred <= inUse
  /\ availability \in ObservedSoFar \cup {NoEvidence}
  /\ confirmation \in ConfirmedSoFar \cup {NoEvidence}
  /\ savedEvidence.availability \in ObservedSoFar \cup {NoEvidence}
  /\ savedEvidence.confirmation \in ConfirmedSoFar \cup {NoEvidence}
  /\ pendingWrite \in BOOLEAN /\ evidenceLost \in BOOLEAN
  /\ workedAt \in [Credentials -> 0..clock] /\ rejectedAt \in [Credentials -> 0..clock]

(* Nothing is known of a credential the account has not had yet.            *)
FutureUnused == \A c \in Credentials : c > inUse => workedAt[c] = 0 /\ rejectedAt[c] = 0

(* The file is behind the tables only while a write is pending.             *)
SavedIsCurrent ==
  ~pendingWrite =>
    savedEvidence.availability = availability /\ savedEvidence.confirmation = confirmation

ObservedInUse == availability # NoEvidence /\ availability.cred = inUse
ConfirmedInUse == confirmation # NoEvidence /\ confirmation.cred = inUse

(* The tables still tell when the credential in use worked last: they hold  *)
(* that success, or an observation that is newer.                           *)
SuccessKept ==
  \/ workedAt[inUse] = 0
  \/ ConfirmedInUse /\ confirmation.at = workedAt[inUse]
  \/ availability # NoEvidence /\ availability.at >= workedAt[inUse]

(* And they still tell when it was last rejected.                           *)
RejectionKept ==
  \/ rejectedAt[inUse] = 0
  \/ ConfirmedInUse /\ confirmation.at >= rejectedAt[inUse]
  \/ availability # NoEvidence /\ availability.at >= rejectedAt[inUse]

(* A rejection that is in the table is no older than the last success.      *)
RejectionIsNewer ==
  ObservedInUse /\ availability.kind = "auth_unavailable" =>
    availability.at >= workedAt[inUse]

(* A success that is in the tables is no older than the last rejection, or  *)
(* a newer success hides it.                                                *)
SuccessIsNewer ==
  /\ ConfirmedInUse => confirmation.at >= rejectedAt[inUse]
  /\ ObservedInUse /\ availability.kind = "usable" =>
       \/ availability.at >= rejectedAt[inUse]
       \/ ConfirmedInUse /\ confirmation.at >= availability.at

Remembered == SuccessKept /\ RejectionKept /\ RejectionIsNewer /\ SuccessIsNewer

EvidenceInv ==
  /\ EvidenceTyped /\ FutureUnused /\ SavedIsCurrent
  /\ ~evidenceLost => Remembered

-----------------------------------------------------------------------------
(* A later clock takes nothing back.                                        *)
LEMMA TablesGrow ==
  ASSUME NEW a \in Nat, NEW b \in Nat, a <= b
  PROVE  /\ {o \in Observations : o.at <= a} \subseteq {o \in Observations : o.at <= b}
         /\ {o \in Confirmations : o.at <= a} \subseteq {o \in Confirmations : o.at <= b}
         /\ [Credentials -> 0..a] \subseteq [Credentials -> 0..b]
<1>1. \A o \in Observations : o.at \in Nat
  BY DEF Observations
<1>2. \A o \in Confirmations : o.at \in Nat
  BY DEF Confirmations
<1>3. 0..a \subseteq 0..b
  OBVIOUS
<1>4. QED
  BY <1>1, <1>2, <1>3

(* An entry of a table is not the mark of its absence.                      *)
LEMMA EntriesAreEvidence ==
  /\ NoEvidence \notin Observations
  /\ NoEvidence \notin Confirmations
BY AccountEvidenceAssumption DEF Observations, Confirmations, Credentials

LEMMA EvidenceInitInv == EvidenceInit => EvidenceInv
<1> SUFFICES ASSUME EvidenceInit PROVE EvidenceInv
  OBVIOUS
<1>1. EvidenceTyped
  <2>1. /\ savedEvidence.availability = NoEvidence /\ savedEvidence.confirmation = NoEvidence
        /\ inUse \in Credentials /\ sequence \in 0..MaxEvents /\ clock <= MaxClock
    BY AccountEvidenceAssumption DEF EvidenceInit, Credentials
  <2>2. workedAt \in [Credentials -> 0..clock] /\ rejectedAt \in [Credentials -> 0..clock]
    BY DEF EvidenceInit
  <2>3. /\ clock \in Nat /\ clock >= 1 /\ runtimeId \in Nat /\ underWay = {}
        /\ availability = NoEvidence /\ confirmation = NoEvidence
    BY DEF EvidenceInit
  <2>4. pendingWrite \in BOOLEAN /\ evidenceLost \in BOOLEAN
    BY Zenon DEF EvidenceInit
  <2>5. QED
    BY <2>1, <2>2, <2>3, <2>4 DEF EvidenceTyped
<1>2. FutureUnused /\ SavedIsCurrent
  BY DEF EvidenceInit, FutureUnused, SavedIsCurrent
<1>3. Remembered
  BY <1>1 DEF EvidenceInit, EvidenceTyped, Remembered, SuccessKept, RejectionKept,
     RejectionIsNewer, SuccessIsNewer, ObservedInUse, ConfirmedInUse
<1>4. QED
  BY <1>1, <1>2, <1>3 DEF EvidenceInv

-----------------------------------------------------------------------------
(* The types, action by action.                                             *)
LEMMA EvidenceTypes == EvidenceTyped /\ [EvidenceNext]_evidenceVars => EvidenceTyped'
<1> SUFFICES ASSUME EvidenceTyped, [EvidenceNext]_evidenceVars PROVE EvidenceTyped'
  OBVIOUS
<1> USE AccountEvidenceAssumption
<1>1. CASE Observe
  <2>1. PICK c \in 1..inUse, k \in ObservedKinds :
          underWay' = underWay \cup
            {[cred |-> c, kind |-> k, at |-> clock, run |-> runtimeId, seq |-> sequence + 1]}
    BY <1>1 DEF Observe
  <2>2. [cred |-> c, kind |-> k, at |-> clock, run |-> runtimeId, seq |-> sequence + 1]
          \in ObservedSoFar
    BY DEF ObservedSoFar, Observations, EvidenceTyped, Credentials
  <2>3. QED
    BY <1>1, <2>1, <2>2 DEF Observe, EvidenceTyped, ObservedSoFar, ConfirmedSoFar
<1>2. CASE RecordAvailability
  <2>1. PICK o \in underWay :
          /\ underWay' = underWay \ {o}
          /\ \/ UNCHANGED <<availability, confirmation, pendingWrite, rejectedAt>>
             \/ /\ availability' = o /\ confirmation' \in {confirmation, NoEvidence}
                /\ rejectedAt' \in {rejectedAt, [rejectedAt EXCEPT ![o.cred] = o.at]}
                /\ pendingWrite' = TRUE
    BY <1>2 DEF RecordAvailability, PersistEvidence
  <2>2. o \in ObservedSoFar /\ o.at \in 0..clock
    BY DEF EvidenceTyped, ObservedSoFar, Observations
  <2>3. [rejectedAt EXCEPT ![o.cred] = o.at] \in [Credentials -> 0..clock]
    BY <2>2 DEF EvidenceTyped
  <2>4. UNCHANGED <<clock, inUse, runtimeId, sequence, savedEvidence, evidenceLost, workedAt>>
    BY <1>2 DEF RecordAvailability
  <2>5. QED
    BY <2>1, <2>2, <2>3, <2>4 DEF EvidenceTyped, ObservedSoFar, ConfirmedSoFar
<1>3. CASE RecordSuccess
  <2>1. PICK c \in 1..inUse :
          /\ confirmation' = [cred |-> c, at |-> clock]
          /\ workedAt' = [workedAt EXCEPT ![c] = clock]
          /\ evidenceLost' = (evidenceLost \/ c # inUse)
    BY <1>3 DEF RecordSuccess
  <2>2. c \in Credentials /\ confirmation' \in ConfirmedSoFar
    BY <2>1 DEF ConfirmedSoFar, Confirmations, EvidenceTyped, Credentials
  <2>3. workedAt' \in [Credentials -> 0..clock] /\ evidenceLost' \in BOOLEAN
    BY <2>1, <2>2 DEF EvidenceTyped
  <2>4. QED
    BY <1>3, <2>2, <2>3 DEF RecordSuccess, PersistEvidence, EvidenceTyped, ObservedSoFar,
       ConfirmedSoFar
<1>4. CASE ChangeCredential
  <2>1. /\ inUse' \in Credentials /\ \A o \in underWay' : o.cred <= inUse'
        /\ pendingWrite' \in BOOLEAN
    <3>1. \A o \in underWay : o.cred \in Nat /\ o.cred <= inUse
      BY DEF EvidenceTyped, ObservedSoFar, Observations, Credentials
    <3>2. inUse \in Nat /\ inUse' = inUse + 1 /\ inUse' \in Credentials /\ underWay' = underWay
      BY <1>4 DEF ChangeCredential, EvidenceTyped, Credentials
    <3>3. pendingWrite' \in BOOLEAN
      BY <1>4 DEF ChangeCredential, PersistEvidence, EvidenceTyped
    <3>4. \A o \in underWay : o.cred <= inUse + 1
      BY <3>1, <3>2
    <3>5. QED
      BY <3>2, <3>3, <3>4
  <2>2. QED
    BY <1>4, <2>1 DEF ChangeCredential, EvidenceTyped, ObservedSoFar, ConfirmedSoFar
<1>5. CASE WriteEvidence
  <2>1. /\ savedEvidence'.availability = availability
        /\ savedEvidence'.confirmation = confirmation
    BY <1>5 DEF WriteEvidence
  <2>2. /\ pendingWrite' = FALSE
        /\ UNCHANGED <<clock, inUse, expiredCreds, availability, confirmation, runtimeId,
                       underWay, sequence, evidenceLost, workedAt, rejectedAt>>
    BY <1>5 DEF WriteEvidence
  <2>3. QED
    BY <2>1, <2>2 DEF EvidenceTyped, ObservedSoFar, ConfirmedSoFar
<1>6. CASE Restart
  <2>1. /\ ObservedSoFar' = ObservedSoFar /\ ConfirmedSoFar' = ConfirmedSoFar
        /\ runtimeId' = runtimeId + 1 /\ pendingWrite' = FALSE
        /\ evidenceLost' = (evidenceLost \/ pendingWrite)
        /\ availability' = savedEvidence.availability
        /\ confirmation' = savedEvidence.confirmation
        /\ UNCHANGED <<clock, inUse, underWay, sequence, savedEvidence, workedAt, rejectedAt>>
    BY <1>6 DEF Restart, ObservedSoFar, ConfirmedSoFar
  <2>2. evidenceLost' \in BOOLEAN /\ runtimeId' \in Nat
    BY <2>1 DEF EvidenceTyped
  <2>3. QED
    BY <2>1, <2>2 DEF EvidenceTyped
<1>7. CASE ChangeRuntime
  BY <1>7 DEF ChangeRuntime, EvidenceTyped, ObservedSoFar, ConfirmedSoFar
<1>8. CASE ClockTick
  <2>1. clock' = clock + 1 /\ clock' \in Nat /\ clock' >= 1 /\ clock' <= MaxClock
    BY <1>8 DEF ClockTick, EvidenceTyped
  <2>2. /\ ObservedSoFar \subseteq ObservedSoFar' /\ ConfirmedSoFar \subseteq ConfirmedSoFar'
        /\ [Credentials -> 0..clock] \subseteq [Credentials -> 0..clock']
    BY <2>1, TablesGrow DEF EvidenceTyped, ObservedSoFar, ConfirmedSoFar
  <2>3. UNCHANGED <<inUse, availability, confirmation, runtimeId, underWay, sequence,
                    pendingWrite, savedEvidence, evidenceLost, workedAt, rejectedAt>>
    BY <1>8 DEF ClockTick
  <2>4. QED
    BY <2>1, <2>2, <2>3 DEF EvidenceTyped
<1>9. CASE UNCHANGED evidenceVars
  BY <1>9 DEF evidenceVars, EvidenceTyped, ObservedSoFar, ConfirmedSoFar
<1>10. QED
  BY <1>1, <1>2, <1>3, <1>4, <1>5, <1>6, <1>7, <1>8, <1>9 DEF EvidenceNext

(* A step that touches neither the tables nor what was recorded.            *)
LEMMA TablesUntouched ==
  ASSUME EvidenceInv, EvidenceTyped',
         UNCHANGED <<inUse, availability, confirmation, pendingWrite, savedEvidence,
                     evidenceLost, workedAt, rejectedAt>>
  PROVE  EvidenceInv'
BY DEF EvidenceInv, FutureUnused, SavedIsCurrent, Remembered, SuccessKept, RejectionKept,
   RejectionIsNewer, SuccessIsNewer, ObservedInUse, ConfirmedInUse

(* An observation that is delivered takes the place of an older one only.   *)
LEMMA RecordAvailabilityInv ==
  ASSUME EvidenceInv, EvidenceTyped', RecordAvailability
  PROVE  EvidenceInv'
<1> USE EntriesAreEvidence
<1>1. PICK o \in underWay :
        IF Outdated(o) \/ (Contradicts(o) /\ o.at < confirmation.at)
          THEN UNCHANGED <<availability, confirmation, pendingWrite, rejectedAt>>
          ELSE /\ availability' = o
               /\ confirmation' = IF Contradicts(o) THEN NoEvidence ELSE confirmation
               /\ rejectedAt' = IF o.kind = "auth_unavailable"
                                  THEN [rejectedAt EXCEPT ![o.cred] = o.at] ELSE rejectedAt
               /\ pendingWrite' = TRUE
  BY DEF RecordAvailability, PersistEvidence
<1>2. UNCHANGED <<clock, inUse, savedEvidence, evidenceLost, workedAt>>
  BY DEF RecordAvailability
<1>3. /\ o \in Observations /\ o.cred \in Credentials /\ o.at \in Nat /\ o # NoEvidence
      /\ inUse \in Credentials
      /\ availability # NoEvidence => availability.at \in Nat
      /\ confirmation # NoEvidence => confirmation.at \in Nat
      /\ \A c \in Credentials : workedAt[c] \in Nat /\ rejectedAt[c] \in Nat
      /\ rejectedAt \in [Credentials -> 0..clock]
  BY DEF EvidenceInv, EvidenceTyped, ObservedSoFar, ConfirmedSoFar, Observations,
     Confirmations
<1>4. CASE Outdated(o) \/ (Contradicts(o) /\ o.at < confirmation.at)
  <2>1. UNCHANGED <<availability, confirmation, pendingWrite, rejectedAt>>
    BY <1>1, <1>4
  <2>2. QED
    BY <1>2, <2>1, TablesUntouched
<1>5. CASE ~(Outdated(o) \/ (Contradicts(o) /\ o.at < confirmation.at))
  <2>1. /\ availability' = o /\ pendingWrite' = TRUE
        /\ confirmation' = IF Contradicts(o) THEN NoEvidence ELSE confirmation
        /\ rejectedAt' = IF o.kind = "auth_unavailable"
                           THEN [rejectedAt EXCEPT ![o.cred] = o.at] ELSE rejectedAt
    BY <1>1, <1>5
  <2>2. availability # NoEvidence => o.at >= availability.at
    BY <1>3, <1>5 DEF Outdated
  <2>3. Contradicts(o) => confirmation # NoEvidence /\ o.at >= confirmation.at
    BY <1>3, <1>5 DEF Contradicts
  <2>4. rejectedAt'[inUse] = IF o.kind = "auth_unavailable" /\ o.cred = inUse
                               THEN o.at ELSE rejectedAt[inUse]
    BY <1>3, <2>1 DEF EvidenceInv, EvidenceTyped
  <2>5. SavedIsCurrent'
    BY <2>1 DEF SavedIsCurrent
  <2>6. FutureUnused'
    <3>1. \A c \in Credentials : c > inUse => workedAt[c] = 0 /\ rejectedAt[c] = 0
      BY DEF EvidenceInv, FutureUnused
    <3>2. ~(o.cred > inUse)
      <4>1. o.cred <= inUse
        BY DEF EvidenceInv, EvidenceTyped
      <4>2. o.cred \in Nat /\ inUse \in Nat
        BY <1>3 DEF Credentials
      <4>3. QED
        BY <4>1, <4>2
    <3>3. \A c \in Credentials : c > inUse => c # o.cred
      BY <3>2
    <3>4. \A c \in Credentials : c # o.cred => rejectedAt'[c] = rejectedAt[c]
      BY <1>3, <2>1
    <3>5. QED
      BY <1>2, <3>1, <3>3, <3>4 DEF FutureUnused
  <2>7. ASSUME ~evidenceLost PROVE Remembered'
    <3>1. SuccessKept /\ RejectionKept /\ RejectionIsNewer /\ SuccessIsNewer
      BY <2>7 DEF EvidenceInv, Remembered
    <3>2. SuccessKept'
      BY <1>2, <1>3, <2>1, <2>2, <2>3, <3>1 DEF SuccessKept, ConfirmedInUse
    <3>3. RejectionKept'
      BY <1>2, <1>3, <2>1, <2>2, <2>3, <2>4, <3>1 DEF RejectionKept, ConfirmedInUse
    <3>4. RejectionIsNewer'
      BY <1>2, <1>3, <2>1, <2>2, <2>3, <3>1 DEF RejectionIsNewer, SuccessKept, ConfirmedInUse,
         ObservedInUse, Contradicts
    <3>5. SuccessIsNewer'
      BY <1>2, <1>3, <2>1, <2>2, <2>3, <2>4, <3>1 DEF SuccessIsNewer, RejectionKept,
         ConfirmedInUse, ObservedInUse, Contradicts
    <3>6. QED
      BY <3>2, <3>3, <3>4, <3>5 DEF Remembered
  <2>8. QED
    BY <1>2, <2>5, <2>6, <2>7 DEF EvidenceInv
<1>6. QED
  BY <1>4, <1>5

(* A success clears what it disproves and is itself the newest evidence.    *)
LEMMA RecordSuccessInv ==
  ASSUME EvidenceInv, EvidenceTyped', RecordSuccess
  PROVE  EvidenceInv'
<1> USE EntriesAreEvidence
<1>1. PICK c \in 1..inUse :
        /\ confirmation' = [cred |-> c, at |-> clock]
        /\ workedAt' = [workedAt EXCEPT ![c] = clock]
        /\ evidenceLost' = (evidenceLost \/ c # inUse)
  BY DEF RecordSuccess
<1>2. /\ availability' = IF availability # NoEvidence /\ availability.kind # "quota_limited"
                           THEN NoEvidence ELSE availability
      /\ pendingWrite' = TRUE
      /\ UNCHANGED <<clock, inUse, savedEvidence, rejectedAt>>
  BY DEF RecordSuccess, PersistEvidence
<1>3. /\ c \in Credentials /\ inUse \in Credentials /\ clock \in Nat
      /\ \A d \in Credentials : workedAt[d] \in 0..clock /\ rejectedAt[d] \in 0..clock
      /\ workedAt \in [Credentials -> 0..clock]
  <2>1. /\ inUse \in Credentials /\ clock \in Nat
        /\ workedAt \in [Credentials -> 0..clock] /\ rejectedAt \in [Credentials -> 0..clock]
    BY DEF EvidenceInv, EvidenceTyped
  <2>2. c \in Credentials
    BY <2>1, AccountEvidenceAssumption DEF Credentials
  <2>3. QED
    BY <2>1, <2>2
<1>4. SavedIsCurrent'
  BY <1>2 DEF SavedIsCurrent
<1>5. FutureUnused'
  <2>1. \A d \in Credentials : d > inUse => workedAt[d] = 0 /\ rejectedAt[d] = 0
    BY DEF EvidenceInv, FutureUnused
  <2>2. QED
    BY <1>1, <1>2, <1>3, <2>1 DEF FutureUnused, Credentials
<1>6. ASSUME ~evidenceLost' PROVE Remembered'
  <2>1. c = inUse
    BY <1>1, <1>6
  <2>2. confirmation' # NoEvidence
    BY <1>1, <1>3 DEF Confirmations
  <2>3. /\ ConfirmedInUse' /\ confirmation'.at = clock /\ workedAt'[inUse'] = clock
        /\ rejectedAt'[inUse'] <= clock
    BY <1>1, <1>2, <1>3, <2>1, <2>2 DEF ConfirmedInUse
  <2>4. ~(ObservedInUse' /\ availability'.kind \in {"auth_unavailable", "usable"})
    BY <1>2 DEF ObservedInUse
  <2>5. QED
    BY <1>2, <1>3, <2>3, <2>4 DEF Remembered, SuccessKept, RejectionKept, RejectionIsNewer,
       SuccessIsNewer
<1>7. QED
  BY <1>4, <1>5, <1>6 DEF EvidenceInv

(* A new credential starts without a history.                               *)
LEMMA ChangeCredentialInv ==
  ASSUME EvidenceInv, EvidenceTyped', ChangeCredential
  PROVE  EvidenceInv'
<1>1. /\ inUse' = inUse + 1 /\ inUse' \in Credentials /\ inUse \in Nat
      /\ availability' = NoEvidence /\ confirmation' = NoEvidence
      /\ UNCHANGED <<savedEvidence, evidenceLost, workedAt, rejectedAt>>
  BY AccountEvidenceAssumption DEF ChangeCredential, EvidenceInv, EvidenceTyped, Credentials
<1>2. SavedIsCurrent'
  BY <1>1 DEF ChangeCredential, PersistEvidence, EvidenceInv, SavedIsCurrent
<1>3. FutureUnused' /\ workedAt'[inUse'] = 0 /\ rejectedAt'[inUse'] = 0
  BY <1>1 DEF EvidenceInv, FutureUnused, Credentials
<1>4. Remembered'
  BY <1>1, <1>3 DEF Remembered, SuccessKept, RejectionKept, RejectionIsNewer, SuccessIsNewer,
     ObservedInUse, ConfirmedInUse
<1>5. QED
  BY <1>2, <1>3, <1>4 DEF EvidenceInv

(* The window that starts again reads the tables as they were, or has lost  *)
(* evidence and knows it.                                                   *)
LEMMA RestartInv ==
  ASSUME EvidenceInv, EvidenceTyped', Restart
  PROVE  EvidenceInv'
<1>1. CASE pendingWrite
  BY <1>1 DEF Restart, EvidenceInv, FutureUnused, SavedIsCurrent
<1>2. CASE ~pendingWrite
  <2>1. UNCHANGED <<inUse, availability, confirmation, pendingWrite, savedEvidence,
                    evidenceLost, workedAt, rejectedAt>>
    BY <1>2 DEF Restart, EvidenceInv, EvidenceTyped, SavedIsCurrent
  <2>2. QED
    BY <2>1, TablesUntouched
<1>3. QED
  BY <1>1, <1>2 DEF EvidenceInv, EvidenceTyped

LEMMA EvidenceStep == EvidenceInv /\ [EvidenceNext]_evidenceVars => EvidenceInv'
<1> SUFFICES ASSUME EvidenceInv, [EvidenceNext]_evidenceVars PROVE EvidenceInv'
  OBVIOUS
<1>1. EvidenceTyped'
  BY EvidenceTypes DEF EvidenceInv
<1>2. CASE RecordAvailability
  BY <1>1, <1>2, RecordAvailabilityInv
<1>3. CASE RecordSuccess
  BY <1>1, <1>3, RecordSuccessInv
<1>4. CASE ChangeCredential
  BY <1>1, <1>4, ChangeCredentialInv
<1>5. CASE WriteEvidence
  BY <1>1, <1>5 DEF WriteEvidence, EvidenceInv, FutureUnused, SavedIsCurrent, Remembered,
     SuccessKept, RejectionKept, RejectionIsNewer, SuccessIsNewer, ObservedInUse, ConfirmedInUse
<1>6. CASE Restart
  BY <1>1, <1>6, RestartInv
<1>7. CASE Observe \/ ChangeRuntime \/ ClockTick \/ UNCHANGED evidenceVars
  BY <1>1, <1>7, TablesUntouched DEF Observe, ChangeRuntime, ClockTick, evidenceVars
<1>8. QED
  BY <1>2, <1>3, <1>4, <1>5, <1>6, <1>7 DEF EvidenceNext

(* The tables hold the newest of what has been delivered, each restart and    *)
(* each change of the credential included.                                   *)
THEOREM EvidenceIsKept == EvidenceSpec => []EvidenceInv
BY EvidenceInitInv, EvidenceStep, PTL DEF EvidenceSpec

(* What is shown is what the tables hold, if nothing in them disproves it.  *)
LEMMA InvShowsNewest == EvidenceInv => NewestVerdictShown
<1> SUFFICES ASSUME EvidenceInv, ~evidenceLost
             PROVE  /\ ReadAvailability.kind = "auth_unavailable" =>
                         availability.cred = inUse /\ ReadAvailability.at >= workedAt[inUse]
                    /\ ReadAvailability.kind = "usable" =>
                         ReadAvailability.at >= rejectedAt[inUse]
  BY DEF NewestVerdictShown
<1> USE EntriesAreEvidence
<1>1. /\ inUse \in Credentials
      /\ availability # NoEvidence => availability.at \in Nat
      /\ confirmation # NoEvidence => confirmation.at \in Nat
      /\ workedAt[inUse] \in Nat /\ rejectedAt[inUse] \in Nat
  BY DEF EvidenceInv, EvidenceTyped, ObservedSoFar, ConfirmedSoFar, Observations,
     Confirmations
<1>2. /\ ReadConfirmed.kind \in {"usable", "unknown"} /\ ReadConfirmed.at \in Nat
      /\ ReadConfirmed.kind = "usable" =>
           ConfirmedInUse /\ ReadConfirmed.at = confirmation.at
      /\ ConfirmedInUse /\ inUse \notin expiredCreds => ReadConfirmed.at = confirmation.at
  BY <1>1 DEF ReadConfirmed, NothingKnown, ConfirmedInUse
<1>3. SuccessKept /\ RejectionKept /\ RejectionIsNewer /\ SuccessIsNewer
  BY DEF EvidenceInv, Remembered
<1>4. CASE \/ availability = NoEvidence
           \/ availability.kind # "quota_limited"
                /\ (availability.cred # inUse \/ ReadConfirmed.at >= availability.at)
           \/ availability.kind = "usable" /\ availability.cred \in expiredCreds
  <2>1. ReadAvailability = ReadConfirmed
    BY <1>4 DEF ReadAvailability
  <2>2. QED
    BY <1>2, <1>3, <2>1 DEF SuccessIsNewer
<1>5. CASE ~(\/ availability = NoEvidence
             \/ availability.kind # "quota_limited"
                  /\ (availability.cred # inUse \/ ReadConfirmed.at >= availability.at)
             \/ availability.kind = "usable" /\ availability.cred \in expiredCreds)
  <2>1. ReadAvailability = [kind |-> availability.kind, at |-> availability.at]
    BY <1>5 DEF ReadAvailability
  <2>2. CASE availability.kind = "auth_unavailable"
    BY <1>3, <1>5, <2>1, <2>2 DEF RejectionIsNewer, ObservedInUse
  <2>3. CASE availability.kind = "usable"
    <3>1. ObservedInUse /\ inUse \notin expiredCreds /\ ReadConfirmed.at < availability.at
      BY <1>1, <1>2, <1>5, <2>3 DEF ObservedInUse
    <3>2. availability.at >= rejectedAt[inUse]
      BY <1>1, <1>2, <1>3, <2>3, <3>1 DEF SuccessIsNewer, ConfirmedInUse, ObservedInUse
    <3>3. QED
      BY <2>1, <2>3, <3>2
  <2>4. QED
    BY <2>1, <2>2, <2>3
<1>6. QED
  BY <1>4, <1>5

(* For any delays, restarts and changes of the credential: the account's    *)
(* verdict is about its credential in use and no known evidence disproves   *)
(* it (readAvailability, recordAvailability, recordAuthenticationSuccess).   *)
THEOREM VerdictIsNewest == EvidenceSpec => []NewestVerdictShown
BY EvidenceIsKept, InvShowsNewest, PTL

(* The type invariant the runs check is part of it.                         *)
THEOREM EvidenceTypeCorrect == EvidenceSpec => []EvidenceTypeOK
<1>1. EvidenceInv => EvidenceTypeOK
  BY EntriesAreEvidence DEF EvidenceInv, EvidenceTyped, EvidenceTypeOK, ObservedSoFar,
     ConfirmedSoFar, Observations, Confirmations
<1>2. QED
  BY <1>1, EvidenceIsKept, PTL

-----------------------------------------------------------------------------
(* The index of accounts.                                                    *)

(* What a host has still to save, and what it is saving.                      *)
Saves == [ix: Indexes, base: Indexes]
Snapshots == [ix: Indexes, base: Indexes, live: BOOLEAN]
IndexTypes ==
  /\ diskIndex \in Indexes
  /\ cacheIndex \in [IndexHosts -> Indexes \cup {NoIndex}]
  /\ pendSave \in [IndexHosts -> Saves \cup {NoIndex}]
  /\ saveTimer \subseteq IndexHosts /\ disposed \subseteq IndexHosts /\ dropped \subseteq IndexHosts
  /\ saveChain \in [IndexHosts -> Seq(Snapshots)]
  /\ lateSave \in [IndexHosts -> Saves \cup {NoIndex}]
  /\ savedAs \in [IndexHosts -> Indexes \cup {NoIndex}]
  /\ slowEdit \in [IndexHosts -> Indexes \cup {NoIndex}]
  /\ edits \in 0..MaxEdits
  /\ touched \in [IndexHosts -> [IndexAccounts -> 0..MaxEdits]]
  /\ added \in [IndexAccounts -> SUBSET IndexHosts]
  /\ removed \subseteq IndexAccounts /\ overtaken \in BOOLEAN
  /\ \A h \in saveTimer :
       h \notin disposed /\ pendSave[h] # NoIndex /\ \A i \in DOMAIN saveChain[h] : ~saveChain[h][i].live
  /\ \A h \in IndexHosts : savedAs[h] # NoIndex => saveChain[h] # <<>>

Has(ix, a) == ix.acc[a] # Absent
Own(ix, h, a) == ix.acc[a].field[h]
Pending(h) == pendSave[h] # NoIndex
Late(h) == lateSave[h] # NoIndex
InChain(h) == saveChain[h] # <<>>
Settling(h) == savedAs[h] # NoIndex
Cached(h) == cacheIndex[h] # NoIndex
Snap(h) == Head(saveChain[h])
Owes(h) == Pending(h) \/ Late(h)
SaveOf(h) == IF Pending(h) THEN pendSave[h] ELSE lateSave[h]

-----------------------------------------------------------------------------
(* Indexes.                                                                  *)

LEMMA NoneOfThem ==
  /\ NoIndex \notin Indexes /\ NoIndex \notin Saves /\ Absent \notin AccountRecords
BY AccountsIndexAssumption DEF Saves

LEMMA IndexIs ==
  ASSUME NEW ix \in Indexes, NEW a \in IndexAccounts
  PROVE  /\ ix # NoIndex /\ ix.current \in IndexAccounts \cup {NoAccount}
         /\ ix.acc \in [IndexAccounts -> AccountRecords \cup {Absent}]
         /\ Has(ix, a) => ix.acc[a] \in AccountRecords
BY NoneOfThem DEF Indexes, Has

LEMMA RecordIs ==
  ASSUME NEW r \in AccountRecords
  PROVE  /\ r # Absent /\ r.field \in [IndexHosts -> 0..MaxEdits] /\ r.at \in 0..MaxEdits
BY NoneOfThem DEF AccountRecords

LEMMA LaterIs ==
  ASSUME NEW m \in 0..MaxEdits, NEW n \in 0..MaxEdits
  PROVE  Later(m, n) \in 0..MaxEdits
BY DEF Later

LEMMA MergeRecordIs ==
  ASSUME NEW b \in AccountRecords, NEW l \in AccountRecords, NEW d \in AccountRecords
  PROVE  /\ MergeRecord(b, l, d) \in AccountRecords
         /\ \A h \in IndexHosts :
              /\ l.field[h] = b.field[h] => MergeRecord(b, l, d).field[h] = d.field[h]
              /\ d.field[h] = b.field[h] => MergeRecord(b, l, d).field[h] = l.field[h]
<1>1. PICK f : f = [h \in IndexHosts |->
                      IF l.field[h] = b.field[h] THEN d.field[h]
                      ELSE IF d.field[h] = b.field[h] \/ l.at >= d.at
                             THEN l.field[h] ELSE d.field[h]]
  OBVIOUS
<1>2. \A h \in IndexHosts : b.field[h] \in 0..MaxEdits /\ l.field[h] \in 0..MaxEdits /\ d.field[h] \in 0..MaxEdits
  BY RecordIs
<1>3. f \in [IndexHosts -> 0..MaxEdits]
  BY <1>1, <1>2
<1>4. PICK at \in 0..MaxEdits : at = Later(l.at, d.at)
  BY RecordIs, LaterIs
<1>5. PICK m : m = [field |-> f, at |-> at]
  OBVIOUS
<1>6. m = MergeRecord(b, l, d)
  BY <1>1, <1>4, <1>5 DEF MergeRecord
<1>7. m \in AccountRecords /\ m.field = f
  BY <1>3, <1>5 DEF AccountRecords
<1>8. \A h \in IndexHosts : /\ l.field[h] = b.field[h] => f[h] = d.field[h]
                            /\ d.field[h] = b.field[h] => f[h] = l.field[h]
  BY <1>1
<1>9. QED
  BY <1>6, <1>7, <1>8

(* What a merge has, and the field of a host that only one side has changed.   *)
LEMMA MergeIs ==
  ASSUME NEW b \in Indexes, NEW l \in Indexes, NEW d \in Indexes
  PROVE  /\ MergeIndex(b, l, d) \in Indexes
         /\ \A a \in IndexAccounts :
              /\ Has(MergeIndex(b, l, d), a)
                   <=> IF Has(b, a) THEN Has(l, a) /\ Has(d, a) ELSE Has(l, a) \/ Has(d, a)
              /\ Has(b, a) /\ Has(l, a) /\ Has(d, a) =>
                   \A h \in IndexHosts :
                     /\ Own(l, h, a) = Own(b, h, a) => Own(MergeIndex(b, l, d), h, a) = Own(d, h, a)
                     /\ Own(d, h, a) = Own(b, h, a) => Own(MergeIndex(b, l, d), h, a) = Own(l, h, a)
<1>1. PICK acc : acc = [a \in IndexAccounts |-> MergeAccount(b.acc[a], l.acc[a], d.acc[a])]
  OBVIOUS
<1>2. ASSUME NEW a \in IndexAccounts
      PROVE  /\ acc[a] \in AccountRecords \cup {Absent}
             /\ acc[a] # Absent <=> IF Has(b, a) THEN Has(l, a) /\ Has(d, a) ELSE Has(l, a) \/ Has(d, a)
             /\ Has(b, a) /\ Has(l, a) /\ Has(d, a) =>
                  acc[a] = MergeRecord(b.acc[a], l.acc[a], d.acc[a])
  <2>1. acc[a] = MergeAccount(b.acc[a], l.acc[a], d.acc[a])
    BY <1>1
  <2>2. CASE Has(b, a) /\ Has(l, a) /\ Has(d, a)
    <3>1. b.acc[a] \in AccountRecords /\ l.acc[a] \in AccountRecords /\ d.acc[a] \in AccountRecords
      BY <2>2, IndexIs
    <3>2. acc[a] = MergeRecord(b.acc[a], l.acc[a], d.acc[a])
      BY <2>1, <2>2 DEF MergeAccount, Has
    <3>3. QED
      BY <2>2, <3>1, <3>2, MergeRecordIs, RecordIs
  <2>3. CASE Has(b, a) /\ ~(Has(l, a) /\ Has(d, a))
    BY <2>1, <2>3 DEF MergeAccount, Has
  <2>4. CASE ~Has(b, a)
    <3>1. /\ acc[a] = l.acc[a] \/ acc[a] = d.acc[a]
          /\ Has(l, a) => acc[a] = l.acc[a] \/ Has(d, a)
          /\ acc[a] = Absent => ~Has(l, a) /\ ~Has(d, a)
      BY <2>1, <2>4 DEF MergeAccount, Has
    <3>2. l.acc[a] \in AccountRecords \cup {Absent} /\ d.acc[a] \in AccountRecords \cup {Absent}
      BY IndexIs
    <3>3. QED
      BY <2>4, <3>1, <3>2 DEF Has
  <2>5. QED
    BY <2>2, <2>3, <2>4
<1>3. acc \in [IndexAccounts -> AccountRecords \cup {Absent}]
  BY <1>1, <1>2
<1>4. PICK c : c = LET current == IF l.current = b.current THEN d.current ELSE l.current
                   IN IF current # NoAccount /\ acc[current] = Absent THEN NoAccount ELSE current
  OBVIOUS
<1>5. c \in IndexAccounts \cup {NoAccount}
  BY <1>4 DEF Indexes
<1>6. PICK m : m = [current |-> c, acc |-> acc]
  OBVIOUS
<1>7. m = MergeIndex(b, l, d)
  BY <1>1, <1>4, <1>6 DEF MergeIndex
<1>8. m \in Indexes /\ m.acc = acc
  BY <1>3, <1>5, <1>6 DEF Indexes
<1>9. \A a \in IndexAccounts : Has(m, a) <=> acc[a] # Absent
  BY <1>8 DEF Has
<1>10. ASSUME NEW a \in IndexAccounts, Has(b, a), Has(l, a), Has(d, a), NEW h \in IndexHosts
       PROVE  /\ Own(l, h, a) = Own(b, h, a) => Own(m, h, a) = Own(d, h, a)
              /\ Own(d, h, a) = Own(b, h, a) => Own(m, h, a) = Own(l, h, a)
  <2>1. b.acc[a] \in AccountRecords /\ l.acc[a] \in AccountRecords /\ d.acc[a] \in AccountRecords
    BY <1>10, IndexIs
  <2>2. PICK rb \in AccountRecords, rl \in AccountRecords, rd \in AccountRecords :
          rb = b.acc[a] /\ rl = l.acc[a] /\ rd = d.acc[a]
    BY <2>1
  <2>3. m.acc[a] = MergeRecord(rb, rl, rd)
    BY <1>2, <1>8, <1>10, <2>2
  <2>4. /\ rl.field[h] = rb.field[h] => m.acc[a].field[h] = rd.field[h]
        /\ rd.field[h] = rb.field[h] => m.acc[a].field[h] = rl.field[h]
    BY <2>3, MergeRecordIs
  <2>5. QED
    BY <2>2, <2>4 DEF Own
<1>11. QED
  BY <1>2, <1>7, <1>8, <1>9, <1>10

LEMMA MergeKeepsOwn ==
  ASSUME NEW b \in Indexes, NEW l \in Indexes, NEW d \in Indexes, NEW m, m = MergeIndex(b, l, d),
         NEW a \in IndexAccounts, Has(b, a), Has(l, a), Has(d, a), NEW o \in IndexHosts
  PROVE  /\ Own(l, o, a) = Own(b, o, a) => Own(m, o, a) = Own(d, o, a)
         /\ Own(d, o, a) = Own(b, o, a) => Own(m, o, a) = Own(l, o, a)
BY MergeIs

(* What an edit leaves in an index.                                          *)
LEMMA EditedIs ==
  ASSUME NEW h \in IndexHosts, NEW ix \in Indexes, NEW a \in IndexAccounts,
         NEW kind \in {"set", "reset", "remove", "add", "switch"}, Editable(ix, a, kind),
         edits \in 0..MaxEdits, edits < MaxEdits, NEW e \in Nat, e = edits + 1
  PROVE  /\ Edited(h, ix, a, kind) \in Indexes
         /\ \A x \in IndexAccounts \ {a} : Edited(h, ix, a, kind).acc[x] = ix.acc[x]
         /\ Has(Edited(h, ix, a, kind), a) <=> kind # "remove"
         /\ kind \in {"set", "reset", "switch"} =>
              /\ Own(Edited(h, ix, a, kind), h, a) =
                   IF kind = "set" THEN e ELSE IF kind = "reset" THEN 0 ELSE Own(ix, h, a)
              /\ \A o \in IndexHosts \ {h} : Own(Edited(h, ix, a, kind), o, a) = Own(ix, o, a)
<1>1. e \in 0..MaxEdits /\ 0 \in 0..MaxEdits
  BY AccountsIndexAssumption
<1>2. ix.current \in IndexAccounts \cup {NoAccount}
  BY IndexIs
<1>3. PICK acc \in [IndexAccounts -> AccountRecords \cup {Absent}] : acc = ix.acc
  BY IndexIs
<1>4. DOMAIN ix = {"current", "acc"} /\ ix = [current |-> ix.current, acc |-> acc]
  BY <1>3 DEF Indexes
<1>5. PICK q : q = Edited(h, ix, a, kind)
  OBVIOUS
<1>6. CASE kind \in {"set", "reset"}
  <2>1. PICK r \in AccountRecords : r = acc[a]
    BY <1>3, <1>6, IndexIs DEF Editable, Has
  <2>2. PICK v \in 0..MaxEdits : v = IF kind = "set" THEN e ELSE 0
    BY <1>1
  <2>3. PICK f \in [IndexHosts -> 0..MaxEdits] : f = [r.field EXCEPT ![h] = v]
    BY <2>2, RecordIs
  <2>4. PICK r1, s : r1 = [r EXCEPT !.field = f] /\ s = [r1 EXCEPT !.at = e]
    OBVIOUS
  <2>5. s \in AccountRecords /\ s.field = f
    BY <1>1, <2>3, <2>4 DEF AccountRecords
  <2>6. f[h] = v /\ \A o \in IndexHosts \ {h} : f[o] = r.field[o]
    BY <2>3, RecordIs
  <2>7. PICK acc1 : acc1 = [acc EXCEPT ![a] = r1]
    OBVIOUS
  <2>8. PICK acc2 \in [IndexAccounts -> AccountRecords \cup {Absent}] : acc2 = [acc EXCEPT ![a] = s]
    BY <1>3, <2>5
  <2>9. PICK ix1 : ix1 = [ix EXCEPT !.acc = acc1]
    OBVIOUS
  <2>10. ix1 = [ix EXCEPT !.acc[a].field[h] = v]
    BY <1>3, <2>1, <2>3, <2>4, <2>7, <2>9
  <2>11. ix1.acc = acc1 /\ acc1[a] = r1 /\ acc2 = [acc1 EXCEPT ![a] = s]
    BY <1>3, <1>4, <2>7, <2>8, <2>9
  <2>12. q = [ix1 EXCEPT !.acc[a].at = e]
    BY <1>5, <1>6, <2>2, <2>10 DEF Edited
  <2>13. q = [ix1 EXCEPT !.acc = acc2]
    BY <2>4, <2>11, <2>12
  <2>14. q \in Indexes /\ q.acc = acc2
    BY <1>2, <1>4, <2>8, <2>9, <2>13 DEF Indexes
  <2>15. acc2[a] = s /\ \A x \in IndexAccounts \ {a} : acc2[x] = acc[x]
    BY <2>8
  <2>16. s # Absent
    BY <2>5, RecordIs
  <2>17. QED
    BY <1>3, <1>5, <1>6, <2>1, <2>2, <2>5, <2>6, <2>14, <2>15, <2>16 DEF Has, Own
<1>7. CASE kind = "remove"
  <2>1. PICK acc2 \in [IndexAccounts -> AccountRecords \cup {Absent}] : acc2 = [acc EXCEPT ![a] = Absent]
    BY <1>3
  <2>2. PICK c \in IndexAccounts \cup {NoAccount} : c = IF ix.current = a THEN NoAccount ELSE ix.current
    BY <1>2
  <2>3. q = [ix EXCEPT !.acc = acc2, !.current = c]
    BY <1>3, <1>5, <1>7, <2>1, <2>2 DEF Edited
  <2>4. q \in Indexes /\ q.acc = acc2
    BY <2>3 DEF Indexes
  <2>5. QED
    BY <1>3, <1>5, <1>7, <2>1, <2>4 DEF Has
<1>8. CASE kind = "add"
  <2>1. PICK f \in [IndexHosts -> 0..MaxEdits] : f = [o \in IndexHosts |-> IF o = h THEN e ELSE 0]
    BY <1>1
  <2>2. PICK s : s = [field |-> f, at |-> e]
    OBVIOUS
  <2>3. s \in AccountRecords
    BY <1>1, <2>2 DEF AccountRecords
  <2>4. PICK acc2 \in [IndexAccounts -> AccountRecords \cup {Absent}] : acc2 = [acc EXCEPT ![a] = s]
    BY <1>3, <2>3
  <2>5. q = [ix EXCEPT !.acc = acc2]
    BY <1>3, <1>5, <1>8, <2>1, <2>2, <2>4 DEF Edited
  <2>6. q \in Indexes /\ q.acc = acc2
    BY <2>5 DEF Indexes
  <2>7. s # Absent
    BY <2>3, RecordIs
  <2>8. QED
    BY <1>3, <1>5, <1>8, <2>4, <2>6, <2>7 DEF Has
<1>9. CASE kind = "switch"
  <2>1. q = [ix EXCEPT !.current = a]
    BY <1>5, <1>9 DEF Edited
  <2>2. q \in Indexes /\ q.acc = acc
    BY <1>3, <2>1 DEF Indexes
  <2>3. QED
    BY <1>3, <1>5, <1>9, <2>2 DEF Has, Own, Editable
<1>10. QED
  BY <1>6, <1>7, <1>8, <1>9

-----------------------------------------------------------------------------
(* Saves and their chain.                                                    *)

LEMMA SaveIs ==
  /\ \A s \in Saves : s # NoIndex /\ s.ix \in Indexes /\ s.base \in Indexes
  /\ \A s \in Snapshots : s.ix \in Indexes /\ s.base \in Indexes /\ s.live \in BOOLEAN
BY NoneOfThem DEF Saves, Snapshots

LEMMA NewSave ==
  ASSUME NEW ix \in Indexes, NEW base \in Indexes, NEW live \in BOOLEAN
  PROVE  /\ [ix |-> ix, base |-> base] \in Saves
         /\ [ix |-> ix, base |-> base, live |-> live] \in Snapshots
BY DEF Saves, Snapshots

Unlive(chain) == [i \in DOMAIN chain |-> [chain[i] EXCEPT !.live = FALSE]]
LEMMA UnliveIs ==
  ASSUME NEW chain \in Seq(Snapshots)
  PROVE  /\ Unlive(chain) \in Seq(Snapshots) /\ Len(Unlive(chain)) = Len(chain)
         /\ Unlive(chain) = <<>> <=> chain = <<>>
         /\ chain # <<>> => /\ Head(Unlive(chain)).ix = Head(chain).ix
                            /\ Head(Unlive(chain)).base = Head(chain).base
                            /\ ~Head(Unlive(chain)).live
         /\ \A i \in DOMAIN Unlive(chain) : ~Unlive(chain)[i].live
<1>1. PICK n \in Nat : n = Len(chain) /\ DOMAIN chain = 1..n
  OBVIOUS
<1>2. PICK u : u = [i \in 1..n |-> [chain[i] EXCEPT !.live = FALSE]]
  OBVIOUS
<1>3. u = Unlive(chain)
  BY <1>1, <1>2 DEF Unlive
<1>4. ASSUME NEW i \in 1..n
      PROVE  u[i] \in Snapshots /\ u[i].ix = chain[i].ix /\ u[i].base = chain[i].base /\ ~u[i].live
  <2>1. PICK s \in Snapshots : s = chain[i]
    BY <1>1
  <2>2. u[i] = [s EXCEPT !.live = FALSE]
    BY <1>2, <2>1
  <2>3. QED
    BY <2>1, <2>2 DEF Snapshots
<1>5. u \in [1..n -> Snapshots]
  BY <1>2, <1>4
<1>6. u \in Seq(Snapshots) /\ Len(u) = n
  BY <1>1, <1>2, <1>5
<1>7. u = <<>> <=> chain = <<>>
  BY <1>1, <1>6
<1>8. chain # <<>> => 1 \in 1..n /\ Head(u) = u[1] /\ Head(chain) = chain[1]
  BY <1>1, <1>6, <1>7
<1>9. DOMAIN u = 1..n
  BY <1>2
<1>10. QED
  BY <1>1, <1>3, <1>4, <1>6, <1>7, <1>8, <1>9

LEMMA ChainIs ==
  ASSUME NEW chain \in Seq(Snapshots)
  PROVE  /\ chain # <<>> => /\ Head(chain) \in Snapshots /\ Tail(chain) \in Seq(Snapshots)
                            /\ Head(chain) = chain[1] /\ 1 \in DOMAIN chain
                            /\ \A i \in DOMAIN Tail(chain) :
                                 i + 1 \in DOMAIN chain /\ Tail(chain)[i] = chain[i + 1]
         /\ Len(chain) = 1 => Tail(chain) = <<>>
         /\ \A s \in Snapshots : /\ Append(chain, s) \in Seq(Snapshots) /\ Append(chain, s) # <<>>
                                 /\ chain = <<>> => Head(Append(chain, s)) = s /\ Len(Append(chain, s)) = 1
<1>1. ASSUME chain # <<>>
      PROVE  /\ Head(chain) \in Snapshots /\ Tail(chain) \in Seq(Snapshots)
             /\ Head(chain) = chain[1] /\ 1 \in DOMAIN chain
             /\ \A i \in DOMAIN Tail(chain) :
                  i + 1 \in DOMAIN chain /\ Tail(chain)[i] = chain[i + 1]
  <2>1. PICK n \in Nat : n = Len(chain) /\ DOMAIN chain = 1..n
    OBVIOUS
  <2>2. n >= 1
    BY <1>1, <2>1
  <2>3. PICK t : t = Tail(chain)
    OBVIOUS
  <2>4. t \in Seq(Snapshots) /\ Len(t) = n - 1
    BY <1>1, <2>1, <2>3
  <2>5. DOMAIN t = 1..(n - 1)
    BY <2>4
  <2>6. \A i \in 1..(n - 1) : t[i] = chain[i + 1]
    BY <1>1, <2>1, <2>3
  <2>7. \A i \in 1..(n - 1) : i + 1 \in 1..n
    BY <2>1
  <2>8. Head(chain) \in Snapshots /\ Head(chain) = chain[1] /\ 1 \in 1..n
    BY <1>1, <2>1, <2>2
  <2>9. QED
    BY <2>1, <2>3, <2>4, <2>5, <2>6, <2>7, <2>8
<1>2. ASSUME Len(chain) = 1
      PROVE  Tail(chain) = <<>>
  <2>1. PICK q : q = Tail(chain)
    OBVIOUS
  <2>2. chain # <<>>
    BY <1>2
  <2>3. q \in Seq(Snapshots) /\ Len(q) = 0
    BY <1>2, <2>1, <2>2
  <2>4. QED
    BY <2>1, <2>3
<1>3. ASSUME NEW s \in Snapshots
      PROVE  /\ Append(chain, s) \in Seq(Snapshots) /\ Append(chain, s) # <<>>
             /\ chain = <<>> => Head(Append(chain, s)) = s /\ Len(Append(chain, s)) = 1
  <2>1. PICK q : q = Append(chain, s)
    OBVIOUS
  <2>2. q \in Seq(Snapshots) /\ Len(q) = Len(chain) + 1 /\ q[Len(chain) + 1] = s
    BY <2>1
  <2>3. Len(chain) \in Nat /\ (chain = <<>> => Len(chain) = 0)
    OBVIOUS
  <2>4. q # <<>>
    BY <2>2, <2>3
  <2>5. chain = <<>> => Head(q) = s /\ Len(q) = 1
    BY <2>2, <2>3, <2>4
  <2>6. QED
    BY <2>1, <2>2, <2>4, <2>5
<1>4. QED
  BY <1>1, <1>2, <1>3

LEMMA EmptyIs == EmptyIndex \in Indexes /\ \A a \in IndexAccounts : ~Has(EmptyIndex, a)
BY DEF EmptyIndex, Indexes, Has

-----------------------------------------------------------------------------
(* The types.                                                               *)

LEMMA HostTypes ==
  ASSUME IndexTypes, NEW h \in IndexHosts
  PROVE  /\ cacheIndex[h] \in Indexes \cup {NoIndex} /\ pendSave[h] \in Saves \cup {NoIndex}
         /\ saveChain[h] \in Seq(Snapshots) /\ lateSave[h] \in Saves \cup {NoIndex}
         /\ savedAs[h] \in Indexes \cup {NoIndex} /\ slowEdit[h] \in Indexes \cup {NoIndex}
BY DEF IndexTypes

LEMMA ReadableIs ==
  ASSUME IndexTypes, NEW h \in IndexHosts, NEW seen \in Readable(h)
  PROVE  /\ seen \in Indexes
         /\ IF pendSave[h] # NoIndex THEN seen = pendSave[h].ix
            ELSE seen = diskIndex \/ (cacheIndex[h] # NoIndex /\ seen = cacheIndex[h])
<1>1. CASE pendSave[h] # NoIndex
  BY <1>1, HostTypes, SaveIs DEF Readable
<1>2. CASE pendSave[h] = NoIndex
  <2>1. diskIndex \in Indexes
    BY DEF IndexTypes
  <2>2. seen = diskIndex \/ (cacheIndex[h] # NoIndex /\ seen = cacheIndex[h])
    BY <1>2 DEF Readable
  <2>3. QED
    BY <1>2, <2>1, <2>2, HostTypes
<1>3. QED
  BY <1>1, <1>2

(* What writeIndex leaves of the host.                                       *)
LEMMA WriteIs ==
  ASSUME IndexTypes, NEW h \in IndexHosts, NEW ix \in Indexes,
         NEW cache \in Indexes \cup {NoIndex}, WriteIndex(h, ix, cache)
  PROVE  /\ \E base \in Indexes :
              /\ base = IF Pending(h) THEN pendSave[h].base
                        ELSE IF cache = NoIndex THEN EmptyIndex ELSE cache
              /\ pendSave' = [pendSave EXCEPT ![h] = [ix |-> ix, base |-> base]]
              /\ pendSave'[h] \in Saves /\ pendSave'[h].ix = ix /\ pendSave'[h].base = base
         /\ saveChain' = [saveChain EXCEPT ![h] = Unlive(saveChain[h])]
         /\ cacheIndex' = [cacheIndex EXCEPT ![h] = ix] /\ saveTimer' = saveTimer \cup {h}
         /\ pendSave' \in [IndexHosts -> Saves \cup {NoIndex}]
         /\ saveChain' \in [IndexHosts -> Seq(Snapshots)]
         /\ cacheIndex' \in [IndexHosts -> Indexes \cup {NoIndex}]
         /\ \A o \in IndexHosts \ {h} :
              /\ pendSave'[o] = pendSave[o] /\ saveChain'[o] = saveChain[o]
              /\ cacheIndex'[o] = cacheIndex[o]
         /\ saveChain'[h] = Unlive(saveChain[h]) /\ cacheIndex'[h] = ix
<1>1. PICK base : base = IF Pending(h) THEN pendSave[h].base
                         ELSE IF cache = NoIndex THEN EmptyIndex ELSE cache
  OBVIOUS
<1>2. base \in Indexes
  BY <1>1, HostTypes, SaveIs, EmptyIs DEF Pending
<1>3. PICK s \in Saves : s = [ix |-> ix, base |-> base] /\ s.ix = ix /\ s.base = base
  <2>1. PICK s : s = [ix |-> ix, base |-> base]
    OBVIOUS
  <2>2. s \in Saves /\ s.ix = ix /\ s.base = base
    BY <1>2, <2>1 DEF Saves
  <2>3. QED
    BY <2>1, <2>2
<1>4. pendSave' = [pendSave EXCEPT ![h] = s]
  BY <1>1, <1>3 DEF WriteIndex, Pending
<1>5. PICK u \in Seq(Snapshots) : u = Unlive(saveChain[h])
  BY HostTypes, UnliveIs
<1>6. /\ saveChain' = [saveChain EXCEPT ![h] = u]
      /\ cacheIndex' = [cacheIndex EXCEPT ![h] = ix] /\ saveTimer' = saveTimer \cup {h}
  BY <1>5 DEF WriteIndex, Unlive
<1>7. /\ pendSave \in [IndexHosts -> Saves \cup {NoIndex}]
      /\ saveChain \in [IndexHosts -> Seq(Snapshots)]
      /\ cacheIndex \in [IndexHosts -> Indexes \cup {NoIndex}]
  BY DEF IndexTypes
<1>8. /\ pendSave' \in [IndexHosts -> Saves \cup {NoIndex}] /\ pendSave'[h] = s
      /\ \A o \in IndexHosts \ {h} : pendSave'[o] = pendSave[o]
  BY <1>4, <1>7
<1>9. /\ saveChain' \in [IndexHosts -> Seq(Snapshots)] /\ saveChain'[h] = u
      /\ \A o \in IndexHosts \ {h} : saveChain'[o] = saveChain[o]
  BY <1>6, <1>7
<1>10. /\ cacheIndex' \in [IndexHosts -> Indexes \cup {NoIndex}] /\ cacheIndex'[h] = ix
       /\ \A o \in IndexHosts \ {h} : cacheIndex'[o] = cacheIndex[o]
  BY <1>6, <1>7
<1>11. QED
  BY <1>1, <1>2, <1>3, <1>4, <1>5, <1>6, <1>8, <1>9, <1>10

LEMMA EditKeepsTypes ==
  ASSUME IndexTypes, NEW h \in IndexHosts, NEW seen \in Indexes,
         NEW cache \in Indexes \cup {NoIndex}, EditIndex(h, seen, cache),
         slowEdit' \in [IndexHosts -> Indexes \cup {NoIndex}], overtaken' \in BOOLEAN
  PROVE  IndexTypes'
<1>1. PICK a \in IndexAccounts, kind \in {"set", "reset", "remove", "add", "switch"} :
        /\ h \notin disposed /\ edits < MaxEdits /\ Editable(seen, a, kind)
        /\ WriteIndex(h, Edited(h, seen, a, kind), cache) /\ edits' = edits + 1
        /\ touched' = IF kind = "reset" THEN [touched EXCEPT ![h][a] = 0]
                      ELSE IF kind \in {"set", "add"} THEN [touched EXCEPT ![h][a] = edits + 1]
                      ELSE touched
        /\ added' = IF kind = "add" THEN [added EXCEPT ![a] = @ \cup {h}] ELSE added
        /\ removed' = IF kind = "remove" THEN removed \cup {a} ELSE removed
        /\ UNCHANGED <<diskIndex, lateSave, savedAs, disposed, dropped, failures>>
  BY DEF EditIndex
<1>2. edits \in 0..MaxEdits /\ edits' \in Nat /\ edits' \in 0..MaxEdits /\ 0 \in 0..MaxEdits
  BY <1>1, AccountsIndexAssumption DEF IndexTypes
<1>3. Edited(h, seen, a, kind) \in Indexes
  BY <1>1, <1>2, EditedIs
<1>4. /\ pendSave' \in [IndexHosts -> Saves \cup {NoIndex}] /\ pendSave'[h] \in Saves
      /\ saveChain' \in [IndexHosts -> Seq(Snapshots)]
      /\ cacheIndex' \in [IndexHosts -> Indexes \cup {NoIndex}]
      /\ \A o \in IndexHosts \ {h} : pendSave'[o] = pendSave[o] /\ saveChain'[o] = saveChain[o]
      /\ saveChain'[h] = Unlive(saveChain[h]) /\ saveTimer' = saveTimer \cup {h}
  BY <1>1, <1>3, WriteIs
<1>5. saveChain'[h] = <<>> <=> saveChain[h] = <<>>
  BY <1>4, HostTypes, UnliveIs
<1>6. touched' \in [IndexHosts -> [IndexAccounts -> 0..MaxEdits]]
  <2>1. PICK t \in [IndexHosts -> [IndexAccounts -> 0..MaxEdits]] : t = touched
    BY DEF IndexTypes
  <2>2. PICK e \in 0..MaxEdits : e = edits + 1
    BY <1>1, <1>2
  <2>3. [t EXCEPT ![h][a] = 0] \in [IndexHosts -> [IndexAccounts -> 0..MaxEdits]]
    BY <1>2
  <2>4. [t EXCEPT ![h][a] = e] \in [IndexHosts -> [IndexAccounts -> 0..MaxEdits]]
    OBVIOUS
  <2>5. QED
    BY <1>1, <2>1, <2>2, <2>3, <2>4
<1>7. added' \in [IndexAccounts -> SUBSET IndexHosts]
  <2>1. PICK t \in [IndexAccounts -> SUBSET IndexHosts] : t = added
    BY DEF IndexTypes
  <2>2. PICK n \in SUBSET IndexHosts : n = t[a] \cup {h}
    OBVIOUS
  <2>3. [t EXCEPT ![a] = n] \in [IndexAccounts -> SUBSET IndexHosts]
    OBVIOUS
  <2>4. QED
    BY <1>1, <2>1, <2>2, <2>3
<1>8. /\ saveTimer' \subseteq IndexHosts
      /\ \A o \in saveTimer' :
           pendSave'[o] # NoIndex /\ \A i \in DOMAIN saveChain'[o] : ~saveChain'[o][i].live
  BY <1>4, HostTypes, UnliveIs, SaveIs DEF IndexTypes
<1>9. \A o \in IndexHosts : savedAs'[o] # NoIndex => saveChain'[o] # <<>>
  BY <1>1, <1>4, <1>5 DEF IndexTypes
<1>10. QED
  BY <1>1, <1>2, <1>4, <1>6, <1>7, <1>8, <1>9 DEF IndexTypes

LEMMA OwnStepKeepsTypes ==
  ASSUME IndexTypes, NEW h \in IndexHosts,
         QuickEdit(h) \/ SlowRead(h) \/ SlowWrite(h) \/ InvalidateCache(h) \/ FlushPending(h)
  PROVE  IndexTypes'
<1>1. CASE QuickEdit(h)
  BY <1>1, ReadableIs, EditKeepsTypes DEF QuickEdit, IndexTypes
<1>2. CASE SlowRead(h)
  <2>1. PICK seen \in Readable(h) :
          /\ slowEdit' = [slowEdit EXCEPT ![h] = seen]
          /\ cacheIndex' = [cacheIndex EXCEPT ![h] = seen]
    BY <1>2 DEF SlowRead
  <2>2. seen \in Indexes
    BY <2>1, ReadableIs
  <2>3. /\ slowEdit' \in [IndexHosts -> Indexes \cup {NoIndex}]
        /\ cacheIndex' \in [IndexHosts -> Indexes \cup {NoIndex}]
    BY <2>1, <2>2 DEF IndexTypes
  <2>4. QED
    BY <1>2, <2>3 DEF SlowRead, IndexTypes
<1>3. CASE SlowWrite(h)
  <2>1. slowEdit[h] \in Indexes /\ cacheIndex[h] \in Indexes \cup {NoIndex}
    BY <1>3, HostTypes DEF SlowWrite
  <2>2. slowEdit' \in [IndexHosts -> Indexes \cup {NoIndex}] /\ overtaken' \in BOOLEAN
    BY <1>3 DEF SlowWrite, IndexTypes
  <2>3. QED
    BY <1>3, <2>1, <2>2, EditKeepsTypes DEF SlowWrite
<1>4. CASE InvalidateCache(h)
  BY <1>4 DEF InvalidateCache, IndexTypes
<1>5. CASE FlushPending(h)
  <2>1. pendSave[h] \in Saves
    BY <1>5, HostTypes DEF FlushPending, IndexTypes
  <2>2. PICK s \in Snapshots : s = [ix |-> pendSave[h].ix, base |-> pendSave[h].base, live |-> TRUE]
    BY <2>1, SaveIs DEF Snapshots
  <2>3. PICK c \in Seq(Snapshots) : c = Append(saveChain[h], s) /\ c # <<>>
    BY <2>2, HostTypes, ChainIs
  <2>4. saveChain' = [saveChain EXCEPT ![h] = c]
    BY <1>5, <2>2, <2>3 DEF FlushPending
  <2>5. /\ saveChain' \in [IndexHosts -> Seq(Snapshots)]
        /\ \A o \in IndexHosts : saveChain[o] # <<>> => saveChain'[o] # <<>>
        /\ \A o \in IndexHosts \ {h} : saveChain'[o] = saveChain[o]
    BY <2>3, <2>4 DEF IndexTypes
  <2>6. overtaken' \in BOOLEAN
    BY <1>5 DEF FlushPending, IndexTypes
  <2>7. QED
    BY <1>5, <2>5, <2>6 DEF FlushPending, IndexTypes
<1>6. QED
  BY <1>1, <1>2, <1>3, <1>4, <1>5

(* What is left of a host whose save is settled.                             *)
LEMMA SettleIs ==
  ASSUME IndexTypes, NEW h \in IndexHosts, SettleSave(h)
  PROVE  /\ saveChain[h] # <<>> /\ Snap(h) \in Snapshots /\ savedAs[h] \in Indexes
         /\ CASE ~Pending(h) ->
                   /\ UNCHANGED <<pendSave, cacheIndex>> /\ saveChain'[h] = Tail(saveChain[h])
              [] Pending(h) /\ Snap(h).live ->
                   /\ pendSave'[h] = NoIndex /\ cacheIndex'[h] = savedAs[h]
                   /\ saveChain'[h] = Tail(saveChain[h])
              [] OTHER ->
                   /\ pendSave'[h] \in Saves /\ pendSave'[h].base = savedAs[h]
                   /\ pendSave'[h].ix = MergeIndex(Snap(h).ix, pendSave[h].ix, savedAs[h])
                   /\ cacheIndex'[h] = pendSave'[h].ix
                   /\ saveChain'[h] = Unlive(Tail(saveChain[h]))
         /\ savedAs'[h] = NoIndex
         /\ \A o \in IndexHosts \ {h} :
              /\ pendSave'[o] = pendSave[o] /\ saveChain'[o] = saveChain[o]
              /\ cacheIndex'[o] = cacheIndex[o] /\ savedAs'[o] = savedAs[o]
         /\ pendSave' \in [IndexHosts -> Saves \cup {NoIndex}]
         /\ cacheIndex' \in [IndexHosts -> Indexes \cup {NoIndex}]
         /\ saveChain' \in [IndexHosts -> Seq(Snapshots)]
         /\ savedAs' \in [IndexHosts -> Indexes \cup {NoIndex}]
<1>1. /\ pendSave \in [IndexHosts -> Saves \cup {NoIndex}]
      /\ saveChain \in [IndexHosts -> Seq(Snapshots)]
      /\ cacheIndex \in [IndexHosts -> Indexes \cup {NoIndex}]
      /\ savedAs \in [IndexHosts -> Indexes \cup {NoIndex}]
  BY DEF IndexTypes
<1>2. saveChain[h] # <<>> /\ savedAs[h] \in Indexes
  BY <1>1 DEF SettleSave, IndexTypes
<1>3. PICK save \in Snapshots, m \in Indexes : save = Snap(h) /\ m = savedAs[h]
  BY <1>1, <1>2, ChainIs DEF Snap
<1>4. PICK rest \in Seq(Snapshots) : rest = Tail(saveChain[h])
  BY <1>1, <1>2, ChainIs
<1>5. PICK marked \in Seq(Snapshots) : marked = Unlive(rest)
  BY UnliveIs
<1>6. /\ savedAs' \in [IndexHosts -> Indexes \cup {NoIndex}] /\ savedAs'[h] = NoIndex
      /\ \A o \in IndexHosts \ {h} : savedAs'[o] = savedAs[o]
  BY <1>1 DEF SettleSave
<1>7. CASE ~Pending(h)
  <2>1. UNCHANGED <<pendSave, cacheIndex>> /\ saveChain' = [saveChain EXCEPT ![h] = rest]
    BY <1>4, <1>7 DEF SettleSave, Pending
  <2>2. QED
    BY <1>1, <1>2, <1>3, <1>4, <1>6, <1>7, <2>1
<1>8. CASE Pending(h) /\ save.live
  <2>1. /\ pendSave' = [pendSave EXCEPT ![h] = NoIndex]
        /\ cacheIndex' = [cacheIndex EXCEPT ![h] = m]
        /\ saveChain' = [saveChain EXCEPT ![h] = rest]
    BY <1>3, <1>4, <1>8 DEF SettleSave, Pending, Snap
  <2>2. QED
    BY <1>1, <1>2, <1>3, <1>4, <1>6, <1>8, <2>1
<1>9. CASE Pending(h) /\ ~save.live
  <2>1. PICK p \in Saves : p = pendSave[h]
    BY <1>1, <1>9 DEF Pending
  <2>2. PICK rebased \in Indexes : rebased = MergeIndex(save.ix, p.ix, m)
    BY SaveIs, MergeIs
  <2>3. PICK w : w = [ix |-> rebased, base |-> m]
    OBVIOUS
  <2>4. w \in Saves /\ w.ix = rebased /\ w.base = m
    BY <2>3 DEF Saves
  <2>5. /\ pendSave' = [pendSave EXCEPT ![h] = w]
        /\ cacheIndex' = [cacheIndex EXCEPT ![h] = rebased]
        /\ saveChain' = [saveChain EXCEPT ![h] = marked]
    BY <1>3, <1>4, <1>5, <1>9, <2>1, <2>2, <2>3 DEF SettleSave, Pending, Snap, Unlive
  <2>6. /\ pendSave' \in [IndexHosts -> Saves \cup {NoIndex}] /\ pendSave'[h] = w
        /\ \A o \in IndexHosts \ {h} : pendSave'[o] = pendSave[o]
    BY <1>1, <2>4, <2>5
  <2>7. /\ cacheIndex' \in [IndexHosts -> Indexes \cup {NoIndex}] /\ cacheIndex'[h] = rebased
        /\ \A o \in IndexHosts \ {h} : cacheIndex'[o] = cacheIndex[o]
    BY <1>1, <2>5
  <2>8. /\ saveChain' \in [IndexHosts -> Seq(Snapshots)] /\ saveChain'[h] = marked
        /\ \A o \in IndexHosts \ {h} : saveChain'[o] = saveChain[o]
    BY <1>1, <2>5
  <2>9. QED
    BY <1>2, <1>3, <1>4, <1>5, <1>6, <1>9, <2>1, <2>2, <2>4, <2>6, <2>7, <2>8
<1>10. QED
  BY <1>3, <1>7, <1>8, <1>9

LEMMA SavesKeepTypes ==
  ASSUME IndexTypes, NEW h \in IndexHosts,
         Persist(h) \/ PersistFails(h) \/ SettleSave(h) \/ RetrySave(h) \/ RetryFails(h)
  PROVE  IndexTypes'
<1>1. CASE Persist(h)
  <2>1. Head(saveChain[h]).ix \in Indexes /\ Head(saveChain[h]).base \in Indexes
    BY <1>1, HostTypes, ChainIs, SaveIs DEF Persist
  <2>2. diskIndex' \in Indexes
    BY <1>1, <2>1, MergeIs DEF Persist, IndexTypes
  <2>3. /\ savedAs' \in [IndexHosts -> Indexes \cup {NoIndex}]
        /\ \A o \in IndexHosts : savedAs'[o] # NoIndex => saveChain[o] # <<>>
    BY <1>1, <2>2 DEF Persist, IndexTypes
  <2>4. QED
    BY <1>1, <2>2, <2>3 DEF Persist, IndexTypes
<1>2. CASE PersistFails(h)
  <2>1. Tail(saveChain[h]) \in Seq(Snapshots)
    BY <1>2, HostTypes, ChainIs DEF PersistFails
  <2>2. /\ saveChain' \in [IndexHosts -> Seq(Snapshots)]
        /\ saveChain'[h] = Tail(saveChain[h])
        /\ \A o \in IndexHosts \ {h} : saveChain'[o] = saveChain[o]
    BY <1>2, <2>1 DEF PersistFails, IndexTypes
  <2>3. \A o \in saveTimer : \A i \in DOMAIN saveChain'[o] : ~saveChain'[o][i].live
    BY <1>2, <2>2, HostTypes, ChainIs DEF PersistFails, IndexTypes
  <2>4. QED
    BY <1>2, <2>2, <2>3 DEF PersistFails, IndexTypes
<1>3. CASE SettleSave(h)
  <2>1. /\ saveChain[h] # <<>> /\ saveChain[h] \in Seq(Snapshots)
        /\ Tail(saveChain[h]) \in Seq(Snapshots) /\ Snap(h) = saveChain[h][1]
    BY <1>3, SettleIs, HostTypes, ChainIs DEF Snap
  <2>2. /\ h \in saveTimer => \A i \in DOMAIN Tail(saveChain[h]) : ~Tail(saveChain[h])[i].live
        /\ h \in saveTimer => ~Snap(h).live /\ Pending(h)
    BY <2>1, ChainIs DEF IndexTypes, Pending
  <2>3. h \in saveTimer =>
          pendSave'[h] # NoIndex /\ \A i \in DOMAIN saveChain'[h] : ~saveChain'[h][i].live
    BY <1>3, <2>1, <2>2, SettleIs, UnliveIs, SaveIs
  <2>4. UNCHANGED <<diskIndex, saveTimer, lateSave, slowEdit, disposed, dropped, edits, touched, added,
                    removed, overtaken>>
    BY <1>3 DEF SettleSave
  <2>5. /\ \A o \in saveTimer' : /\ o \notin disposed
                                  /\ pendSave'[o] # NoIndex
                                  /\ \A i \in DOMAIN saveChain'[o] : ~saveChain'[o][i].live
        /\ \A o \in IndexHosts : savedAs'[o] # NoIndex => saveChain'[o] # <<>>
    <3>1. \A o \in saveTimer : o \in IndexHosts /\ o \notin disposed
      BY DEF IndexTypes
    <3>2. \A o \in saveTimer \ {h} :
            pendSave'[o] # NoIndex /\ \A i \in DOMAIN saveChain'[o] : ~saveChain'[o][i].live
      BY <1>3, <3>1, SettleIs DEF IndexTypes
    <3>3. \A o \in IndexHosts : savedAs'[o] # NoIndex => saveChain'[o] # <<>>
      BY <1>3, SettleIs DEF IndexTypes
    <3>4. QED
      BY <2>3, <2>4, <3>1, <3>2, <3>3
  <2>6. QED
    BY <1>3, <2>4, <2>5, SettleIs DEF IndexTypes
<1>4. CASE RetrySave(h)
  <2>1. lateSave[h].ix \in Indexes /\ lateSave[h].base \in Indexes
    BY <1>4, HostTypes, SaveIs DEF RetrySave
  <2>2. diskIndex' \in Indexes
    BY <1>4, <2>1, MergeIs DEF RetrySave, IndexTypes
  <2>3. QED
    BY <1>4, <2>2 DEF RetrySave, IndexTypes
<1>5. CASE RetryFails(h)
  BY <1>5 DEF RetryFails, IndexTypes
<1>6. QED
  BY <1>1, <1>2, <1>3, <1>4, <1>5

LEMMA DisposeKeepsTypes ==
  ASSUME IndexTypes, NEW h \in IndexHosts, Dispose(h)
  PROVE  IndexTypes'
<1>1. /\ disposed' = disposed \cup {h} /\ saveTimer' = saveTimer \ {h}
      /\ slowEdit' = [slowEdit EXCEPT ![h] = NoIndex]
      /\ UNCHANGED <<saveChain, savedAs, edits, touched, added, removed>>
  BY DEF Dispose
<1>2. overtaken' \in BOOLEAN
  BY DEF Dispose, IndexTypes
<1>3. /\ diskIndex' \in Indexes /\ cacheIndex' \in [IndexHosts -> Indexes \cup {NoIndex}]
      /\ lateSave' \in [IndexHosts -> Saves \cup {NoIndex}]
      /\ pendSave' \in {pendSave, [pendSave EXCEPT ![h] = NoIndex]}
      /\ dropped' \subseteq dropped \cup {h}
  <2>1. CASE pendSave[h] = NoIndex
    BY <2>1 DEF Dispose, IndexTypes
  <2>2. CASE pendSave[h] # NoIndex
    <3>1. pendSave[h] \in Saves /\ pendSave[h].ix \in Indexes /\ pendSave[h].base \in Indexes
      BY <2>2, HostTypes, SaveIs
    <3>2. \/ /\ diskIndex' = MergeIndex(pendSave[h].base, pendSave[h].ix, diskIndex)
             /\ cacheIndex' = [cacheIndex EXCEPT ![h] = diskIndex'] /\ UNCHANGED lateSave
          \/ lateSave' = [lateSave EXCEPT ![h] = pendSave[h]] /\ UNCHANGED <<diskIndex, cacheIndex>>
          \/ UNCHANGED <<diskIndex, cacheIndex, lateSave>>
      BY <2>2 DEF Dispose
    <3>3. /\ pendSave' \in {pendSave, [pendSave EXCEPT ![h] = NoIndex]}
          /\ dropped' \subseteq dropped \cup {h}
      BY <2>2 DEF Dispose
    <3>4. MergeIndex(pendSave[h].base, pendSave[h].ix, diskIndex) \in Indexes
      BY <3>1, MergeIs DEF IndexTypes
    <3>5. /\ diskIndex \in Indexes /\ cacheIndex \in [IndexHosts -> Indexes \cup {NoIndex}]
          /\ lateSave \in [IndexHosts -> Saves \cup {NoIndex}]
      BY DEF IndexTypes
    <3>6. CASE diskIndex' = MergeIndex(pendSave[h].base, pendSave[h].ix, diskIndex)
               /\ cacheIndex' = [cacheIndex EXCEPT ![h] = diskIndex'] /\ UNCHANGED lateSave
      BY <3>3, <3>4, <3>5, <3>6
    <3>7. CASE lateSave' = [lateSave EXCEPT ![h] = pendSave[h]] /\ UNCHANGED <<diskIndex, cacheIndex>>
      BY <3>1, <3>3, <3>5, <3>7
    <3>8. CASE UNCHANGED <<diskIndex, cacheIndex, lateSave>>
      BY <3>3, <3>5, <3>8
    <3>9. QED
      BY <3>2, <3>6, <3>7, <3>8
  <2>3. QED
    BY <2>1, <2>2
<1>4. /\ pendSave' \in [IndexHosts -> Saves \cup {NoIndex}]
      /\ slowEdit' \in [IndexHosts -> Indexes \cup {NoIndex}]
      /\ \A o \in saveTimer' : pendSave'[o] = pendSave[o]
  BY <1>1, <1>3 DEF IndexTypes
<1>5. QED
  BY <1>1, <1>2, <1>3, <1>4 DEF IndexTypes

LEMMA IndexInitTypes == IndexInit => IndexTypes
<1> SUFFICES ASSUME IndexInit
             PROVE  IndexTypes
  OBVIOUS
<1>1. 0 \in 0..MaxEdits /\ MaxEdits \in Nat
  BY AccountsIndexAssumption
<1>2. PICK r : r = [field |-> [h \in IndexHosts |-> 0], at |-> 0]
  OBVIOUS
<1>3. r \in AccountRecords
  BY <1>1, <1>2 DEF AccountRecords
<1>4. diskIndex = [current |-> NoAccount,
                   acc |-> [a \in IndexAccounts |-> IF a \in FirstAccounts THEN r ELSE Absent]]
  BY <1>2 DEF IndexInit
<1>5. diskIndex \in Indexes
  BY <1>3, <1>4 DEF Indexes
<1>6. touched \in [IndexHosts -> [IndexAccounts -> 0..MaxEdits]] /\ edits \in 0..MaxEdits
  BY <1>1 DEF IndexInit
<1>7. <<>> \in Seq(Snapshots)
  OBVIOUS
<1>8. saveChain \in [IndexHosts -> Seq(Snapshots)]
  BY <1>7 DEF IndexInit
<1>9. /\ cacheIndex \in [IndexHosts -> Indexes \cup {NoIndex}]
      /\ pendSave \in [IndexHosts -> Saves \cup {NoIndex}]
      /\ lateSave \in [IndexHosts -> Saves \cup {NoIndex}]
      /\ savedAs \in [IndexHosts -> Indexes \cup {NoIndex}]
      /\ slowEdit \in [IndexHosts -> Indexes \cup {NoIndex}]
  BY DEF IndexInit
<1>10. /\ saveTimer = {} /\ disposed = {} /\ dropped = {} /\ removed = {} /\ overtaken = FALSE
       /\ \A h \in IndexHosts : savedAs[h] = NoIndex
  BY DEF IndexInit
<1>11. added \in [IndexAccounts -> SUBSET IndexHosts]
  BY DEF IndexInit
<1>12. QED
  BY <1>5, <1>6, <1>8, <1>9, <1>10, <1>11 DEF IndexTypes

LEMMA IndexKeepsTypes ==
  ASSUME IndexTypes, [IndexNext]_indexVars
  PROVE  IndexTypes'
<1>1. CASE IndexNext
  BY <1>1, OwnStepKeepsTypes, SavesKeepTypes, DisposeKeepsTypes DEF IndexNext, IndexSaves
<1>2. CASE UNCHANGED indexVars
  BY <1>2 DEF indexVars, IndexTypes
<1>3. QED
  BY <1>1, <1>2

-----------------------------------------------------------------------------
(* Who knows what: as long as nothing is overtaken.                          *)

(* A host persists one save at a time, taken from what it has pending.         *)
HostInOrder(h) ==
  /\ InChain(h) => /\ Len(saveChain[h]) = 1 /\ Pending(h) /\ Snap(h).base = pendSave[h].base
                   /\ Snap(h).live => Snap(h).ix = pendSave[h].ix
  /\ Pending(h) => cacheIndex[h] = pendSave[h].ix
  /\ InChain(h) => h \notin disposed
  /\ Late(h) => h \in disposed /\ ~Pending(h)

(* What a save is based on, and what it has, once the save under way is        *)
(* settled.                                                                  *)
BaseHas(h, a) == IF Settling(h) THEN Has(savedAs[h], a) ELSE Has(SaveOf(h).base, a)
SaveHas(h, a) ==
  IF ~Settling(h) THEN Has(SaveOf(h).ix, a)
  ELSE IF Has(Snap(h).ix, a) THEN Has(SaveOf(h).ix, a) /\ Has(savedAs[h], a)
  ELSE Has(SaveOf(h).ix, a) \/ Has(savedAs[h], a)

(* An account nobody has removed stays wherever it is.                        *)
Known(h, a) == a \in FirstAccounts \/ h \in added[a] \/ touched[h][a] > 0
Stays(h, a) ==
  /\ Owes(h) => /\ BaseHas(h, a) => SaveHas(h, a) /\ Has(diskIndex, a)
                /\ Known(h, a) => SaveHas(h, a) /\ Has(SaveOf(h).ix, a)
  /\ ~Owes(h) /\ Known(h, a) => Has(diskIndex, a)
  /\ InChain(h) => /\ Has(Snap(h).base, a) => Has(Snap(h).ix, a)
                   /\ Has(Snap(h).ix, a) => Has(pendSave[h].ix, a)
  /\ Settling(h) => (Has(Snap(h).ix, a) => Has(savedAs[h], a))
  /\ ~Pending(h) /\ h \notin disposed /\ Cached(h) =>
       /\ Has(cacheIndex[h], a) => Has(diskIndex, a)
       /\ Known(h, a) => Has(cacheIndex[h], a)

(* An account only one host has added is that host's until it is in the file.   *)
Contested(a) == \E o, p \in added[a] : o # p
Holds(h, a) ==
  \/ Cached(h) /\ Has(cacheIndex[h], a)
  \/ Owes(h) /\ (Has(SaveOf(h).ix, a) \/ Has(SaveOf(h).base, a))
  \/ InChain(h) /\ Has(Snap(h).ix, a)
  \/ Settling(h) /\ Has(savedAs[h], a)
Fresh(h, a) ==
  \/ Owes(h) /\ ~BaseHas(h, a) /\ SaveHas(h, a)
  \/ InChain(h) /\ ~Settling(h) /\ ~Has(Snap(h).base, a) /\ Has(Snap(h).ix, a)
  \/ InChain(h) /\ ~Has(Snap(h).ix, a) /\ Has(pendSave[h].ix, a)
Newcomer(h, a) ==
  /\ a \notin FirstAccounts /\ h \in added[a] /\ ~Has(diskIndex, a)
  /\ \A o \in IndexHosts \ {h} : ~Holds(o, a)
  /\ a \in removed => ~SaveHas(h, a)

(* Who has removed an account has still to save that, as long as it is there.   *)
Removing(h, a) == Owes(h) /\ BaseHas(h, a) /\ ~SaveHas(h, a)

(* The field of a host comes from its own saves only.                         *)
FieldKept(h, a) ==
  /\ Cached(h) => Has(cacheIndex[h], a)
  /\ Owes(h) =>
       /\ Has(SaveOf(h).ix, a) /\ Has(SaveOf(h).base, a)
       /\ Own(SaveOf(h).ix, h, a) = touched[h][a]
       /\ \A o \in IndexHosts \ {h} : Own(SaveOf(h).ix, o, a) = Own(SaveOf(h).base, o, a)
       /\ ~Settling(h) => Own(SaveOf(h).base, h, a) = Own(diskIndex, h, a)
  /\ ~Owes(h) => Own(diskIndex, h, a) = touched[h][a]
  /\ Cached(h) /\ h \notin disposed => Own(cacheIndex[h], h, a) = touched[h][a]
  /\ InChain(h) =>
       /\ Has(Snap(h).ix, a)
       /\ \A o \in IndexHosts \ {h} : Own(Snap(h).ix, o, a) = Own(Snap(h).base, o, a)
  /\ Settling(h) =>
       /\ Has(savedAs[h], a) /\ Own(savedAs[h], h, a) = Own(Snap(h).ix, h, a)
       /\ Own(savedAs[h], h, a) = Own(diskIndex, h, a)

AddedOnce(a) ==
  /\ Has(diskIndex, a) \/ (\E h \in IndexHosts : Holds(h, a)) => a \in FirstAccounts \/ added[a] # {}
  /\ ~Contested(a) => \A h \in IndexHosts : Fresh(h, a) => Newcomer(h, a)
RemovalComes(a) == ~Contested(a) /\ Has(diskIndex, a) => \E h \in IndexHosts : Removing(h, a)
AllInOrder ==
  /\ \A h \in IndexHosts : HostInOrder(h)
  /\ \A h \in IndexHosts : \A a \in IndexAccounts \ removed : Stays(h, a)
  /\ \A a \in IndexAccounts : AddedOnce(a)
  /\ \A a \in removed : RemovalComes(a)
  /\ \A a \in FirstAccounts \ removed :
       Has(diskIndex, a) /\ \A h \in IndexHosts : FieldKept(h, a)

IndexInv == IndexTypes /\ (~overtaken => AllInOrder)

-----------------------------------------------------------------------------
(* What another host's step leaves alone.                                    *)

SameHost(o) ==
  /\ cacheIndex'[o] = cacheIndex[o] /\ pendSave'[o] = pendSave[o] /\ saveChain'[o] = saveChain[o]
  /\ lateSave'[o] = lateSave[o] /\ savedAs'[o] = savedAs[o] /\ touched'[o] = touched[o]
  /\ o \in disposed' <=> o \in disposed
  /\ \A a \in IndexAccounts : o \in added'[a] <=> o \in added[a]

LEMMA SameHostIs ==
  ASSUME NEW o \in IndexHosts, SameHost(o)
  PROVE  /\ Owes(o)' <=> Owes(o)
         /\ Pending(o)' <=> Pending(o)
         /\ HostInOrder(o) => HostInOrder(o)'
         /\ \A a \in IndexAccounts :
              /\ Holds(o, a)' <=> Holds(o, a)
              /\ Fresh(o, a)' <=> Fresh(o, a)
              /\ SaveHas(o, a)' <=> SaveHas(o, a)
              /\ BaseHas(o, a)' <=> BaseHas(o, a)
              /\ Removing(o, a)' <=> Removing(o, a)
              /\ Stays(o, a) /\ (Has(diskIndex, a) => Has(diskIndex', a)) => Stays(o, a)'
              /\ FieldKept(o, a) /\ Own(diskIndex', o, a) = Own(diskIndex, o, a) => FieldKept(o, a)'
<1>1. /\ SaveOf(o)' = SaveOf(o) /\ Snap(o)' = Snap(o)
      /\ Owes(o)' <=> Owes(o)
      /\ Pending(o)' <=> Pending(o)
      /\ InChain(o)' <=> InChain(o)
      /\ Settling(o)' <=> Settling(o)
      /\ Cached(o)' <=> Cached(o)
  BY DEF SameHost, SaveOf, Snap, Owes, Pending, Late, InChain, Settling, Cached
<1>2. ASSUME NEW a \in IndexAccounts
      PROVE  /\ Holds(o, a)' <=> Holds(o, a)
             /\ Fresh(o, a)' <=> Fresh(o, a)
             /\ SaveHas(o, a)' <=> SaveHas(o, a)
             /\ BaseHas(o, a)' <=> BaseHas(o, a)
             /\ Removing(o, a)' <=> Removing(o, a)
             /\ Known(o, a)' <=> Known(o, a)
  BY <1>1 DEF SameHost, Holds, Fresh, SaveHas, BaseHas, Removing, Known, Has
<1>3. ASSUME NEW a \in IndexAccounts, Stays(o, a), Has(diskIndex, a) => Has(diskIndex', a)
      PROVE  Stays(o, a)'
  BY <1>1, <1>2, <1>3 DEF SameHost, Stays, Has
<1>4. ASSUME NEW a \in IndexAccounts, FieldKept(o, a), Own(diskIndex', o, a) = Own(diskIndex, o, a)
      PROVE  FieldKept(o, a)'
  BY <1>1, <1>4 DEF SameHost, FieldKept, Own, Has
<1>5. HostInOrder(o) => HostInOrder(o)'
  BY <1>1 DEF SameHost, HostInOrder, Late
<1>6. QED
  BY <1>1, <1>2, <1>3, <1>4, <1>5

(* What a step of host h has to show for itself.                              *)
LEMMA OneHostSteps ==
  ASSUME IndexTypes, AllInOrder, NEW h \in IndexHosts,
         \A o \in IndexHosts \ {h} : SameHost(o),
         removed \subseteq removed', removed' \subseteq IndexAccounts,
         \A a \in IndexAccounts : added[a] \subseteq added'[a] /\ added'[a] \subseteq IndexHosts,
         HostInOrder(h)',
         \A a \in IndexAccounts : Has(diskIndex', a) => Has(diskIndex, a) \/ Holds(h, a),
         \A a \in IndexAccounts : Holds(h, a)' => Holds(h, a) \/ Has(diskIndex, a) \/ h \in added'[a],
         \A a \in IndexAccounts : a \in removed' => a \in removed \/ Has(diskIndex, a) \/ Holds(h, a),
         \A a \in IndexAccounts : ~Contested(a)' /\ Fresh(h, a)' => Newcomer(h, a)',
         \A a \in IndexAccounts \ removed' : Has(diskIndex, a) => Has(diskIndex', a),
         \A a \in IndexAccounts \ removed' : Stays(h, a)',
         \A a \in FirstAccounts \ removed' :
           \A o \in IndexHosts \ {h} : Own(diskIndex', o, a) = Own(diskIndex, o, a),
         \A a \in FirstAccounts \ removed' : FieldKept(h, a)',
         \A a \in removed' : ~Contested(a)' /\ Has(diskIndex', a) =>
           \/ a \in removed /\ Has(diskIndex, a) /\ (Removing(h, a) => Removing(h, a)')
           \/ Removing(h, a)'
  PROVE  AllInOrder'
<1>1. \A o \in IndexHosts : HostInOrder(o)'
  BY SameHostIs DEF AllInOrder
<1>2. ASSUME NEW o \in IndexHosts, NEW a \in IndexAccounts \ removed'
      PROVE  Stays(o, a)'
  <2>1. CASE o = h
    BY <2>1
  <2>2. CASE o # h
    BY <2>2, SameHostIs DEF AllInOrder
  <2>3. QED
    BY <2>1, <2>2
<1>3. \A a \in IndexAccounts : Contested(a) => Contested(a)'
  BY DEF Contested
<1>4. ASSUME NEW a \in IndexAccounts
      PROVE  AddedOnce(a)'
  <2>1. AddedOnce(a)
    BY DEF AllInOrder
  <2>2. Has(diskIndex', a) \/ (\E o \in IndexHosts : Holds(o, a)') => a \in FirstAccounts \/ added'[a] # {}
    <3>1. \A o \in IndexHosts : Holds(o, a)' => Holds(o, a) \/ Has(diskIndex, a) \/ h \in added'[a]
      BY SameHostIs
    <3>2. QED
      BY <2>1, <3>1 DEF AddedOnce
  <2>3. ASSUME ~Contested(a)', NEW o \in IndexHosts, Fresh(o, a)'
        PROVE  Newcomer(o, a)'
    <3>1. CASE o = h
      BY <2>3, <3>1
    <3>2. CASE o # h
      <4>1. Newcomer(o, a)
        BY <1>3, <2>1, <2>3, <3>2, SameHostIs DEF AddedOnce
      <4>2. ~Holds(h, a) /\ ~Has(diskIndex, a) /\ o \in added[a] /\ a \notin FirstAccounts
        BY <3>2, <4>1 DEF Newcomer
      <4>3. h \notin added'[a]
        BY <2>3, <3>2, <4>2 DEF Contested
      <4>4. ~Holds(h, a)' /\ ~Has(diskIndex', a) /\ o \in added'[a]
        BY <4>2, <4>3
      <4>5. \A p \in IndexHosts \ {o} : ~Holds(p, a)'
        BY <4>1, <4>4, SameHostIs DEF Newcomer
      <4>6. a \in removed' => ~SaveHas(o, a)'
        BY <3>2, <4>1, <4>2, SameHostIs DEF Newcomer
      <4>7. QED
        BY <4>2, <4>4, <4>5, <4>6 DEF Newcomer
    <3>3. QED
      BY <3>1, <3>2
  <2>4. QED
    BY <2>2, <2>3 DEF AddedOnce
<1>5. ASSUME NEW a \in removed', ~Contested(a)', Has(diskIndex', a)
      PROVE  \E o \in IndexHosts : Removing(o, a)'
  <2>1. CASE Removing(h, a)'
    BY <2>1
  <2>2. CASE a \in removed /\ Has(diskIndex, a) /\ (Removing(h, a) => Removing(h, a)')
    <3>1. PICK o \in IndexHosts : Removing(o, a)
      BY <1>3, <1>5, <2>2 DEF AllInOrder, RemovalComes
    <3>2. a \in IndexAccounts
      OBVIOUS
    <3>3. Removing(o, a)'
      BY <2>2, <3>1, <3>2, SameHostIs
    <3>4. QED
      BY <3>3
  <2>3. QED
    BY <1>5, <2>1, <2>2
<1>6. ASSUME NEW a \in FirstAccounts \ removed'
      PROVE  Has(diskIndex', a) /\ \A o \in IndexHosts : FieldKept(o, a)'
  <2>1. a \in IndexAccounts /\ a \in FirstAccounts \ removed
    BY <1>6, AccountsIndexAssumption
  <2>2. Has(diskIndex, a) /\ \A o \in IndexHosts : FieldKept(o, a)
    BY <2>1 DEF AllInOrder
  <2>3. Has(diskIndex', a)
    BY <1>6, <2>1, <2>2
  <2>4. ASSUME NEW o \in IndexHosts
        PROVE  FieldKept(o, a)'
    <3>1. CASE o = h
      BY <1>6, <3>1
    <3>2. CASE o # h
      BY <1>6, <2>1, <2>2, <3>2, SameHostIs
    <3>3. QED
      BY <3>1, <3>2
  <2>5. QED
    BY <2>3, <2>4
<1>7. QED
  BY <1>1, <1>2, <1>4, <1>5, <1>6 DEF AllInOrder, RemovalComes, Has

-----------------------------------------------------------------------------
(* The steps of one host.                                                    *)

(* A host that has nothing to save, or only what it has pending.              *)
LEMMA HostIs ==
  ASSUME IndexTypes, AllInOrder, NEW h \in IndexHosts
  PROVE  /\ InChain(h) => Pending(h)
         /\ Settling(h) => InChain(h) /\ Pending(h)
         /\ h \notin disposed => ~Late(h) /\ (Owes(h) <=> Pending(h))
         /\ Late(h) => ~Pending(h) /\ ~InChain(h) /\ ~Settling(h)
BY DEF AllInOrder, HostInOrder, IndexTypes, InChain, Settling, Owes

(* What only host h has is still only that host's after its step.              *)
LEMMA StaysNew ==
  ASSUME AllInOrder, NEW h \in IndexHosts, \A o \in IndexHosts \ {h} : SameHost(o),
         NEW a \in IndexAccounts, added[a] \subseteq added'[a], ~Contested(a)', Fresh(h, a),
         ~Has(diskIndex, a) => ~Has(diskIndex', a),
         a \in removed' => a \in removed \/ ~SaveHas(h, a)',
         ~SaveHas(h, a) => ~SaveHas(h, a)'
  PROVE  Newcomer(h, a) /\ Newcomer(h, a)'
<1>1. ~Contested(a)
  BY DEF Contested
<1>2. Newcomer(h, a)
  BY <1>1 DEF AllInOrder, AddedOnce
<1>3. \A o \in IndexHosts \ {h} : ~Holds(o, a)'
  BY <1>2, SameHostIs DEF Newcomer
<1>4. QED
  BY <1>2, <1>3 DEF Newcomer

(* A step that leaves the file alone and adds and removes nothing.             *)
LEMMA QuietStep ==
  ASSUME IndexTypes, AllInOrder, NEW h \in IndexHosts,
         \A o \in IndexHosts \ {h} : SameHost(o),
         diskIndex' = diskIndex, added' = added, removed' = removed,
         HostInOrder(h)',
         \A a \in IndexAccounts :
           /\ Holds(h, a)' => Holds(h, a) \/ Has(diskIndex, a)
           /\ Fresh(h, a)' => Fresh(h, a) /\ (SaveHas(h, a)' => SaveHas(h, a))
           /\ Removing(h, a) => Removing(h, a)'
           /\ a \notin removed => Stays(h, a)',
         \A a \in FirstAccounts \ removed : FieldKept(h, a)'
  PROVE  AllInOrder'
<1>1. \A a \in IndexAccounts : ~Contested(a)' /\ Fresh(h, a)' => Newcomer(h, a)'
  <2>1. SUFFICES ASSUME NEW a \in IndexAccounts, ~Contested(a)', Fresh(h, a)'
                 PROVE  Newcomer(h, a)'
    OBVIOUS
  <2>2. Fresh(h, a) /\ added[a] \subseteq added'[a]
    BY <2>1
  <2>3. ~Has(diskIndex, a) => ~Has(diskIndex', a)
    BY DEF Has
  <2>4. ~SaveHas(h, a) => ~SaveHas(h, a)'
    BY <2>1
  <2>5. a \in removed' => a \in removed \/ ~SaveHas(h, a)
    OBVIOUS
  <2>6. QED
    BY <2>1, <2>2, <2>3, <2>4, <2>5, StaysNew
<1>2. removed \subseteq removed' /\ removed' \subseteq IndexAccounts
  BY DEF IndexTypes
<1>3. \A a \in IndexAccounts : added[a] \subseteq added'[a] /\ added'[a] \subseteq IndexHosts
  BY DEF IndexTypes
<1>4. \A a \in IndexAccounts : Has(diskIndex', a) => Has(diskIndex, a) \/ Holds(h, a)
  BY DEF Has
<1>5. \A a \in IndexAccounts : Holds(h, a)' => Holds(h, a) \/ Has(diskIndex, a) \/ h \in added'[a]
  OBVIOUS
<1>6. \A a \in IndexAccounts \ removed' : Has(diskIndex, a) => Has(diskIndex', a)
  BY DEF Has
<1>7. \A a \in IndexAccounts \ removed' : Stays(h, a)'
  OBVIOUS
<1>8. \A a \in FirstAccounts \ removed' :
         \A o \in IndexHosts \ {h} : Own(diskIndex', o, a) = Own(diskIndex, o, a)
  BY DEF Own
<1>9. \A a \in FirstAccounts \ removed' : FieldKept(h, a)'
  OBVIOUS
<1>10. \A a \in removed' : ~Contested(a)' /\ Has(diskIndex', a) =>
         \/ a \in removed /\ Has(diskIndex, a) /\ (Removing(h, a) => Removing(h, a)')
         \/ Removing(h, a)'
  BY <1>2 DEF Has
<1>11. \A a \in IndexAccounts : a \in removed' => a \in removed \/ Has(diskIndex, a) \/ Holds(h, a)
  OBVIOUS
<1>12. QED
  BY <1>1, <1>2, <1>3, <1>4, <1>5, <1>6, <1>7, <1>8, <1>9, <1>10, <1>11, OneHostSteps

(* What the invariant says of one account and one host.                       *)
LEMMA AccountIs ==
  ASSUME AllInOrder, NEW h \in IndexHosts
  PROVE  /\ HostInOrder(h)
         /\ \A a \in IndexAccounts : a \notin removed => Stays(h, a)
         /\ \A a \in FirstAccounts \ removed :
              Has(diskIndex, a) /\ FieldKept(h, a) /\ a \in IndexAccounts /\ Stays(h, a)
BY AccountsIndexAssumption DEF AllInOrder

(* A mutator's read puts what it has read in the cache, invalidateIndexCache   *)
(* empties it.                                                               *)
LEMMA CacheStepInOrder ==
  ASSUME IndexTypes, AllInOrder, NEW h \in IndexHosts, SlowRead(h) \/ InvalidateCache(h)
  PROVE  AllInOrder'
<1>1. PICK seen \in Indexes \cup {NoIndex} :
        /\ seen \in {NoIndex, cacheIndex[h], diskIndex}
        /\ seen = diskIndex => seen = cacheIndex[h] \/ (~Pending(h) /\ h \notin disposed)
        /\ seen = NoIndex => seen = cacheIndex[h] \/ ~Pending(h)
        /\ cacheIndex' = [cacheIndex EXCEPT ![h] = seen]
  <2>1. CASE SlowRead(h)
    <3>1. PICK seen \in Readable(h) : cacheIndex' = [cacheIndex EXCEPT ![h] = seen] /\ h \notin disposed
      BY <2>1 DEF SlowRead
    <3>2. seen \in Indexes /\ seen # NoIndex
      BY <3>1, ReadableIs, NoneOfThem
    <3>3. Pending(h) => seen = cacheIndex[h]
      BY <3>1, ReadableIs, AccountIs DEF HostInOrder, Pending
    <3>4. QED
      BY <3>1, <3>2, <3>3, ReadableIs DEF Pending
  <2>2. CASE InvalidateCache(h)
    <3>1. diskIndex # NoIndex
      BY NoneOfThem DEF IndexTypes
    <3>2. QED
      BY <2>2, <3>1 DEF InvalidateCache, Pending
  <2>3. QED
    BY <2>1, <2>2
<1>2. UNCHANGED <<diskIndex, pendSave, saveChain, lateSave, savedAs, disposed, touched, added, removed>>
  BY DEF InvalidateCache, SlowRead
<1>3. cacheIndex'[h] = seen /\ \A o \in IndexHosts \ {h} : SameHost(o)
  BY <1>1, <1>2 DEF SameHost, IndexTypes
<1>4. /\ SaveOf(h)' = SaveOf(h) /\ Snap(h)' = Snap(h)
      /\ Owes(h)' <=> Owes(h)
      /\ Pending(h)' <=> Pending(h)
      /\ InChain(h)' <=> InChain(h)
      /\ Settling(h)' <=> Settling(h)
      /\ Late(h)' <=> Late(h)
      /\ Cached(h)' <=> seen # NoIndex
  BY <1>2, <1>3 DEF SaveOf, Snap, Owes, Pending, Late, InChain, Settling, Cached
<1>5. HostInOrder(h)'
  BY <1>1, <1>2, <1>3, <1>4, AccountIs, SaveIs, HostTypes, NoneOfThem DEF HostInOrder, Pending
<1>6. ASSUME NEW a \in IndexAccounts
      PROVE  /\ Holds(h, a)' => Holds(h, a) \/ Has(diskIndex, a)
             /\ SaveHas(h, a)' <=> SaveHas(h, a)
             /\ Fresh(h, a)' <=> Fresh(h, a)
             /\ Removing(h, a)' <=> Removing(h, a)
             /\ a \notin removed => Stays(h, a)'
  <2>1. /\ SaveHas(h, a)' <=> SaveHas(h, a)
        /\ BaseHas(h, a)' <=> BaseHas(h, a)
        /\ Known(h, a)' <=> Known(h, a)
    BY <1>2, <1>4 DEF SaveHas, BaseHas, Known, Has
  <2>2. Holds(h, a)' => Holds(h, a) \/ Has(diskIndex, a)
    BY <1>1, <1>2, <1>3, <1>4 DEF Holds, Has, Cached
  <2>3. /\ Fresh(h, a)' <=> Fresh(h, a)
        /\ Removing(h, a)' <=> Removing(h, a)
    BY <1>2, <1>4, <2>1 DEF Fresh, Removing, Has
  <2>4. ASSUME a \notin removed
        PROVE  Stays(h, a)'
    <3>1. Stays(h, a) /\ (h \notin disposed => ~Late(h))
      BY <2>4, AccountIs, HostIs
    <3>2. ~Pending(h) /\ h \notin disposed /\ seen = diskIndex /\ Known(h, a) =>
            Has(seen, a)
      BY <3>1 DEF Stays, Owes
    <3>3. ~Pending(h) /\ h \notin disposed /\ seen # NoIndex =>
            /\ Has(seen, a) => Has(diskIndex, a)
            /\ Known(h, a) => Has(seen, a)
      BY <1>1, <3>1, <3>2 DEF Stays, Cached
    <3>4. QED
      BY <1>2, <1>3, <1>4, <2>1, <3>1, <3>3 DEF Stays, Has
  <2>5. QED
    BY <2>1, <2>2, <2>3, <2>4
<1>7. ASSUME NEW a \in FirstAccounts \ removed
      PROVE  FieldKept(h, a)'
  <2>1. /\ Has(diskIndex, a) /\ FieldKept(h, a)
        /\ h \notin disposed => ~Late(h)
    BY AccountIs, HostIs
  <2>2. seen = diskIndex /\ ~Pending(h) /\ h \notin disposed =>
          Has(seen, a) /\ Own(seen, h, a) = touched[h][a]
    BY <2>1 DEF FieldKept, Owes
  <2>3. seen # NoIndex => Has(seen, a) /\ (h \notin disposed => Own(seen, h, a) = touched[h][a])
    BY <1>1, <2>1, <2>2 DEF FieldKept, Cached
  <2>4. QED
    BY <1>2, <1>3, <1>4, <2>1, <2>3 DEF FieldKept, Own, Has
<1>8. QED
  BY <1>2, <1>3, <1>5, <1>6, <1>7, QuietStep

(* flushPendingSave takes its snapshot when none is being saved, or a save      *)
(* fails.                                                                    *)
LEMMA ChainStepInOrder ==
  ASSUME IndexTypes, AllInOrder, NEW h \in IndexHosts,
         (FlushPending(h) /\ ~overtaken') \/ PersistFails(h)
  PROVE  AllInOrder'
<1>1. UNCHANGED <<diskIndex, cacheIndex, pendSave, lateSave, savedAs, disposed, touched, added, removed>>
  BY DEF FlushPending, PersistFails
<1>2. /\ Pending(h) /\ ~Settling(h) /\ HostInOrder(h) /\ h \notin disposed
      /\ \A o \in IndexHosts \ {h} : saveChain'[o] = saveChain[o]
      /\ \/ saveChain'[h] = <<>>
         \/ /\ ~InChain(h) /\ InChain(h)' /\ Len(saveChain'[h]) = 1
            /\ Snap(h)'.ix = pendSave[h].ix /\ Snap(h)'.base = pendSave[h].base
  <2>1. CASE FlushPending(h) /\ ~overtaken'
    <3>1. PICK s : s = [ix |-> pendSave[h].ix, base |-> pendSave[h].base, live |-> TRUE]
      OBVIOUS
    <3>2. Pending(h) /\ pendSave[h].ix \in Indexes /\ pendSave[h].base \in Indexes
      BY <2>1, HostTypes, SaveIs DEF FlushPending, IndexTypes, Pending
    <3>3. s \in Snapshots
      BY <3>1, <3>2, NewSave
    <3>4. ~InChain(h) /\ saveChain[h] = <<>> /\ ~Settling(h)
      BY <2>1, HostIs DEF FlushPending, InChain
    <3>5. saveChain' = [saveChain EXCEPT ![h] = Append(saveChain[h], s)]
      BY <2>1, <3>1 DEF FlushPending
    <3>6. /\ saveChain'[h] = Append(saveChain[h], s)
          /\ \A o \in IndexHosts \ {h} : saveChain'[o] = saveChain[o]
      BY <3>5 DEF IndexTypes
    <3>7. saveChain'[h] # <<>> /\ Head(saveChain'[h]) = s /\ Len(saveChain'[h]) = 1
      BY <3>3, <3>4, <3>6, HostTypes, ChainIs
    <3>8. h \notin disposed
      BY <2>1 DEF FlushPending, IndexTypes
    <3>9. QED
      BY <3>1, <3>2, <3>4, <3>6, <3>7, <3>8, AccountIs DEF InChain, Snap
  <2>2. CASE PersistFails(h)
    <3>1. InChain(h) /\ Pending(h) /\ ~Settling(h) /\ HostInOrder(h)
      BY <2>2, HostIs, AccountIs DEF PersistFails, InChain, Settling
    <3>2. saveChain'[h] = Tail(saveChain[h]) /\ \A o \in IndexHosts \ {h} : saveChain'[o] = saveChain[o]
      BY <2>2 DEF PersistFails, IndexTypes
    <3>3. saveChain'[h] = <<>>
      BY <3>1, <3>2, HostTypes, ChainIs DEF HostInOrder
    <3>4. QED
      BY <3>1, <3>2, <3>3 DEF HostInOrder
  <2>3. QED
    BY <2>1, <2>2
<1>3. /\ saveTimer' \subseteq IndexHosts
      /\ \A o \in IndexHosts \ {h} : SameHost(o)
  BY <1>1, <1>2 DEF SameHost, IndexTypes, FlushPending, PersistFails
<1>4. /\ SaveOf(h)' = SaveOf(h)
      /\ Owes(h) /\ Owes(h)' /\ Pending(h)' /\ ~Settling(h)'
      /\ Late(h)' <=> Late(h)
      /\ Cached(h)' <=> Cached(h)
      /\ SaveOf(h) = pendSave[h]
      /\ InChain(h)' => Snap(h)'.ix = pendSave[h].ix /\ Snap(h)'.base = pendSave[h].base
  BY <1>1, <1>2 DEF SaveOf, Owes, Pending, Late, InChain, Settling, Cached
<1>5. HostInOrder(h)'
  BY <1>1, <1>2, <1>4 DEF HostInOrder, InChain
<1>6. ASSUME NEW a \in IndexAccounts
      PROVE  /\ Holds(h, a)' => Holds(h, a)
             /\ SaveHas(h, a)' <=> SaveHas(h, a)
             /\ Fresh(h, a)' => Fresh(h, a)
             /\ Removing(h, a)' <=> Removing(h, a)
             /\ a \notin removed => Stays(h, a)'
  <2>1. /\ SaveHas(h, a) <=> Has(pendSave[h].ix, a)
        /\ BaseHas(h, a) <=> Has(pendSave[h].base, a)
        /\ SaveHas(h, a)' <=> Has(pendSave[h].ix, a)
        /\ BaseHas(h, a)' <=> Has(pendSave[h].base, a)
        /\ Known(h, a)' <=> Known(h, a)
    BY <1>1, <1>2, <1>4 DEF SaveHas, BaseHas, Known
  <2>2. Holds(h, a)' => Holds(h, a)
    BY <1>1, <1>2, <1>4 DEF Holds
  <2>3. /\ Fresh(h, a)' => Fresh(h, a)
        /\ Removing(h, a)' <=> Removing(h, a)
    BY <1>1, <1>2, <1>4, <2>1 DEF Fresh, Removing
  <2>4. ASSUME a \notin removed
        PROVE  Stays(h, a)'
    <3>1. Stays(h, a)
      BY <2>4, AccountIs
    <3>2. QED
      BY <1>1, <1>2, <1>4, <2>1, <3>1 DEF Stays
  <2>5. QED
    BY <2>1, <2>2, <2>3, <2>4
<1>7. ASSUME NEW a \in FirstAccounts \ removed
      PROVE  FieldKept(h, a)'
  <2>1. FieldKept(h, a)
    BY AccountIs
  <2>2. QED
    BY <1>1, <1>2, <1>4, <2>1 DEF FieldKept, Own
<1>8. QED
  BY <1>1, <1>3, <1>5, <1>6, <1>7, QuietStep

(* The rest of flushPendingSave.                                             *)
LEMMA SettleInOrder ==
  ASSUME IndexTypes, AllInOrder, NEW h \in IndexHosts, SettleSave(h)
  PROVE  AllInOrder'
<1>1. UNCHANGED <<diskIndex, lateSave, disposed, touched, added, removed>>
  BY DEF SettleSave
<1>2. /\ Settling(h) /\ InChain(h) /\ Pending(h) /\ ~Late(h) /\ h \notin disposed
      /\ HostInOrder(h) /\ SaveOf(h) = pendSave[h] /\ Owes(h)
  BY HostIs, AccountIs DEF SettleSave, Settling, SaveOf, HostInOrder, Owes
<1>3. PICK s \in Snapshots : s = Snap(h) /\ s.ix \in Indexes /\ s.base = pendSave[h].base
  BY <1>2, SettleIs, SaveIs DEF HostInOrder
<1>4. PICK v \in Indexes : v = savedAs[h]
  BY <1>2, HostTypes DEF Settling
<1>5. pendSave[h].ix \in Indexes
  BY <1>2, HostTypes, SaveIs DEF Pending
<1>6. saveChain'[h] = <<>> /\ savedAs'[h] = NoIndex
  <2>1. Tail(saveChain[h]) = <<>> /\ Tail(saveChain[h]) \in Seq(Snapshots)
    BY <1>2, HostTypes, ChainIs DEF HostInOrder, InChain
  <2>2. Unlive(Tail(saveChain[h])) = <<>>
    BY <2>1, UnliveIs
  <2>3. saveChain'[h] \in {Tail(saveChain[h]), Unlive(Tail(saveChain[h]))}
    BY SettleIs
  <2>4. QED
    BY <2>1, <2>2, <2>3, SettleIs
<1>7. \A o \in IndexHosts \ {h} : SameHost(o)
  BY <1>1, SettleIs DEF SameHost, IndexTypes
<1>8. PICK r \in Indexes : r = MergeIndex(s.ix, pendSave[h].ix, v)
  BY <1>3, <1>4, <1>5, MergeIs
<1>9. \A a \in IndexAccounts :
        /\ Has(r, a) <=> IF Has(s.ix, a) THEN Has(pendSave[h].ix, a) /\ Has(v, a)
                         ELSE Has(pendSave[h].ix, a) \/ Has(v, a)
        /\ BaseHas(h, a) <=> Has(v, a)
        /\ SaveHas(h, a) <=> Has(r, a)
  <2>1. \A a \in IndexAccounts :
          /\ Has(r, a) <=> IF Has(s.ix, a) THEN Has(pendSave[h].ix, a) /\ Has(v, a)
                           ELSE Has(pendSave[h].ix, a) \/ Has(v, a)
    BY <1>3, <1>4, <1>5, <1>8, MergeIs
  <2>2. QED
    BY <1>2, <1>3, <1>4, <2>1 DEF BaseHas, SaveHas
<1>10. CASE s.live
  <2>1. pendSave'[h] = NoIndex /\ cacheIndex'[h] = v /\ pendSave[h].ix = s.ix
    BY <1>2, <1>3, <1>4, <1>10, SettleIs DEF HostInOrder
  <2>2. /\ ~Pending(h)' /\ ~Late(h)' /\ ~Owes(h)' /\ ~InChain(h)' /\ ~Settling(h)' /\ Cached(h)'
        /\ \A a \in IndexAccounts : Known(h, a)' <=> Known(h, a)
    BY <1>1, <1>2, <1>4, <1>6, <2>1, NoneOfThem
       DEF Pending, Late, Owes, InChain, Settling, Cached, Known
  <2>3. HostInOrder(h)'
    BY <2>2 DEF HostInOrder
  <2>4. ASSUME NEW a \in IndexAccounts
        PROVE  /\ Holds(h, a)' => Holds(h, a) \/ Has(diskIndex, a)
               /\ ~Fresh(h, a)'
               /\ ~Removing(h, a)
               /\ a \notin removed => Stays(h, a)'
    <3>1. ~Removing(h, a)
      BY <1>9, <2>1 DEF Removing
    <3>2. Holds(h, a)' => Holds(h, a)
      BY <1>2, <1>4, <2>1, <2>2 DEF Holds
    <3>3. ~Fresh(h, a)'
      BY <2>2 DEF Fresh
    <3>4. ASSUME a \notin removed
          PROVE  Stays(h, a)'
      <4>1. Stays(h, a)
        BY <3>4, AccountIs
      <4>2. /\ Known(h, a) => Has(v, a)
            /\ Has(v, a) => Has(diskIndex, a)
        BY <1>2, <1>9, <2>1, <4>1 DEF Stays
      <4>3. QED
        BY <1>1, <2>1, <2>2, <4>2 DEF Stays
    <3>5. QED
      BY <3>1, <3>2, <3>3, <3>4
  <2>5. ASSUME NEW a \in FirstAccounts \ removed
        PROVE  FieldKept(h, a)'
    <3>1. FieldKept(h, a)
      BY AccountIs
    <3>2. /\ Has(v, a) /\ Own(v, h, a) = touched[h][a]
          /\ Own(diskIndex, h, a) = touched[h][a]
      BY <1>2, <1>3, <1>4, <2>1, <3>1 DEF FieldKept
    <3>3. QED
      BY <1>1, <2>1, <2>2, <3>2 DEF FieldKept
  <2>6. QED
    BY <1>1, <1>7, <2>3, <2>4, <2>5, QuietStep
<1>11. CASE ~s.live
  <2>1. pendSave'[h] \in Saves /\ pendSave'[h].ix = r /\ pendSave'[h].base = v /\ cacheIndex'[h] = r
    BY <1>2, <1>3, <1>4, <1>8, <1>11, SettleIs
  <2>2. /\ Pending(h)' /\ ~Late(h)' /\ Owes(h)' /\ ~InChain(h)' /\ ~Settling(h)' /\ Cached(h)'
        /\ SaveOf(h)' = pendSave'[h]
        /\ \A a \in IndexAccounts : Known(h, a)' <=> Known(h, a)
    BY <1>1, <1>2, <1>6, <2>1, NoneOfThem
       DEF Pending, Late, Owes, InChain, Settling, Cached, Known, SaveOf
  <2>3. HostInOrder(h)'
    BY <1>1, <1>2, <2>1, <2>2 DEF HostInOrder
  <2>4. ASSUME NEW a \in IndexAccounts
        PROVE  /\ BaseHas(h, a)' <=> Has(v, a)
               /\ SaveHas(h, a)' <=> Has(r, a)
    BY <2>1, <2>2 DEF BaseHas, SaveHas
  <2>5. ASSUME NEW a \in IndexAccounts
        PROVE  /\ Holds(h, a)' => Holds(h, a)
               /\ Fresh(h, a)' => Fresh(h, a)
               /\ SaveHas(h, a)' <=> SaveHas(h, a)
               /\ Removing(h, a)' <=> Removing(h, a)
               /\ a \notin removed => Stays(h, a)'
    <3>1. Removing(h, a)' <=> Removing(h, a)
      BY <1>2, <1>9, <2>2, <2>4 DEF Removing
    <3>2. Holds(h, a)' => Holds(h, a)
      BY <1>2, <1>4, <1>9, <2>1, <2>2 DEF Holds
    <3>3. Fresh(h, a)' => Fresh(h, a)
      BY <1>2, <1>9, <2>2, <2>4 DEF Fresh
    <3>4. ASSUME a \notin removed
          PROVE  Stays(h, a)'
      <4>1. Stays(h, a)
        BY <3>4, AccountIs
      <4>2. QED
        BY <1>1, <1>2, <1>9, <2>1, <2>2, <2>4, <4>1 DEF Stays
    <3>5. QED
      BY <1>9, <2>4, <3>1, <3>2, <3>3, <3>4
  <2>6. ASSUME NEW a \in FirstAccounts \ removed
        PROVE  FieldKept(h, a)'
    <3>1. FieldKept(h, a) /\ a \in IndexAccounts
      BY AccountIs
    <3>2. /\ Has(v, a) /\ Has(s.ix, a) /\ Has(pendSave[h].ix, a)
          /\ Own(v, h, a) = Own(s.ix, h, a) /\ Own(v, h, a) = Own(diskIndex, h, a)
          /\ Own(pendSave[h].ix, h, a) = touched[h][a]
          /\ \A o \in IndexHosts \ {h} : Own(pendSave[h].ix, o, a) = Own(s.ix, o, a)
      BY <1>2, <1>3, <1>4, <3>1 DEF FieldKept
    <3>3. /\ Has(r, a) /\ Own(r, h, a) = touched[h][a]
          /\ \A o \in IndexHosts \ {h} : Own(r, o, a) = Own(v, o, a)
      <4>1. \A o \in IndexHosts :
              /\ Own(pendSave[h].ix, o, a) = Own(s.ix, o, a) => Own(r, o, a) = Own(v, o, a)
              /\ Own(v, o, a) = Own(s.ix, o, a) => Own(r, o, a) = Own(pendSave[h].ix, o, a)
        <5>1. PICK p \in Indexes : p = pendSave[h].ix
          BY <1>5
        <5>2. PICK b \in Indexes : b = s.ix
          BY <1>3
        <5>3. /\ a \in IndexAccounts /\ Has(b, a) /\ Has(p, a) /\ Has(v, a)
              /\ r = MergeIndex(b, p, v)
          BY <1>8, <3>1, <3>2, <5>1, <5>2
        <5>4. ASSUME NEW o \in IndexHosts
              PROVE  /\ Own(p, o, a) = Own(b, o, a) => Own(r, o, a) = Own(v, o, a)
                     /\ Own(v, o, a) = Own(b, o, a) => Own(r, o, a) = Own(p, o, a)
          BY <5>3, MergeKeepsOwn
        <5>5. QED
          BY <5>1, <5>2, <5>4
      <4>2. Has(r, a)
        BY <1>9, <3>1, <3>2
      <4>3. QED
        BY <3>2, <4>1, <4>2
    <3>4. QED
      BY <1>1, <2>1, <2>2, <3>2, <3>3 DEF FieldKept
  <2>7. QED
    BY <1>1, <1>7, <2>3, <2>5, <2>6, QuietStep
<1>12. QED
  BY <1>10, <1>11

(* A save into the file, with nothing left to save after it: what             *)
(* disposeWriteCoordinator and its retry do.                                 *)
LEMMA LastSaveInOrder ==
  ASSUME IndexTypes, AllInOrder, NEW h \in IndexHosts,
         NEW b \in Indexes, NEW p \in Indexes, NEW d \in Indexes, NEW m \in Indexes,
         Owes(h), ~InChain(h), ~Settling(h), SaveOf(h).base = b, SaveOf(h).ix = p,
         diskIndex = d, diskIndex' = m, m = MergeIndex(b, p, d),
         ~Owes(h)', ~InChain(h)', ~Settling(h)', h \in disposed',
         cacheIndex'[h] \in {cacheIndex[h], m},
         UNCHANGED <<touched, added, removed>>,
         \A o \in IndexHosts \ {h} : SameHost(o)
  PROVE  AllInOrder'
<1>1. HostInOrder(h)'
  BY DEF HostInOrder, Owes
<1>2. \A a \in IndexAccounts :
        /\ Has(m, a) <=> IF Has(b, a) THEN Has(p, a) /\ Has(d, a) ELSE Has(p, a) \/ Has(d, a)
        /\ BaseHas(h, a) <=> Has(b, a)
        /\ SaveHas(h, a) <=> Has(p, a)
        /\ Fresh(h, a) <=> ~Has(b, a) /\ Has(p, a)
        /\ Removing(h, a) <=> Has(b, a) /\ ~Has(p, a)
        /\ ~Fresh(h, a)'
        /\ Known(h, a)' <=> Known(h, a)
        /\ Has(diskIndex, a) <=> Has(d, a)
        /\ Has(diskIndex', a) <=> Has(m, a)
  <2>1. \A a \in IndexAccounts :
          Has(m, a) <=> IF Has(b, a) THEN Has(p, a) /\ Has(d, a) ELSE Has(p, a) \/ Has(d, a)
    BY MergeIs
  <2>2. \A a \in IndexAccounts :
          /\ BaseHas(h, a) <=> Has(b, a)
          /\ SaveHas(h, a) <=> Has(p, a)
    BY DEF BaseHas, SaveHas
  <2>3. \A a \in IndexAccounts :
          /\ Fresh(h, a) <=> ~Has(b, a) /\ Has(p, a)
          /\ Removing(h, a) <=> Has(b, a) /\ ~Has(p, a)
          /\ ~Fresh(h, a)'
          /\ Known(h, a)' <=> Known(h, a)
    BY <2>2 DEF Fresh, Removing, Known
  <2>4. QED
    BY <2>1, <2>2, <2>3
<1>3. removed \subseteq removed' /\ removed' \subseteq IndexAccounts
  BY DEF IndexTypes
<1>4. \A a \in IndexAccounts : added[a] \subseteq added'[a] /\ added'[a] \subseteq IndexHosts
  BY DEF IndexTypes
<1>5. \A a \in IndexAccounts : Has(diskIndex', a) => Has(diskIndex, a) \/ Holds(h, a)
  BY <1>2 DEF Holds
<1>6. \A a \in IndexAccounts : Holds(h, a)' => Holds(h, a) \/ Has(diskIndex, a) \/ h \in added'[a]
  <2>1. SUFFICES ASSUME NEW a \in IndexAccounts, Holds(h, a)'
                 PROVE  Holds(h, a) \/ Has(diskIndex, a)
    OBVIOUS
  <2>2. Cached(h)' /\ Has(cacheIndex'[h], a)
    BY <2>1 DEF Holds
  <2>3. (Cached(h) /\ Has(cacheIndex[h], a)) \/ Has(m, a)
    BY <2>2 DEF Cached
  <2>4. QED
    BY <1>2, <2>3 DEF Holds
<1>7. \A a \in IndexAccounts : a \in removed' => a \in removed \/ Has(diskIndex, a) \/ Holds(h, a)
  OBVIOUS
<1>8. \A a \in IndexAccounts : ~Contested(a)' /\ Fresh(h, a)' => Newcomer(h, a)'
  BY <1>2
<1>9. \A a \in IndexAccounts \ removed' : Has(diskIndex, a) => Has(diskIndex', a)
  <2>1. SUFFICES ASSUME NEW a \in IndexAccounts \ removed, Has(d, a)
                 PROVE  Has(m, a)
    BY <1>2
  <2>2. Stays(h, a)
    BY AccountIs
  <2>3. QED
    BY <1>2, <2>1, <2>2 DEF Stays
<1>10. \A a \in IndexAccounts \ removed' : Stays(h, a)'
  <2>1. SUFFICES ASSUME NEW a \in IndexAccounts \ removed
                 PROVE  Stays(h, a)'
    OBVIOUS
  <2>2. Stays(h, a)
    BY AccountIs
  <2>3. Known(h, a)' => Has(diskIndex', a)
    BY <1>2, <2>1, <2>2 DEF Stays
  <2>4. QED
    BY <2>3 DEF Stays
<1>11. ASSUME NEW a \in FirstAccounts \ removed'
       PROVE  /\ \A o \in IndexHosts \ {h} : Own(diskIndex', o, a) = Own(diskIndex, o, a)
              /\ FieldKept(h, a)'
  <2>1. FieldKept(h, a) /\ a \in IndexAccounts /\ Has(d, a)
    BY AccountIs
  <2>2. /\ Has(p, a) /\ Has(b, a) /\ Own(p, h, a) = touched[h][a] /\ Own(b, h, a) = Own(d, h, a)
        /\ \A o \in IndexHosts \ {h} : Own(p, o, a) = Own(b, o, a)
    BY <2>1 DEF FieldKept
  <2>3. ASSUME NEW o \in IndexHosts
        PROVE  /\ Own(p, o, a) = Own(b, o, a) => Own(m, o, a) = Own(d, o, a)
               /\ Own(d, o, a) = Own(b, o, a) => Own(m, o, a) = Own(p, o, a)
    BY <2>1, <2>2, MergeKeepsOwn
  <2>4. Has(m, a) /\ Own(m, h, a) = touched[h][a]
    BY <1>2, <2>1, <2>2, <2>3
  <2>5. Cached(h)' => Has(cacheIndex'[h], a)
    BY <2>1, <2>4 DEF FieldKept, Cached
  <2>6. FieldKept(h, a)'
    BY <2>4, <2>5 DEF FieldKept
  <2>7. QED
    BY <2>2, <2>3, <2>6
<1>12. \A a \in removed' : ~Contested(a)' /\ Has(diskIndex', a) =>
         \/ a \in removed /\ Has(diskIndex, a) /\ (Removing(h, a) => Removing(h, a)')
         \/ Removing(h, a)'
  <2>1. SUFFICES ASSUME NEW a \in removed, ~Contested(a), Has(m, a)
                 PROVE  Has(d, a) /\ ~Removing(h, a)
    BY <1>2, <1>3 DEF Contested
  <2>2. a \in IndexAccounts
    BY <1>3
  <2>3. Fresh(h, a) => Newcomer(h, a)
    BY <2>1, <2>2 DEF AllInOrder, AddedOnce
  <2>4. ~Fresh(h, a)
    BY <1>2, <2>2, <2>3 DEF Newcomer
  <2>5. QED
    BY <1>2, <2>1, <2>2, <2>4
<1>13. \A a \in FirstAccounts \ removed' :
         \A o \in IndexHosts \ {h} : Own(diskIndex', o, a) = Own(diskIndex, o, a)
  BY <1>11
<1>14. \A a \in FirstAccounts \ removed' : FieldKept(h, a)'
  BY <1>11
<1>15. QED
  BY <1>1, <1>3, <1>4, <1>5, <1>6, <1>7, <1>8, <1>9, <1>10, <1>12, <1>13, <1>14, OneHostSteps

(* What does not touch the saves, the caches and the file.                     *)
LEMMA UnchangedInOrder ==
  ASSUME AllInOrder, IndexTypes,
         UNCHANGED <<diskIndex, cacheIndex, pendSave, saveChain, lateSave, savedAs, disposed, touched, added, removed>>
  PROVE  AllInOrder'
<1>1. UNCHANGED <<diskIndex, cacheIndex, pendSave, saveChain, lateSave, savedAs, disposed, touched, added, removed>>
  OBVIOUS
<1>2. CASE IndexHosts = {}
  BY <1>1, <1>2 DEF AllInOrder, AddedOnce, RemovalComes, Fresh, Contested, Has
<1>3. CASE IndexHosts # {}
  <2>1. PICK h \in IndexHosts : TRUE
    BY <1>3
  <2>2. \A o \in IndexHosts : SameHost(o)
    BY <1>1 DEF SameHost
  <2>3. \A a \in FirstAccounts : Own(diskIndex', h, a) = Own(diskIndex, h, a)
    BY <1>1 DEF Own
  <2>4. HostInOrder(h)'
    BY <2>2, SameHostIs, AccountIs
  <2>5. ASSUME NEW a \in IndexAccounts
        PROVE  /\ Holds(h, a)' <=> Holds(h, a)
               /\ Fresh(h, a)' <=> Fresh(h, a)
               /\ SaveHas(h, a)' <=> SaveHas(h, a)
               /\ Removing(h, a)' <=> Removing(h, a)
               /\ a \notin removed => Stays(h, a)'
    <3>1. Has(diskIndex, a) => Has(diskIndex', a)
      BY <1>1 DEF Has
    <3>2. QED
      BY <2>2, <3>1, SameHostIs, AccountIs
  <2>6. \A a \in FirstAccounts \ removed : FieldKept(h, a)'
    BY <2>2, <2>3, SameHostIs, AccountIs
  <2>7. QED
    BY <1>1, <2>2, <2>4, <2>5, <2>6, QuietStep
<1>4. QED
  BY <1>2, <1>3

(* disposeWriteCoordinator, unless a snapshot is still being saved, and its     *)
(* retry: what fails for good is kept as if it were still to be saved.          *)
LEMMA LastStepsInOrder ==
  ASSUME IndexTypes, AllInOrder, NEW h \in IndexHosts,
         (Dispose(h) /\ ~overtaken') \/ RetrySave(h) \/ RetryFails(h)
  PROVE  AllInOrder'
<1>1. CASE RetrySave(h)
  <2>1. Late(h) /\ Owes(h) /\ ~Pending(h) /\ ~InChain(h) /\ ~Settling(h) /\ h \in disposed
    BY <1>1, HostIs, AccountIs DEF RetrySave, Late, Owes, HostInOrder
  <2>2. PICK b \in Indexes, p \in Indexes : b = lateSave[h].base /\ p = lateSave[h].ix
    BY <2>1, HostTypes, SaveIs DEF Late
  <2>3. PICK d \in Indexes : d = diskIndex
    BY DEF IndexTypes
  <2>4. PICK m \in Indexes : m = MergeIndex(b, p, d)
    BY MergeIs
  <2>5. SaveOf(h).base = b /\ SaveOf(h).ix = p
    BY <2>1, <2>2 DEF SaveOf
  <2>6. diskIndex' = m
    BY <1>1, <2>2, <2>3, <2>4 DEF RetrySave
  <2>7. /\ lateSave' = [lateSave EXCEPT ![h] = NoIndex]
        /\ UNCHANGED <<cacheIndex, pendSave, saveChain, savedAs, disposed, touched, added, removed>>
    BY <1>1 DEF RetrySave
  <2>8. ~Owes(h)' /\ ~InChain(h)' /\ ~Settling(h)' /\ h \in disposed'
    BY <2>1, <2>7 DEF Owes, Pending, Late, InChain, Settling, IndexTypes
  <2>9. \A o \in IndexHosts \ {h} : SameHost(o)
    BY <2>7 DEF SameHost, IndexTypes
  <2>10. cacheIndex'[h] \in {cacheIndex[h], m}
    BY <2>7
  <2>11. QED
    BY <2>1, <2>3, <2>4, <2>5, <2>6, <2>7, <2>8, <2>9, <2>10, LastSaveInOrder
<1>2. CASE Dispose(h) /\ ~overtaken'
  <2>1. /\ disposed' = disposed \cup {h}
        /\ UNCHANGED <<saveChain, savedAs, touched, added, removed>>
    BY <1>2 DEF Dispose
  <2>2. /\ ~Late(h) /\ ~InChain(h) /\ ~Settling(h) /\ ~InChain(h)' /\ ~Settling(h)'
        /\ h \in disposed' /\ (Owes(h) <=> Pending(h))
    <3>1. Pending(h) => ~InChain(h)
      BY <1>2 DEF Dispose, Pending, InChain
    <3>2. QED
      BY <1>2, <2>1, <3>1, HostIs DEF Dispose, Pending, InChain, Settling, IndexTypes
  <2>3. CASE Pending(h) /\ pendSave' = [pendSave EXCEPT ![h] = NoIndex]
             /\ diskIndex' = MergeIndex(pendSave[h].base, pendSave[h].ix, diskIndex)
             /\ cacheIndex' = [cacheIndex EXCEPT ![h] = diskIndex'] /\ UNCHANGED lateSave
    <3>1. PICK b \in Indexes, p \in Indexes : b = pendSave[h].base /\ p = pendSave[h].ix
      BY <2>3, HostTypes, SaveIs DEF Pending
    <3>2. PICK d \in Indexes : d = diskIndex
      BY DEF IndexTypes
    <3>3. PICK m \in Indexes : m = MergeIndex(b, p, d)
      BY MergeIs
    <3>4. SaveOf(h).base = b /\ SaveOf(h).ix = p
      BY <2>3, <3>1 DEF SaveOf
    <3>5. diskIndex' = m /\ cacheIndex'[h] = m
      BY <2>3, <3>1, <3>2, <3>3 DEF IndexTypes
    <3>6. ~Owes(h)'
      BY <2>2, <2>3 DEF Owes, Pending, Late, IndexTypes
    <3>7. \A o \in IndexHosts \ {h} : SameHost(o)
      BY <2>1, <2>3 DEF SameHost, IndexTypes
    <3>8. cacheIndex'[h] \in {cacheIndex[h], m}
      BY <3>5
    <3>9. Owes(h)
      BY <2>2, <2>3
    <3>10. QED
      BY <2>1, <2>2, <3>2, <3>3, <3>4, <3>5, <3>6, <3>7, <3>8, <3>9, LastSaveInOrder
  <2>4. CASE /\ UNCHANGED <<diskIndex, cacheIndex>>
             /\ \/ UNCHANGED <<pendSave, lateSave>>
                \/ /\ Pending(h) /\ pendSave' = [pendSave EXCEPT ![h] = NoIndex]
                   /\ lateSave' = [lateSave EXCEPT ![h] = pendSave[h]]
    <3>1. \A o \in IndexHosts \ {h} : SameHost(o)
      BY <2>1, <2>4 DEF SameHost, IndexTypes
    <3>2. /\ Owes(h)' <=> Owes(h)
          /\ Owes(h) => SaveOf(h)' = SaveOf(h)
          /\ Cached(h)' <=> Cached(h)
      BY <2>1, <2>2, <2>4 DEF Owes, Pending, Late, SaveOf, Cached, IndexTypes
    <3>3. HostInOrder(h)'
      <4>1. HostInOrder(h)
        BY AccountIs
      <4>2. QED
        BY <2>2, <2>4, <4>1 DEF HostInOrder, Pending, Late, IndexTypes
    <3>4. ASSUME NEW a \in IndexAccounts
          PROVE  /\ Holds(h, a)' => Holds(h, a)
                 /\ Owes(h) => (SaveHas(h, a)' <=> SaveHas(h, a))
                 /\ Owes(h) => (BaseHas(h, a)' <=> BaseHas(h, a))
                 /\ Fresh(h, a)' => Fresh(h, a) /\ Owes(h)
                 /\ Removing(h, a)' <=> Removing(h, a)
                 /\ a \notin removed => Stays(h, a)'
      <4>1. /\ Owes(h) => (SaveHas(h, a)' <=> SaveHas(h, a))
            /\ Owes(h) => (BaseHas(h, a)' <=> BaseHas(h, a))
            /\ Known(h, a)' <=> Known(h, a)
        BY <2>1, <2>2, <3>2 DEF SaveHas, BaseHas, Known
      <4>2. Holds(h, a)' => Holds(h, a)
        BY <2>1, <2>2, <2>4, <3>2 DEF Holds
      <4>3. /\ Fresh(h, a)' => Fresh(h, a) /\ Owes(h)
            /\ Removing(h, a)' <=> Removing(h, a)
        BY <2>2, <3>2, <4>1 DEF Fresh, Removing
      <4>4. ASSUME a \notin removed
            PROVE  Stays(h, a)'
        <5>1. Stays(h, a)
          BY <4>4, AccountIs
        <5>2. QED
          BY <2>2, <2>4, <3>2, <4>1, <5>1 DEF Stays
      <4>5. QED
        BY <4>1, <4>2, <4>3, <4>4
    <3>5. ASSUME NEW a \in FirstAccounts \ removed
          PROVE  FieldKept(h, a)'
      <4>1. FieldKept(h, a)
        BY AccountIs
      <4>2. QED
        BY <2>1, <2>2, <2>4, <3>2, <4>1 DEF FieldKept, Own
    <3>6. QED
      BY <2>1, <2>4, <3>1, <3>3, <3>4, <3>5, QuietStep
  <2>5. QED
    BY <1>2, <2>3, <2>4 DEF Dispose, Pending
<1>3. CASE RetryFails(h)
  BY <1>3, UnchangedInOrder DEF RetryFails
<1>4. QED
  BY <1>1, <1>2, <1>3

(* persistIndexWithBackups.                                                  *)
LEMMA PersistInOrder ==
  ASSUME IndexTypes, AllInOrder, NEW h \in IndexHosts, Persist(h)
  PROVE  AllInOrder'
<1>1. /\ InChain(h) /\ ~Settling(h) /\ Pending(h) /\ HostInOrder(h) /\ Owes(h) /\ SaveOf(h) = pendSave[h]
      /\ UNCHANGED <<cacheIndex, pendSave, saveChain, lateSave, disposed, touched, added, removed>>
      /\ diskIndex' = MergeIndex(Head(saveChain[h]).base, Head(saveChain[h]).ix, diskIndex)
      /\ savedAs' = [savedAs EXCEPT ![h] = diskIndex']
  BY HostIs, AccountIs DEF Persist, InChain, Settling, Owes, SaveOf
<1>2. PICK b \in Indexes, s \in Indexes :
        b = Snap(h).base /\ s = Snap(h).ix /\ pendSave[h].base = b
  BY <1>1, HostTypes, ChainIs, SaveIs DEF InChain, Snap, HostInOrder
<1>3. PICK p \in Indexes : p = pendSave[h].ix
  BY <1>1, HostTypes, SaveIs DEF Pending
<1>4. PICK d \in Indexes : d = diskIndex
  BY DEF IndexTypes
<1>5. PICK m \in Indexes : m = MergeIndex(b, s, d)
  BY MergeIs
<1>6. /\ diskIndex' = m /\ savedAs'[h] = m
      /\ \A o \in IndexHosts \ {h} : savedAs'[o] = savedAs[o]
  BY <1>1, <1>2, <1>4, <1>5 DEF Snap, IndexTypes
<1>7. \A o \in IndexHosts \ {h} : SameHost(o)
  BY <1>1, <1>6 DEF SameHost
<1>8. /\ InChain(h)' /\ Settling(h)' /\ Pending(h)' /\ Owes(h)' /\ SaveOf(h)' = SaveOf(h)
      /\ Snap(h)' = Snap(h)
      /\ Cached(h)' <=> Cached(h)
      /\ Late(h)' <=> Late(h)
  BY <1>1, <1>6, NoneOfThem DEF InChain, Settling, Pending, Owes, SaveOf, Snap, Cached, Late
<1>9. HostInOrder(h)'
  BY <1>1, <1>8 DEF HostInOrder
<1>10. \A a \in IndexAccounts :
         /\ Has(m, a) <=> IF Has(b, a) THEN Has(s, a) /\ Has(d, a) ELSE Has(s, a) \/ Has(d, a)
         /\ BaseHas(h, a) <=> Has(b, a)
         /\ SaveHas(h, a) <=> Has(p, a)
         /\ BaseHas(h, a)' <=> Has(m, a)
         /\ SaveHas(h, a)' <=> IF Has(s, a) THEN Has(p, a) /\ Has(m, a) ELSE Has(p, a) \/ Has(m, a)
         /\ Known(h, a)' <=> Known(h, a)
         /\ Has(diskIndex, a) <=> Has(d, a)
         /\ Has(diskIndex', a) <=> Has(m, a)
  <2>1. \A a \in IndexAccounts :
          Has(m, a) <=> IF Has(b, a) THEN Has(s, a) /\ Has(d, a) ELSE Has(s, a) \/ Has(d, a)
    BY <1>5, MergeIs
  <2>2. \A a \in IndexAccounts :
          /\ BaseHas(h, a) <=> Has(b, a)
          /\ SaveHas(h, a) <=> Has(p, a)
    BY <1>1, <1>2, <1>3 DEF BaseHas, SaveHas
  <2>3. \A a \in IndexAccounts :
          /\ BaseHas(h, a)' <=> Has(m, a)
          /\ SaveHas(h, a)' <=> IF Has(s, a) THEN Has(p, a) /\ Has(m, a) ELSE Has(p, a) \/ Has(m, a)
    BY <1>1, <1>2, <1>3, <1>6, <1>8 DEF BaseHas, SaveHas
  <2>4. QED
    BY <1>1, <1>4, <1>6, <2>1, <2>2, <2>3 DEF Known
<1>11. \A a \in IndexAccounts :
         /\ Fresh(h, a) <=> \/ ~Has(b, a) /\ (Has(p, a) \/ Has(s, a))
                            \/ ~Has(s, a) /\ Has(p, a)
         /\ Fresh(h, a)' <=> (~Has(s, a) /\ Has(p, a)) \/ (~Has(m, a) /\ SaveHas(h, a)')
         /\ Removing(h, a) <=> Has(b, a) /\ ~Has(p, a)
         /\ Removing(h, a)' <=> Has(m, a) /\ ~SaveHas(h, a)'
  BY <1>1, <1>2, <1>3, <1>8, <1>10 DEF Fresh, Removing
<1>12. \A a \in IndexAccounts : ~Contested(a) /\ Fresh(h, a) => Newcomer(h, a)
  BY DEF AllInOrder, AddedOnce
<1>13. removed \subseteq removed' /\ removed' \subseteq IndexAccounts
  BY <1>1 DEF IndexTypes
<1>14. \A a \in IndexAccounts : added[a] \subseteq added'[a] /\ added'[a] \subseteq IndexHosts
  BY <1>1 DEF IndexTypes
<1>15. \A a \in IndexAccounts : Has(diskIndex', a) => Has(diskIndex, a) \/ Holds(h, a)
  BY <1>1, <1>2, <1>10 DEF Holds
<1>16. \A a \in IndexAccounts : Holds(h, a)' => Holds(h, a) \/ Has(diskIndex, a) \/ h \in added'[a]
  <2>1. SUFFICES ASSUME NEW a \in IndexAccounts, Holds(h, a)'
                 PROVE  Holds(h, a) \/ Has(d, a)
    BY <1>10
  <2>2. Has(m, a) => Holds(h, a) \/ Has(d, a)
    BY <1>10, <1>15
  <2>3. QED
    BY <1>1, <1>6, <1>8, <2>1, <2>2 DEF Holds
<1>17. \A a \in IndexAccounts : a \in removed' => a \in removed \/ Has(diskIndex, a) \/ Holds(h, a)
  BY <1>1
<1>18. \A a \in IndexAccounts : ~Contested(a)' /\ Fresh(h, a)' => Newcomer(h, a)'
  <2>1. SUFFICES ASSUME NEW a \in IndexAccounts, ~Contested(a)', Fresh(h, a)'
                 PROVE  Newcomer(h, a)'
    OBVIOUS
  <2>2. ~Has(s, a) /\ Has(p, a)
    BY <1>10, <1>11, <2>1
  <2>3. Fresh(h, a) /\ ~Contested(a)
    BY <1>1, <1>11, <2>1, <2>2 DEF Contested
  <2>4. Newcomer(h, a)
    BY <1>12, <2>3
  <2>5. ~Has(diskIndex', a) /\ a \notin removed'
    BY <1>1, <1>10, <2>2, <2>4 DEF Newcomer
  <2>6. \A o \in IndexHosts \ {h} : ~Holds(o, a)'
    BY <1>7, <2>4, SameHostIs DEF Newcomer
  <2>7. QED
    BY <1>1, <2>4, <2>5, <2>6 DEF Newcomer
<1>19. ASSUME NEW a \in IndexAccounts \ removed'
       PROVE  /\ Has(diskIndex, a) => Has(diskIndex', a)
              /\ Stays(h, a)'
  <2>1. Stays(h, a)
    BY <1>1, AccountIs
  <2>2. /\ Has(b, a) => Has(p, a) /\ Has(d, a) /\ Has(s, a)
        /\ Known(h, a) => Has(p, a)
        /\ Has(s, a) => Has(p, a)
    BY <1>1, <1>2, <1>3, <1>10, <2>1 DEF Stays
  <2>3. Has(d, a) => Has(m, a)
    BY <1>10, <2>2
  <2>4. Has(s, a) => Has(m, a)
    BY <1>10, <2>2
  <2>5. /\ BaseHas(h, a)' => SaveHas(h, a)' /\ Has(diskIndex', a)
        /\ Known(h, a)' => SaveHas(h, a)' /\ Has(p, a)
    BY <1>10, <2>2, <2>4
  <2>6. Stays(h, a)'
    BY <1>1, <1>2, <1>3, <1>6, <1>8, <2>2, <2>4, <2>5 DEF Stays
  <2>7. QED
    BY <1>10, <2>3, <2>6
<1>20. ASSUME NEW a \in FirstAccounts \ removed'
       PROVE  /\ \A o \in IndexHosts \ {h} : Own(diskIndex', o, a) = Own(diskIndex, o, a)
              /\ FieldKept(h, a)'
  <2>1. FieldKept(h, a) /\ a \in IndexAccounts /\ Has(d, a)
    BY <1>1, <1>4, AccountIs
  <2>2. /\ Has(p, a) /\ Has(b, a) /\ Has(s, a)
        /\ Own(b, h, a) = Own(d, h, a)
        /\ \A o \in IndexHosts \ {h} : Own(s, o, a) = Own(b, o, a)
    BY <1>1, <1>2, <1>3, <1>4, <2>1 DEF FieldKept
  <2>3. ASSUME NEW o \in IndexHosts
        PROVE  /\ Own(s, o, a) = Own(b, o, a) => Own(m, o, a) = Own(d, o, a)
               /\ Own(d, o, a) = Own(b, o, a) => Own(m, o, a) = Own(s, o, a)
    BY <1>5, <2>1, <2>2, MergeKeepsOwn
  <2>4. Has(m, a) /\ Own(m, h, a) = Own(s, h, a)
    BY <1>10, <2>1, <2>2, <2>3
  <2>5. FieldKept(h, a)'
    BY <1>1, <1>2, <1>6, <1>8, <2>1, <2>4 DEF FieldKept
  <2>6. QED
    BY <1>4, <1>6, <2>2, <2>3, <2>5
<1>21. ASSUME NEW a \in removed', ~Contested(a)', Has(diskIndex', a)
       PROVE  \/ a \in removed /\ Has(diskIndex, a) /\ (Removing(h, a) => Removing(h, a)')
              \/ Removing(h, a)'
  <2>1. a \in IndexAccounts /\ a \in removed /\ ~Contested(a) /\ Has(m, a)
    BY <1>1, <1>10, <1>13, <1>21 DEF Contested
  <2>2. Fresh(h, a) => ~Has(d, a) /\ ~Has(p, a)
    BY <1>10, <1>12, <2>1 DEF Newcomer
  <2>3. QED
    BY <1>10, <1>11, <2>1, <2>2
<1>22. \A a \in IndexAccounts \ removed' : Has(diskIndex, a) => Has(diskIndex', a)
  BY <1>19
<1>23. \A a \in IndexAccounts \ removed' : Stays(h, a)'
  BY <1>19
<1>24. \A a \in FirstAccounts \ removed' :
         \A o \in IndexHosts \ {h} : Own(diskIndex', o, a) = Own(diskIndex, o, a)
  BY <1>20
<1>25. \A a \in FirstAccounts \ removed' : FieldKept(h, a)'
  BY <1>20
<1>26. \A a \in removed' : ~Contested(a)' /\ Has(diskIndex', a) =>
         \/ a \in removed /\ Has(diskIndex, a) /\ (Removing(h, a) => Removing(h, a)')
         \/ Removing(h, a)'
  BY <1>21
<1>27. QED
  BY <1>7, <1>9, <1>13, <1>14, <1>15, <1>16, <1>17, <1>18, <1>22, <1>23, <1>24, <1>25, <1>26, OneHostSteps

(* A host edits what it has pending, or, having nothing to save, a copy of      *)
(* the file or of its cache, and writeIndex keeps that.                        *)
LEMMA EditInOrder ==
  ASSUME IndexTypes, AllInOrder, NEW h \in IndexHosts, NEW seen \in Indexes,
         NEW cache \in Indexes \cup {NoIndex}, EditIndex(h, seen, cache),
         IF Pending(h) THEN seen = pendSave[h].ix
         ELSE cache = seen /\ (seen = diskIndex \/ (Cached(h) /\ seen = cacheIndex[h]))
  PROVE  AllInOrder'
<1>1. PICK a \in IndexAccounts, kind \in {"set", "reset", "remove", "add", "switch"} :
        /\ h \notin disposed /\ edits < MaxEdits /\ Editable(seen, a, kind)
        /\ WriteIndex(h, Edited(h, seen, a, kind), cache) /\ edits' = edits + 1
        /\ touched' = IF kind = "reset" THEN [touched EXCEPT ![h][a] = 0]
                      ELSE IF kind \in {"set", "add"} THEN [touched EXCEPT ![h][a] = edits + 1]
                      ELSE touched
        /\ added' = IF kind = "add" THEN [added EXCEPT ![a] = @ \cup {h}] ELSE added
        /\ removed' = IF kind = "remove" THEN removed \cup {a} ELSE removed
        /\ UNCHANGED <<diskIndex, lateSave, savedAs, disposed, dropped, failures>>
  BY DEF EditIndex
<1>2. PICK e \in Nat : e = edits + 1 /\ edits \in 0..MaxEdits
  BY DEF IndexTypes
<1>3. PICK ix \in Indexes :
        /\ ix = Edited(h, seen, a, kind)
        /\ \A x \in IndexAccounts \ {a} : ix.acc[x] = seen.acc[x]
        /\ Has(ix, a) <=> kind # "remove"
        /\ kind \in {"set", "reset", "switch"} =>
             /\ Own(ix, h, a) = IF kind = "set" THEN e ELSE IF kind = "reset" THEN 0 ELSE Own(seen, h, a)
             /\ \A o \in IndexHosts \ {h} : Own(ix, o, a) = Own(seen, o, a)
  BY <1>1, <1>2, EditedIs
<1>4. PICK base \in Indexes :
        /\ base = IF Pending(h) THEN pendSave[h].base ELSE IF cache = NoIndex THEN EmptyIndex ELSE cache
        /\ pendSave'[h] \in Saves /\ pendSave'[h].ix = ix /\ pendSave'[h].base = base
  BY <1>1, <1>3, WriteIs
<1>5. /\ saveChain'[h] = Unlive(saveChain[h]) /\ cacheIndex'[h] = ix
      /\ \A o \in IndexHosts \ {h} :
           pendSave'[o] = pendSave[o] /\ saveChain'[o] = saveChain[o] /\ cacheIndex'[o] = cacheIndex[o]
  BY <1>1, <1>3, WriteIs
<1>6. /\ seen # NoIndex /\ (~Pending(h) => base = seen)
      /\ ~Late(h) /\ (Owes(h) <=> Pending(h)) /\ (~Pending(h) => ~InChain(h) /\ ~Settling(h))
      /\ Settling(h) => InChain(h)
      /\ Pending(h) => SaveOf(h) = pendSave[h]
      /\ HostInOrder(h)
  BY <1>1, <1>4, HostIs, AccountIs, NoneOfThem DEF SaveOf
<1>7. /\ \A x \in IndexAccounts \ {a} : added'[x] = added[x] /\ touched'[h][x] = touched[h][x]
      /\ \A o \in IndexHosts \ {h} : touched'[o] = touched[o]
      /\ added'[a] = IF kind = "add" THEN added[a] \cup {h} ELSE added[a]
      /\ touched'[h][a] = IF kind = "reset" THEN 0 ELSE IF kind \in {"set", "add"} THEN e ELSE touched[h][a]
  BY <1>1, <1>2 DEF IndexTypes
<1>8. \A o \in IndexHosts \ {h} : SameHost(o)
  BY <1>1, <1>5, <1>7 DEF SameHost
<1>9. /\ Pending(h)' /\ Owes(h)' /\ ~Late(h)' /\ SaveOf(h)' = pendSave'[h] /\ Cached(h)'
      /\ InChain(h)' <=> InChain(h)
      /\ Settling(h)' <=> Settling(h)
      /\ savedAs' = savedAs /\ diskIndex' = diskIndex
      /\ InChain(h) => /\ Snap(h)'.ix = Snap(h).ix /\ Snap(h)'.base = Snap(h).base
                       /\ ~Snap(h)'.live /\ Len(saveChain'[h]) = Len(saveChain[h])
  <2>1. saveChain[h] \in Seq(Snapshots)
    BY HostTypes
  <2>2. QED
    BY <1>1, <1>3, <1>4, <1>5, <1>6, <2>1, UnliveIs, NoneOfThem
       DEF Pending, Owes, Late, SaveOf, Cached, InChain, Settling, Snap
<1>10. HostInOrder(h)'
  BY <1>1, <1>4, <1>5, <1>6, <1>9 DEF HostInOrder
<1>11. \A x \in IndexAccounts :
         /\ BaseHas(h, x)' <=> IF Settling(h) THEN Has(savedAs[h], x) ELSE Has(base, x)
         /\ SaveHas(h, x)' <=> IF ~Settling(h) THEN Has(ix, x)
                               ELSE IF Has(Snap(h).ix, x) THEN Has(ix, x) /\ Has(savedAs[h], x)
                               ELSE Has(ix, x) \/ Has(savedAs[h], x)
         /\ Has(diskIndex', x) <=> Has(diskIndex, x)
         /\ x # a => (Has(ix, x) <=> Has(seen, x)) /\ (Known(h, x)' <=> Known(h, x))
  <2>1. \A x \in IndexAccounts :
          BaseHas(h, x)' <=> IF Settling(h) THEN Has(savedAs[h], x) ELSE Has(base, x)
    BY <1>4, <1>9 DEF BaseHas
  <2>2. \A x \in IndexAccounts :
          SaveHas(h, x)' <=> IF ~Settling(h) THEN Has(ix, x)
                             ELSE IF Has(Snap(h).ix, x) THEN Has(ix, x) /\ Has(savedAs[h], x)
                             ELSE Has(ix, x) \/ Has(savedAs[h], x)
    BY <1>4, <1>6, <1>9 DEF SaveHas
  <2>3. \A x \in IndexAccounts : Has(diskIndex', x) <=> Has(diskIndex, x)
    BY <1>9
  <2>4. \A x \in IndexAccounts : x # a => (Has(ix, x) <=> Has(seen, x)) /\ (Known(h, x)' <=> Known(h, x))
    BY <1>3, <1>7 DEF Has, Known
  <2>5. QED
    BY <2>1, <2>2, <2>3, <2>4
<1>12. \A x \in IndexAccounts : Pending(h) =>
         /\ BaseHas(h, x) <=> IF Settling(h) THEN Has(savedAs[h], x) ELSE Has(base, x)
         /\ SaveHas(h, x) <=> IF ~Settling(h) THEN Has(seen, x)
                               ELSE IF Has(Snap(h).ix, x) THEN Has(seen, x) /\ Has(savedAs[h], x)
                               ELSE Has(seen, x) \/ Has(savedAs[h], x)
  BY <1>4, <1>6 DEF BaseHas, SaveHas
<1>13. Has(seen, a) <=> kind # "add"
  BY <1>1 DEF Editable, Has
<1>14. kind = "add" => a \notin removed
  BY <1>1 DEF Editable
<1>15. \A x \in IndexAccounts \ removed : Has(seen, x) \/ ~Known(h, x)
  <2>1. SUFFICES ASSUME NEW x \in IndexAccounts \ removed, Known(h, x)
                 PROVE  Has(seen, x)
    OBVIOUS
  <2>2. Stays(h, x)
    BY AccountIs
  <2>3. CASE Pending(h)
    BY <1>6, <2>1, <2>2, <2>3 DEF Stays
  <2>4. CASE ~Pending(h)
    BY <1>1, <1>6, <2>1, <2>2, <2>4 DEF Stays
  <2>5. QED
    BY <2>3, <2>4
<1>16. \A x \in IndexAccounts \ removed : ~Pending(h) /\ Has(seen, x) => Has(diskIndex, x)
  <2>1. SUFFICES ASSUME NEW x \in IndexAccounts \ removed, ~Pending(h), Has(seen, x)
                 PROVE  Has(diskIndex, x)
    OBVIOUS
  <2>2. Stays(h, x)
    BY AccountIs
  <2>3. QED
    BY <1>1, <2>1, <2>2 DEF Stays
<1>17. \A x \in IndexAccounts :
         /\ Fresh(h, x) <=> /\ Pending(h)
                            /\ \/ ~BaseHas(h, x) /\ SaveHas(h, x)
                               \/ InChain(h) /\ ~Settling(h) /\ ~Has(Snap(h).base, x) /\ Has(Snap(h).ix, x)
                               \/ InChain(h) /\ ~Has(Snap(h).ix, x) /\ Has(seen, x)
         /\ Fresh(h, x)' <=>
              \/ ~BaseHas(h, x)' /\ SaveHas(h, x)'
              \/ InChain(h) /\ ~Settling(h) /\ ~Has(Snap(h).base, x) /\ Has(Snap(h).ix, x)
              \/ InChain(h) /\ ~Has(Snap(h).ix, x) /\ Has(ix, x)
         /\ Removing(h, x) <=> Pending(h) /\ BaseHas(h, x) /\ ~SaveHas(h, x)
         /\ Removing(h, x)' <=> BaseHas(h, x)' /\ ~SaveHas(h, x)'
  BY <1>4, <1>6, <1>9 DEF Fresh, Removing
<1>18. \A x \in IndexAccounts : ~Contested(x)' /\ Fresh(h, x) => Newcomer(h, x)
  <2>1. \A x \in IndexAccounts : Contested(x) => Contested(x)'
    BY <1>7 DEF Contested
  <2>2. QED
    BY <2>1 DEF AllInOrder, AddedOnce
<1>19. removed \subseteq removed' /\ removed' \subseteq IndexAccounts
  BY <1>1 DEF IndexTypes
<1>20. \A x \in IndexAccounts : added[x] \subseteq added'[x] /\ added'[x] \subseteq IndexHosts
  BY <1>7 DEF IndexTypes
<1>21. \A x \in IndexAccounts : Has(diskIndex', x) => Has(diskIndex, x) \/ Holds(h, x)
  BY <1>11
<1>22. \A x \in IndexAccounts : Has(seen, x) => Holds(h, x) \/ Has(diskIndex, x)
  BY <1>6 DEF Holds
<1>23. \A x \in IndexAccounts : Holds(h, x)' => Holds(h, x) \/ Has(diskIndex, x) \/ h \in added'[x]
  <2>1. SUFFICES ASSUME NEW x \in IndexAccounts, Holds(h, x)'
                 PROVE  Holds(h, x) \/ Has(diskIndex, x) \/ h \in added'[x]
    OBVIOUS
  <2>2. \/ Has(ix, x) \/ Has(base, x) \/ (InChain(h) /\ Has(Snap(h).ix, x))
        \/ (Settling(h) /\ Has(savedAs[h], x))
    BY <1>4, <1>5, <1>9, <2>1 DEF Holds
  <2>3. Has(ix, x) => Has(seen, x) \/ h \in added'[x]
    BY <1>7, <1>11, <1>13
  <2>4. Has(base, x) => Holds(h, x) \/ Has(seen, x)
    BY <1>4, <1>6 DEF Holds
  <2>5. QED
    BY <1>22, <2>2, <2>3, <2>4 DEF Holds
<1>24. \A x \in IndexAccounts : x \in removed' => x \in removed \/ Has(diskIndex, x) \/ Holds(h, x)
  BY <1>1, <1>13, <1>22
<1>25. kind # "add" \/ Contested(a)' \/
         /\ a \notin FirstAccounts /\ ~Known(h, a) /\ ~Has(diskIndex, a)
         /\ \A o \in IndexHosts : ~Holds(o, a)
  <2>1. SUFFICES ASSUME kind = "add", ~Contested(a)'
                 PROVE  /\ a \notin FirstAccounts /\ ~Known(h, a) /\ ~Has(diskIndex, a)
                        /\ \A o \in IndexHosts : ~Holds(o, a)
    OBVIOUS
  <2>2. ~Known(h, a)
    BY <1>13, <1>14, <1>15, <2>1
  <2>3. added[a] = {}
    BY <1>7, <2>1, <2>2 DEF Contested, Known
  <2>4. QED
    BY <2>2, <2>3 DEF AllInOrder, AddedOnce, Known
<1>26. \A x \in IndexAccounts : ~Contested(x)' /\ Fresh(h, x)' => Newcomer(h, x)'
  <2>1. SUFFICES ASSUME NEW x \in IndexAccounts, ~Contested(x)', Fresh(h, x)'
                 PROVE  Newcomer(h, x)'
    OBVIOUS
  <2>2. CASE x = a /\ kind = "add"
    <3>1. \A o \in IndexHosts \ {h} : ~Holds(o, a)'
      BY <1>8, <1>25, <2>1, <2>2, SameHostIs
    <3>2. h \in added'[a] /\ a \notin removed'
      BY <1>1, <1>7, <1>14, <2>2
    <3>3. QED
      BY <1>11, <1>25, <2>1, <2>2, <3>1, <3>2 DEF Newcomer
  <2>3. CASE ~(x = a /\ kind = "add")
    <3>1. Has(ix, x) => Has(seen, x)
      BY <1>11, <1>13, <2>3
    <3>2. Pending(h)
      <4>1. SUFFICES ASSUME ~Pending(h)
                     PROVE  FALSE
        OBVIOUS
      <4>2. ~InChain(h) /\ ~Settling(h) /\ base = seen
        BY <1>6, <4>1
      <4>3. QED
        BY <1>11, <1>17, <2>1, <3>1, <4>2
    <3>3. SaveHas(h, x)' => SaveHas(h, x)
      BY <1>11, <1>12, <3>1, <3>2
    <3>4. Fresh(h, x)
      BY <1>11, <1>12, <1>17, <2>1, <3>1, <3>2, <3>3
    <3>5. (~Has(diskIndex, x) => ~Has(diskIndex', x)) /\ (~SaveHas(h, x) => ~SaveHas(h, x)')
      BY <1>11, <3>3
    <3>6. Newcomer(h, x) /\ ~Contested(x)
      BY <1>18, <1>20, <2>1, <3>4 DEF Contested
    <3>7. \A o \in IndexHosts \ {h} : ~Holds(o, x)'
      BY <1>8, <3>6, SameHostIs DEF Newcomer
    <3>8. x \in removed' => ~SaveHas(h, x)'
      <4>1. CASE x \in removed
        BY <3>5, <3>6, <4>1 DEF Newcomer
      <4>2. CASE x \notin removed /\ x \in removed'
        <5>1. x = a /\ ~Has(ix, a)
          BY <1>1, <1>3, <4>2
        <5>2. Settling(h) => ~Has(savedAs[h], a)
          <6>1. SUFFICES ASSUME Settling(h), Has(savedAs[h], a)
                         PROVE  FALSE
            OBVIOUS
          <6>2. BaseHas(h, a) /\ ~Has(diskIndex, a) /\ Stays(h, a)
            BY <1>12, <3>2, <3>6, <4>2, <5>1, <6>1, AccountIs DEF Newcomer
          <6>3. QED
            BY <1>6, <3>2, <6>2 DEF Stays
        <5>3. QED
          BY <1>11, <5>1, <5>2
      <4>3. QED
        BY <4>1, <4>2
    <3>9. QED
      BY <1>20, <3>5, <3>6, <3>7, <3>8 DEF Newcomer
  <2>4. QED
    BY <2>2, <2>3
<1>27. \A x \in IndexAccounts \ removed' : Has(diskIndex, x) => Has(diskIndex', x)
  BY <1>11
<1>28. \A x \in IndexAccounts \ removed' : Stays(h, x)'
  <2>1. SUFFICES ASSUME NEW x \in IndexAccounts \ removed'
                 PROVE  Stays(h, x)'
    OBVIOUS
  <2>2. x \notin removed /\ Stays(h, x)
    BY <1>19, <2>1, AccountIs
  <2>3. (Has(seen, x) => Has(ix, x)) /\ (Known(h, x)' => Has(ix, x))
    BY <1>1, <1>3, <1>11, <1>15, <2>1, <2>2
  <2>4. /\ InChain(h) => /\ Has(Snap(h).base, x) => Has(Snap(h).ix, x)
                         /\ Has(Snap(h).ix, x) => Has(ix, x)
        /\ Settling(h) => (Has(Snap(h).ix, x) => Has(savedAs[h], x))
    <3>1. InChain(h) => Pending(h)
      BY <1>6
    <3>2. QED
      BY <2>2, <2>3, <3>1 DEF Stays
  <2>5. BaseHas(h, x)' => SaveHas(h, x)' /\ Has(diskIndex', x)
    <3>1. CASE Pending(h)
      <4>1. BaseHas(h, x)' => SaveHas(h, x) /\ Has(diskIndex, x)
        BY <1>6, <1>11, <1>12, <2>2, <3>1 DEF Stays
      <4>2. SaveHas(h, x) => SaveHas(h, x)'
        BY <1>11, <1>12, <2>3, <3>1
      <4>3. QED
        BY <1>11, <4>1, <4>2
    <3>2. CASE ~Pending(h)
      BY <1>6, <1>11, <1>16, <2>2, <2>3, <3>2
    <3>3. QED
      BY <3>1, <3>2
  <2>6. Known(h, x)' => SaveHas(h, x)' /\ Has(ix, x)
    BY <1>6, <1>11, <2>3, <2>4
  <2>7. QED
    <3>1. InChain(h)' => /\ Has(Snap(h)'.base, x) => Has(Snap(h)'.ix, x)
                         /\ Has(Snap(h)'.ix, x) => Has(pendSave'[h].ix, x)
      BY <1>4, <1>9, <2>4
    <3>2. Settling(h)' => (Has(Snap(h)'.ix, x) => Has(savedAs'[h], x))
      BY <1>6, <1>9, <2>4
    <3>3. Owes(h)' => /\ BaseHas(h, x)' => SaveHas(h, x)' /\ Has(diskIndex', x)
                      /\ Known(h, x)' => SaveHas(h, x)' /\ Has(SaveOf(h)'.ix, x)
      BY <1>4, <1>9, <2>5, <2>6
    <3>4. QED
      BY <1>9, <3>1, <3>2, <3>3 DEF Stays
<1>29. \A x \in FirstAccounts \ removed' :
         \A o \in IndexHosts \ {h} : Own(diskIndex', o, x) = Own(diskIndex, o, x)
  BY <1>9
<1>30. \A x \in FirstAccounts \ removed' : FieldKept(h, x)'
  <2>1. SUFFICES ASSUME NEW x \in FirstAccounts \ removed'
                 PROVE  FieldKept(h, x)'
    OBVIOUS
  <2>2. FieldKept(h, x) /\ x \notin removed /\ x \in IndexAccounts /\ Has(diskIndex, x) /\ Known(h, x)
    BY <1>19, <2>1, AccountIs DEF Known
  <2>3. Has(seen, x) /\ Own(seen, h, x) = touched[h][x]
    <3>1. Has(seen, x)
      BY <1>15, <2>2
    <3>2. CASE Pending(h)
      BY <1>6, <2>2, <3>1, <3>2 DEF FieldKept
    <3>3. CASE ~Pending(h)
      BY <1>1, <1>6, <2>2, <3>1, <3>3 DEF FieldKept
    <3>4. QED
      BY <3>2, <3>3
  <2>4. /\ Has(ix, x) /\ Own(ix, h, x) = touched'[h][x]
        /\ \A o \in IndexHosts \ {h} : Own(ix, o, x) = Own(seen, o, x)
    <3>1. CASE x = a
      <4>1. kind \in {"set", "reset", "switch"}
        BY <1>1, <1>13, <2>1, <2>3, <3>1
      <4>2. QED
        BY <1>3, <1>7, <2>3, <3>1, <4>1
    <3>2. CASE x # a
      BY <1>3, <1>7, <2>2, <2>3, <3>2 DEF Own, Has
    <3>3. QED
      BY <3>1, <3>2
  <2>5. /\ Has(base, x)
        /\ \A o \in IndexHosts \ {h} : Own(seen, o, x) = Own(base, o, x)
        /\ ~Settling(h) => Own(base, h, x) = Own(diskIndex, h, x)
    <3>1. CASE Pending(h)
      BY <1>4, <1>6, <2>2, <3>1 DEF FieldKept
    <3>2. CASE ~Pending(h)
      BY <1>6, <2>2, <2>3, <3>2 DEF FieldKept
    <3>3. QED
      BY <3>1, <3>2
  <2>6. QED
    <3>1. Owes(h)' => /\ Has(SaveOf(h)'.ix, x) /\ Has(SaveOf(h)'.base, x)
                      /\ Own(SaveOf(h)'.ix, h, x) = touched'[h][x]
                      /\ \A o \in IndexHosts \ {h} : Own(SaveOf(h)'.ix, o, x) = Own(SaveOf(h)'.base, o, x)
                      /\ ~Settling(h)' => Own(SaveOf(h)'.base, h, x) = Own(diskIndex', h, x)
      BY <1>4, <1>9, <2>4, <2>5
    <3>2. InChain(h)' =>
            /\ Has(Snap(h)'.ix, x)
            /\ \A o \in IndexHosts \ {h} : Own(Snap(h)'.ix, o, x) = Own(Snap(h)'.base, o, x)
      BY <1>9, <2>2 DEF FieldKept
    <3>3. Settling(h)' =>
            /\ Has(savedAs'[h], x) /\ Own(savedAs'[h], h, x) = Own(Snap(h)'.ix, h, x)
            /\ Own(savedAs'[h], h, x) = Own(diskIndex', h, x)
      BY <1>6, <1>9, <2>2 DEF FieldKept
    <3>4. Has(cacheIndex'[h], x) /\ Own(cacheIndex'[h], h, x) = touched'[h][x]
      BY <1>5, <2>4
    <3>5. QED
      BY <1>9, <3>1, <3>2, <3>3, <3>4 DEF FieldKept
<1>31. \A x \in removed' : ~Contested(x)' /\ Has(diskIndex', x) =>
         \/ x \in removed /\ Has(diskIndex, x) /\ (Removing(h, x) => Removing(h, x)')
         \/ Removing(h, x)'
  <2>1. SUFFICES ASSUME NEW x \in removed', ~Contested(x)', Has(diskIndex', x)
                 PROVE  \/ x \in removed /\ Has(diskIndex, x) /\ (Removing(h, x) => Removing(h, x)')
                        \/ Removing(h, x)'
    OBVIOUS
  <2>2. x \in IndexAccounts /\ Has(diskIndex, x) /\ ~(Pending(h) /\ Fresh(h, x))
    BY <1>11, <1>18, <1>19, <2>1 DEF Newcomer
  <2>3. CASE x \in removed
    <3>1. ~(x = a /\ kind = "add")
      BY <1>14, <2>3
    <3>2. Has(ix, x) => Has(seen, x)
      BY <1>11, <1>13, <2>2, <3>1
    <3>3. Removing(h, x) => Removing(h, x)'
      BY <1>11, <1>12, <1>17, <2>2, <3>2
    <3>4. QED
      BY <2>2, <2>3, <3>3
  <2>4. CASE x \notin removed
    <3>1. x = a /\ kind = "remove" /\ Has(seen, a) /\ ~Has(ix, a) /\ Stays(h, a)
      BY <1>1, <1>3, <1>13, <2>1, <2>4, AccountIs
    <3>2. CASE ~Pending(h)
      BY <1>6, <1>11, <1>17, <2>2, <3>1, <3>2
    <3>3. CASE Pending(h)
      <4>1. Settling(h) => Has(Snap(h).ix, a) /\ Has(savedAs[h], a)
        <5>1. Settling(h) => InChain(h)
          BY HostIs
        <5>2. QED
          BY <1>17, <2>2, <3>1, <3>3, <5>1 DEF Stays
      <4>2. ~Settling(h) => Has(base, a)
        BY <1>12, <1>17, <2>2, <3>1, <3>3
      <4>3. QED
        BY <1>11, <1>17, <2>2, <3>1, <4>1, <4>2
    <3>4. QED
      BY <3>2, <3>3
  <2>5. QED
    BY <2>3, <2>4
<1>32. QED
  BY <1>8, <1>10, <1>19, <1>20, <1>21, <1>23, <1>24, <1>26, <1>27, <1>28, <1>29, <1>30, <1>31, OneHostSteps

(* The whole invariant.                                                      *)
LEMMA IndexInitInOrder == IndexInit => AllInOrder
<1> SUFFICES ASSUME IndexInit
             PROVE  AllInOrder
  OBVIOUS
<1>1. IndexTypes
  BY IndexInitTypes
<1>2. \A h \in IndexHosts :
        ~Pending(h) /\ ~Late(h) /\ ~Owes(h) /\ ~InChain(h) /\ ~Settling(h) /\ ~Cached(h) /\ h \notin disposed
  BY DEF IndexInit, Pending, Late, Owes, InChain, Settling, Cached
<1>3. \A a \in IndexAccounts : Has(diskIndex, a) <=> a \in FirstAccounts
  <2>1. PICK r : r = [field |-> [h \in IndexHosts |-> 0], at |-> 0]
    OBVIOUS
  <2>2. r \in AccountRecords
    BY <2>1, AccountsIndexAssumption DEF AccountRecords
  <2>3. diskIndex.acc = [a \in IndexAccounts |-> IF a \in FirstAccounts THEN r ELSE Absent]
    BY <2>1 DEF IndexInit
  <2>4. QED
    BY <2>2, <2>3, RecordIs DEF Has
<1>4. \A a \in FirstAccounts, h \in IndexHosts : Own(diskIndex, h, a) = 0
  BY AccountsIndexAssumption DEF IndexInit, Own
<1>5. /\ removed = {} /\ \A a \in IndexAccounts : added[a] = {}
      /\ \A h \in IndexHosts, a \in IndexAccounts : touched[h][a] = 0
  BY DEF IndexInit
<1>6. \A h \in IndexHosts : HostInOrder(h)
  BY <1>2 DEF HostInOrder
<1>7. \A h \in IndexHosts : \A a \in IndexAccounts : Stays(h, a) /\ ~Holds(h, a) /\ ~Fresh(h, a)
  BY <1>2, <1>3, <1>5 DEF Stays, Holds, Fresh, Known
<1>8. \A a \in IndexAccounts : AddedOnce(a)
  BY <1>3, <1>7 DEF AddedOnce
<1>9. \A a \in FirstAccounts, h \in IndexHosts : FieldKept(h, a)
  BY <1>2, <1>4, <1>5, AccountsIndexAssumption DEF FieldKept
<1>10. QED
  BY <1>3, <1>5, <1>6, <1>7, <1>8, <1>9, AccountsIndexAssumption DEF AllInOrder

LEMMA IndexStepInOrder ==
  ASSUME IndexTypes, AllInOrder, [IndexNext]_indexVars, ~overtaken'
  PROVE  AllInOrder'
<1>1. CASE IndexNext
  <2>1. PICK h \in IndexHosts :
          \/ QuickEdit(h) \/ SlowRead(h) \/ SlowWrite(h) \/ InvalidateCache(h)
          \/ FlushPending(h) \/ Persist(h) \/ SettleSave(h) \/ RetrySave(h)
          \/ PersistFails(h) \/ RetryFails(h) \/ Dispose(h)
    BY <1>1 DEF IndexNext, IndexSaves
  <2>2. CASE QuickEdit(h)
    <3>1. PICK seen \in Readable(h) : EditIndex(h, seen, seen)
      BY <2>2 DEF QuickEdit
    <3>2. seen \in Indexes
      BY <3>1, ReadableIs
    <3>3. IF Pending(h) THEN seen = pendSave[h].ix
          ELSE seen = diskIndex \/ (Cached(h) /\ seen = cacheIndex[h])
      BY <3>1, ReadableIs DEF Pending, Cached
    <3>4. QED
      BY <3>1, <3>2, <3>3, EditInOrder
  <2>3. CASE SlowWrite(h)
    <3>1. slowEdit[h] \in Indexes /\ cacheIndex[h] \in Indexes \cup {NoIndex}
      BY <2>3, HostTypes DEF SlowWrite
    <3>2. slowEdit[h] = IF Pending(h) THEN pendSave[h].ix ELSE cacheIndex[h]
      BY <2>3 DEF SlowWrite, Pending
    <3>3. PICK seen \in Indexes, cache \in Indexes \cup {NoIndex} : seen = slowEdit[h] /\ cache = cacheIndex[h]
      BY <3>1
    <3>4. EditIndex(h, seen, cache)
      BY <2>3, <3>3 DEF SlowWrite
    <3>5. IF Pending(h) THEN seen = pendSave[h].ix
          ELSE cache = seen /\ (seen = diskIndex \/ (Cached(h) /\ seen = cacheIndex[h]))
      BY <3>2, <3>3, NoneOfThem DEF Cached
    <3>6. QED
      BY <3>4, <3>5, EditInOrder
  <2>4. QED
    BY <2>1, <2>2, <2>3, CacheStepInOrder, ChainStepInOrder, PersistInOrder, SettleInOrder,
       LastStepsInOrder
<1>2. CASE UNCHANGED indexVars
  BY <1>2, UnchangedInOrder DEF indexVars
<1>3. QED
  BY <1>1, <1>2

LEMMA OvertakenStays == [IndexNext]_indexVars /\ overtaken => overtaken'
BY DEF IndexNext, IndexSaves, indexVars, QuickEdit, SlowRead, SlowWrite, InvalidateCache, FlushPending,
       Persist, SettleSave, RetrySave, PersistFails, RetryFails, Dispose

(* IndexInv is inductive: what a host has to save and what it has read are in    *)
(* order as long as nothing has been overtaken.                               *)
THEOREM IndexInvHolds == IndexSpec => []IndexInv
<1>1. IndexInit => IndexInv
  BY IndexInitTypes, IndexInitInOrder DEF IndexInv
<1>2. IndexInv /\ [IndexNext]_indexVars => IndexInv'
  BY IndexKeepsTypes, IndexStepInOrder, OvertakenStays DEF IndexInv
<1>3. QED
  BY <1>1, <1>2, PTL DEF IndexSpec

(* Once nothing is left to be saved the file has the last edit of each host to   *)
(* each account nobody has removed, unless the last save of that host failed,   *)
(* and no removed account but one that two hosts have added or whose removal     *)
(* failed so: for any number of hosts, accounts, edits and failed saves.         *)
THEOREM NoEditIsLost == IndexSpec => []NoEditLost
<1>1. IndexInv => NoEditLost
  <2>1. SUFFICES ASSUME IndexTypes, AllInOrder, AllSaved, NEW h \in IndexHosts, NEW a \in IndexAccounts
                 PROVE  IF a \in removed
                          THEN dropped # {} \/ diskIndex.acc[a] = Absent \/ \E o, p \in added[a] : o # p
                          ELSE h \notin dropped /\ (touched[h][a] > 0 \/ a \in FirstAccounts) => InFile(h, a)
    BY DEF IndexInv, NoEditLost
  <2>2. \A o \in IndexHosts : o \in dropped \/ ~Owes(o)
    BY <2>1 DEF AllSaved, Owes, Pending, Late
  <2>3. CASE a \in removed
    <3>1. RemovalComes(a)
      BY <2>1, <2>3 DEF AllInOrder
    <3>2. dropped # {} \/ Contested(a) \/ ~Has(diskIndex, a)
      BY <2>2, <3>1 DEF RemovalComes, Removing
    <3>3. QED
      BY <2>3, <3>2 DEF Contested, Has
  <2>4. CASE a \notin removed /\ h \notin dropped /\ (touched[h][a] > 0 \/ a \in FirstAccounts)
    <3>1. Stays(h, a) /\ Known(h, a)
      BY <2>1, <2>4 DEF AllInOrder, Known
    <3>2. Has(diskIndex, a)
      BY <2>2, <2>4, <3>1 DEF Stays
    <3>3. a \in FirstAccounts => Own(diskIndex, h, a) = touched[h][a]
      BY <2>1, <2>2, <2>4 DEF AllInOrder, FieldKept
    <3>4. QED
      BY <2>4, <3>2, <3>3 DEF InFile, Has, Own
  <2>5. QED
    BY <2>3, <2>4
<1>2. QED
  BY <1>1, IndexInvHolds, PTL

(* The index is one at every step, and timers run only for pending saves.       *)
THEOREM IndexTypeCorrect == IndexSpec => []IndexTypeOK
<1>1. IndexInv => IndexTypeOK
  BY DEF IndexInv, IndexTypes, IndexTypeOK
<1>2. QED
  BY <1>1, IndexInvHolds, PTL

=============================================================================
