------------------------ MODULE UsageLimitBatch_proofs ------------------------
(***************************************************************************)
(* Theorems about UsageLimitBatch, for any number of threads, switches and   *)
(* restarts of work.                                                       *)
(***************************************************************************)
EXTENDS UsageLimitBatch, TLAPS

BatchRecords == [batch: Batches \cup {NoBatch}, suppressed: BOOLEAN]

(* The types the invariant needs.                                           *)
BatchTypes ==
  /\ doing \in [LimitThreads -> {"idle", "sent", "asked", "active"}]
  /\ batch \in Batches \cup {NoBatch} /\ suppressed \in BOOLEAN
  /\ batchAge \in 0..2 /\ hidden \subseteq LimitThreads /\ stopped \subseteq LimitThreads
  /\ atStart \subseteq LimitThreads /\ unseen \in BOOLEAN
  /\ ended \in [LimitThreads -> {"limit", "other", "not"}]

(* A batch holds no hidden thread, and every thread that counted at first.    *)
BatchThreads ==
  /\ batch = NoBatch => batchAge = 0
  /\ batch # NoBatch =>
       /\ observing /\ atStart \subseteq batch.threads /\ batch.threads \cap hidden = {}
       /\ batch.limited \cup batch.terminal \subseteq batch.threads

(* The Continue that is awaited is unanswered until it is granted; others that   *)
(* are unanswered have been given up.  What a switch has still to continue is    *)
(* not at work, once it has begun.                                           *)
SwitchBegun == switchPhase \in {"login", "continuing"}
SwitchOrder ==
  /\ awaited # NoThread => switchPhase = "continuing" /\ awaited \notin recoverIds
  /\ \A t \in LimitThreads :
       /\ doing[t] = "asked" => (t = awaited /\ ~granted) \/ t \in late
       /\ t = awaited /\ ~granted /\ t \notin late => doing[t] = "asked"
       /\ SwitchBegun /\ t \in recoverIds \ late => doing[t] \notin {"sent", "active"}

(* Until the batch is ready some thread of it still counts and all that count   *)
(* are in it, unless a switch has begun to continue others; it has none that     *)
(* this switch has still to continue; and what is terminal has ended by the      *)
(* limit, for good.                                                          *)
Gathering == batch # NoBatch /\ ~batch.ready /\ ~unseen
AllInBatch ==
  /\ CountedActive(doing) \subseteq batch.threads /\ CountedActive(doing) # {}
  /\ \A t \in LimitThreads : doing[t] # "asked"
LimitedStop == \A t \in batch.limited \ late : doing[t] \notin {"sent", "asked"} /\ t \in stopped
TerminalEnd == \A t \in batch.terminal \ late : doing[t] = "idle" /\ ended[t] = "limit"
BatchGathers ==
  Gathering =>
    /\ switchPhase # "continuing" => AllInBatch
    /\ SwitchBegun => batch.threads \cap recoverIds \subseteq late
    /\ LimitedStop /\ TerminalEnd

LimitInv == BatchTypes /\ SwitchOrder /\ BatchThreads /\ BatchGathers /\ ReadyMeansExhausted

-----------------------------------------------------------------------------
(* A record of the batch, changed in one of its fields.                     *)
LEMMA BatchFields ==
  ASSUME NEW b \in BatchRecords
  PROVE  /\ b.batch # NoBatch => b.batch \in Batches
         /\ \A new \in Batches : [b EXCEPT !.batch = new] \in BatchRecords
                                 /\ [b EXCEPT !.batch = new].batch = new
BY DEF BatchRecords

(* The parts of a batch, and the changes made to them.                       *)
LEMMA BatchParts ==
  ASSUME NEW a \in Batches
  PROVE  /\ a.threads \subseteq LimitThreads /\ a.limited \subseteq LimitThreads
         /\ a.terminal \subseteq LimitThreads /\ a.ready \in BOOLEAN
         /\ a # NoBatch
         /\ [a EXCEPT !.ready = TRUE] \in Batches
BY UsageLimitAssumption DEF Batches

(* Finalizing leaves the threads alone.  The batch is ready afterwards if it   *)
(* was, if its deadline has passed, or if all its threads are terminal and     *)
(* nobody counts; when it is not, somebody counts.                          *)
SameThreads(f, a) == f.threads = a.threads /\ f.limited = a.limited /\ f.terminal = a.terminal
ReadyOnlyWhen(f, a, counted) ==
  /\ a.ready => f.ready
  /\ f.ready => a.ready \/ batchAge > 0 \/ (counted = {} /\ f.terminal = f.threads)
  /\ ~f.ready => counted # {}

LEMMA FinalizedIs ==
  ASSUME NEW b \in BatchRecords, b.batch # NoBatch, NEW counted
  PROVE  /\ Finalized(b, counted) \in BatchRecords
         /\ \/ Finalized(b, counted).batch = NoBatch
            \/ /\ Finalized(b, counted).batch \in Batches
               /\ SameThreads(Finalized(b, counted).batch, b.batch)
               /\ ReadyOnlyWhen(Finalized(b, counted).batch, b.batch, counted)
<1>1. PICK a \in Batches : a = b.batch
  BY BatchFields
<1>2. PICK new \in Batches : new = [a EXCEPT !.ready = TRUE]
  BY BatchParts
<1>3. SameThreads(new, a) /\ new.ready
  BY <1>2 DEF SameThreads, Batches
<1>4. [b EXCEPT !.batch.ready = TRUE] = [b EXCEPT !.batch = new]
  BY <1>1, <1>2 DEF BatchRecords
<1>5. [b EXCEPT !.batch = new] \in BatchRecords /\ [b EXCEPT !.batch = new].batch = new
  BY BatchFields
<1>6. Suppressed \in BatchRecords /\ Suppressed.batch = NoBatch
  BY DEF Suppressed, BatchRecords
<1>7. CASE a.ready
  <2>1. Finalized(b, counted) = b
    BY <1>1, <1>7 DEF Finalized
  <2>2. QED
    BY <1>1, <1>7, <2>1 DEF SameThreads, ReadyOnlyWhen
<1>8. CASE ~a.ready /\ batchAge > 0
  <2>1. Finalized(b, counted) = [b EXCEPT !.batch = new]
    BY <1>1, <1>4, <1>8 DEF Finalized
  <2>2. QED
    BY <1>1, <1>3, <1>5, <1>8, <2>1 DEF ReadyOnlyWhen
<1>9. CASE ~a.ready /\ ~(batchAge > 0) /\ counted # {}
  <2>1. Finalized(b, counted) = b
    BY <1>1, <1>9 DEF Finalized
  <2>2. QED
    BY <1>1, <1>9, <2>1 DEF SameThreads, ReadyOnlyWhen
<1>10. CASE ~a.ready /\ ~(batchAge > 0) /\ counted = {} /\ a.terminal = a.threads /\ a.limited = a.threads
  <2>1. Finalized(b, counted) = [b EXCEPT !.batch = new]
    BY <1>1, <1>4, <1>10 DEF Finalized
  <2>2. ReadyOnlyWhen(new, a, counted)
    BY <1>3, <1>10 DEF ReadyOnlyWhen, SameThreads
  <2>3. QED
    BY <1>1, <1>3, <1>5, <2>1, <2>2
<1>11. CASE /\ ~a.ready /\ ~(batchAge > 0) /\ counted = {}
            /\ ~(a.terminal = a.threads /\ a.limited = a.threads)
  <2>1. Finalized(b, counted) = Suppressed
    BY <1>1, <1>11 DEF Finalized
  <2>2. QED
    BY <1>6, <2>1
<1>12. QED
  BY <1>1, <1>7, <1>8, <1>9, <1>10, <1>11

(* A limit that is observed is one of a thread of the batch, which may be new. *)
Observing(b, t, counted) == IF b.batch = NoBatch THEN NewBatch(t, counted) ELSE b.batch
LEMMA LimitObservedIs ==
  ASSUME NEW b \in BatchRecords, NEW t \in LimitThreads, NEW terminal \in BOOLEAN,
         NEW counted \in SUBSET LimitThreads
  PROVE  /\ LimitObserved(b, t, terminal, counted) \in BatchRecords
         /\ \/ LimitObserved(b, t, terminal, counted).batch = NoBatch
            \/ \E at, f \in Batches :
                 /\ LimitObserved(b, t, terminal, counted).batch = f
                 /\ at = Observing(b, t, counted) /\ t \in at.threads
                 /\ f.threads = at.threads /\ f.limited = at.limited \cup {t}
                 /\ f.terminal = at.terminal \cup (IF terminal THEN {t} ELSE {})
                 /\ ReadyOnlyWhen(f, at, counted)
<1>1. NewBatch(t, counted) \in Batches
  BY DEF NewBatch, Batches
<1>2. PICK at \in Batches : at = Observing(b, t, counted)
  BY <1>1, BatchFields DEF Observing
<1>3. PICK new \in Batches :
        /\ new = [at EXCEPT !.limited = @ \cup {t}, !.terminal = @ \cup (IF terminal THEN {t} ELSE {})]
        /\ new.threads = at.threads /\ new.limited = at.limited \cup {t} /\ new.ready = at.ready
        /\ new.terminal = at.terminal \cup (IF terminal THEN {t} ELSE {})
  <2>1. PICK l \in SUBSET LimitThreads : l = at.limited \cup {t}
    BY BatchParts
  <2>2. PICK m \in SUBSET LimitThreads : m = at.terminal \cup (IF terminal THEN {t} ELSE {})
    BY BatchParts
  <2>3. PICK new : new = [at EXCEPT !.limited = l, !.terminal = m]
    OBVIOUS
  <2>4. /\ new \in Batches /\ new.threads = at.threads /\ new.limited = l
        /\ new.terminal = m /\ new.ready = at.ready
    BY <2>3 DEF Batches
  <2>5. QED
    BY <2>1, <2>2, <2>3, <2>4
<1>4. PICK c \in BatchRecords : c = [b EXCEPT !.batch = new] /\ c.batch = new
  BY BatchFields
<1>5. Suppressed \in BatchRecords /\ Suppressed.batch = NoBatch
  BY DEF Suppressed, BatchRecords
<1>6. CASE b.batch = NoBatch /\ b.suppressed
  BY <1>6 DEF LimitObserved
<1>7. CASE ~(b.batch = NoBatch /\ b.suppressed) /\ t \notin at.threads
  BY <1>2, <1>5, <1>7 DEF LimitObserved, Observing
<1>8. CASE ~(b.batch = NoBatch /\ b.suppressed) /\ t \in at.threads
  <2>1. LimitObserved(b, t, terminal, counted) = Finalized(c, counted)
    BY <1>2, <1>3, <1>4, <1>8 DEF LimitObserved, Observing
  <2>2. c.batch # NoBatch
    BY <1>4, BatchParts
  <2>3. /\ Finalized(c, counted) \in BatchRecords
        /\ \/ Finalized(c, counted).batch = NoBatch
           \/ /\ Finalized(c, counted).batch \in Batches
              /\ SameThreads(Finalized(c, counted).batch, new)
              /\ ReadyOnlyWhen(Finalized(c, counted).batch, new, counted)
    BY <1>4, <2>2, FinalizedIs
  <2>4. CASE Finalized(c, counted).batch = NoBatch
    BY <2>1, <2>3, <2>4
  <2>5. CASE Finalized(c, counted).batch # NoBatch
    <3>1. PICK f \in Batches : f = Finalized(c, counted).batch
      BY <2>3, <2>5
    <3>2. /\ f.threads = at.threads /\ f.limited = at.limited \cup {t}
          /\ f.terminal = at.terminal \cup (IF terminal THEN {t} ELSE {})
      BY <1>3, <2>3, <2>5, <3>1 DEF SameThreads
    <3>3. ReadyOnlyWhen(f, at, counted)
      BY <1>3, <2>3, <2>5, <3>1 DEF ReadyOnlyWhen
    <3>4. QED
      BY <1>2, <1>8, <2>1, <2>3, <3>1, <3>2, <3>3
  <2>6. QED
    BY <2>4, <2>5
<1>9. QED
  BY <1>6, <1>7, <1>8

(* The end of a turn leaves a batch alone that its thread is not in, and       *)
(* suppresses it unless the turn has hit the limit.                          *)
LEMMA EndObservedIs ==
  ASSUME NEW b \in BatchRecords, NEW t \in LimitThreads, NEW status, NEW counted
  PROVE  /\ EndObserved(b, t, status, counted) \in BatchRecords
         /\ \/ EndObserved(b, t, status, counted).batch = NoBatch
            \/ b.batch # NoBatch /\ t \notin b.batch.threads /\ EndObserved(b, t, status, counted) = b
            \/ \E f \in Batches :
                 /\ EndObserved(b, t, status, counted).batch = f
                 /\ b.batch # NoBatch /\ t \in b.batch.threads /\ t \notin hidden
                 /\ status \notin {"completed", "interrupted"}
                 /\ status = "limit" \/ t \in b.batch.limited
                 /\ f.threads = b.batch.threads /\ f.limited = b.batch.limited \cup {t}
                 /\ f.terminal = b.batch.terminal \cup {t}
                 /\ ReadyOnlyWhen(f, b.batch, counted)
<1>1. Suppressed \in BatchRecords /\ Suppressed.batch = NoBatch
  BY DEF Suppressed, BatchRecords
<1>2. CASE b.batch = NoBatch \/ t \notin b.batch.threads
  BY <1>2 DEF EndObserved
<1>3. CASE /\ ~(b.batch = NoBatch \/ t \notin b.batch.threads)
           /\ t \in hidden \/ status \in {"completed", "interrupted"}
              \/ (status # "limit" /\ t \notin b.batch.limited)
  BY <1>1, <1>3 DEF EndObserved
<1>4. CASE /\ ~(b.batch = NoBatch \/ t \notin b.batch.threads)
           /\ ~(t \in hidden \/ status \in {"completed", "interrupted"}
                \/ (status # "limit" /\ t \notin b.batch.limited))
  <2>1. PICK a \in Batches : a = b.batch
    BY <1>4, BatchFields
  <2>2. PICK new \in Batches :
          /\ new = [a EXCEPT !.limited = @ \cup {t}, !.terminal = @ \cup {t}]
          /\ new.threads = a.threads /\ new.limited = a.limited \cup {t} /\ new.ready = a.ready
          /\ new.terminal = a.terminal \cup {t}
    <3>1. PICK l \in SUBSET LimitThreads : l = a.limited \cup {t}
      BY BatchParts
    <3>2. PICK m \in SUBSET LimitThreads : m = a.terminal \cup {t}
      BY BatchParts
    <3>3. PICK new : new = [a EXCEPT !.limited = l, !.terminal = m]
      OBVIOUS
    <3>4. /\ new \in Batches /\ new.threads = a.threads /\ new.limited = l
          /\ new.terminal = m /\ new.ready = a.ready
      BY <3>3 DEF Batches
    <3>5. QED
      BY <3>1, <3>2, <3>3, <3>4
  <2>3. PICK c \in BatchRecords : c = [b EXCEPT !.batch = new] /\ c.batch = new
    BY BatchFields
  <2>4. [b EXCEPT !.batch.limited = @ \cup {t}, !.batch.terminal = @ \cup {t}] = c
    BY <2>1, <2>2, <2>3 DEF BatchRecords, Batches
  <2>5. EndObserved(b, t, status, counted) = Finalized(c, counted)
    BY <1>4, <2>4 DEF EndObserved
  <2>6. c.batch # NoBatch
    BY <2>3, BatchParts
  <2>7. /\ Finalized(c, counted) \in BatchRecords
        /\ \/ Finalized(c, counted).batch = NoBatch
           \/ /\ Finalized(c, counted).batch \in Batches
              /\ SameThreads(Finalized(c, counted).batch, new)
              /\ ReadyOnlyWhen(Finalized(c, counted).batch, new, counted)
    BY <2>3, <2>6, FinalizedIs
  <2>8. CASE Finalized(c, counted).batch = NoBatch
    BY <2>5, <2>7, <2>8
  <2>9. CASE Finalized(c, counted).batch # NoBatch
    <3>1. PICK f \in Batches : f = Finalized(c, counted).batch
      BY <2>7, <2>9
    <3>2. /\ f.threads = a.threads /\ f.limited = a.limited \cup {t}
          /\ f.terminal = a.terminal \cup {t}
      BY <2>2, <2>7, <2>9, <3>1 DEF SameThreads
    <3>3. ReadyOnlyWhen(f, a, counted)
      BY <2>2, <2>7, <2>9, <3>1 DEF ReadyOnlyWhen
    <3>4. QED
      BY <1>4, <2>1, <2>5, <2>7, <3>1, <3>2, <3>3
  <2>10. QED
    BY <2>8, <2>9
<1>5. QED
  BY <1>2, <1>3, <1>4

-----------------------------------------------------------------------------
(* What a handler may do to the batch: drop it or leave it alone, take a       *)
(* thread of it for limited, or begin one.                                   *)
Drops == batch' = NoBatch /\ batchAge' = 0 /\ suppressed' \in BOOLEAN /\ UNCHANGED <<atStart, unseen>>
Stays == UNCHANGED <<batch, suppressed, batchAge, atStart, unseen>>
Joins(t, term, counted) ==
  /\ batch # NoBatch /\ batch' \in Batches /\ suppressed' \in BOOLEAN /\ t \in batch.threads
  /\ batch'.threads = batch.threads /\ batch'.limited = batch.limited \cup {t}
  /\ batch'.terminal = batch.terminal \cup term
  /\ ReadyOnlyWhen(batch', batch, counted)
  /\ UNCHANGED <<atStart, unseen, batchAge>>
Begins(t, term, start, counted) ==
  /\ batch = NoBatch /\ batch' \in Batches /\ suppressed' \in BOOLEAN
  /\ batch'.threads = start \cup {t} /\ batch'.limited = {t} /\ batch'.terminal = term
  /\ batch'.ready => counted = {} /\ term = batch'.threads
  /\ ~batch'.ready => counted # {}
  /\ atStart' = start /\ unseen' = (\E u \in LimitThreads : doing[u] = "asked")
  /\ batchAge' = batchAge

(* The batch as it is can be handed to the observers.                        *)
LEMMA NowIs ==
  ASSUME LimitInv
  PROVE  /\ Now \in BatchRecords /\ Now.batch = batch /\ Now.suppressed = suppressed
         /\ batch # NoBatch => batch \in Batches
BY DEF LimitInv, BatchTypes, Now, BatchRecords

LEMMA CapturesShape ==
  ASSUME LimitInv, NEW t \in LimitThreads, NEW terminal \in BOOLEAN,
         NEW counted \in SUBSET LimitThreads,
         Captures(t, LimitObserved(Now, t, terminal, counted), counted)
  PROVE  \/ Stays /\ (observing => t \in hidden)
         \/ /\ observing /\ t \notin hidden
            /\ LET term == IF terminal THEN {t} ELSE {} IN
               Drops \/ Joins(t, term, counted) \/ Begins(t, term, counted, counted)
<1>1. CASE ~(observing /\ t \notin hidden)
  BY <1>1 DEF Captures, Stays
<1>2. CASE observing /\ t \notin hidden
  <2> DEFINE term == IF terminal THEN {t} ELSE {}
  <2>1. PICK b : b = LimitObserved(Now, t, terminal, counted)
    OBVIOUS
  <2>2. Becomes(b, counted)
    BY <1>2, <2>1 DEF Captures
  <2>3. /\ b \in BatchRecords
        /\ \/ b.batch = NoBatch
           \/ \E at, f \in Batches :
                /\ b.batch = f
                /\ at = Observing(Now, t, counted) /\ t \in at.threads
                /\ f.threads = at.threads /\ f.limited = at.limited \cup {t}
                /\ f.terminal = at.terminal \cup term
                /\ ReadyOnlyWhen(f, at, counted)
    BY <2>1, LimitObservedIs, NowIs
  <2>4. suppressed' \in BOOLEAN /\ batch' = b.batch
    BY <2>2, <2>3 DEF Becomes, BatchRecords
  <2>5. CASE b.batch = NoBatch
    BY <1>2, <2>2, <2>4, <2>5 DEF Becomes, Drops
  <2>6. CASE b.batch # NoBatch
    <3>1. PICK at \in Batches, f \in Batches :
            /\ b.batch = f
            /\ at = Observing(Now, t, counted) /\ t \in at.threads
            /\ f.threads = at.threads /\ f.limited = at.limited \cup {t}
            /\ f.terminal = at.terminal \cup term
            /\ ReadyOnlyWhen(f, at, counted)
      BY <2>3, <2>6
    <3>2. CASE batch # NoBatch
      <4>1. at = batch
        BY <3>1, <3>2, NowIs DEF Observing
      <4>2. UNCHANGED <<atStart, unseen, batchAge>>
        BY <2>2, <2>6, <3>2 DEF Becomes
      <4>3. Joins(t, term, counted)
        BY <2>4, <3>1, <3>2, <4>1, <4>2 DEF Joins
      <4>4. QED
        BY <1>2, <4>3
    <3>3. CASE batch = NoBatch
      <4>1. at = [threads |-> counted \cup {t}, limited |-> {}, terminal |-> {}, ready |-> FALSE]
        BY <3>1, <3>3, NowIs DEF Observing, NewBatch
      <4>2. at.threads = counted \cup {t} /\ at.limited = {} /\ at.terminal = {} /\ at.ready = FALSE
        BY <4>1
      <4>3. /\ atStart' = counted /\ unseen' = (\E u \in LimitThreads : doing[u] = "asked")
            /\ batchAge' = batchAge
        BY <2>2, <2>6, <3>3 DEF Becomes
      <4>4. batchAge = 0
        BY <3>3 DEF LimitInv, BatchThreads
      <4>5. /\ batch'.threads = counted \cup {t} /\ batch'.limited = {t} /\ batch'.terminal = term
            /\ batch' \in Batches
        BY <2>4, <3>1, <4>2
      <4>6. /\ batch'.ready => counted = {} /\ term = batch'.threads
            /\ ~batch'.ready => counted # {}
        BY <2>4, <3>1, <4>2, <4>4, <4>5 DEF ReadyOnlyWhen
      <4>7. Begins(t, term, counted, counted)
        BY <2>4, <3>3, <4>3, <4>5, <4>6 DEF Begins
      <4>8. QED
        BY <1>2, <4>7
    <3>4. QED
      BY <3>2, <3>3
  <2>7. QED
    BY <2>5, <2>6
<1>3. QED
  BY <1>1, <1>2

(* The end of a turn that is not observed as a limit.                        *)
LEMMA EndShape ==
  ASSUME LimitInv, NEW t \in LimitThreads, NEW status, NEW counted, NEW start,
         Becomes(EndObserved(Now, t, status, counted), start)
  PROVE  \/ Drops
         \/ Stays /\ batch # NoBatch /\ t \notin batch.threads
         \/ /\ Joins(t, {t}, counted) /\ status \notin {"completed", "interrupted"}
            /\ status = "limit" \/ t \in batch.limited
<1>1. PICK b : b = EndObserved(Now, t, status, counted)
  OBVIOUS
<1>2. Becomes(b, start)
  BY <1>1
<1>3. /\ b \in BatchRecords
      /\ \/ b.batch = NoBatch
         \/ batch # NoBatch /\ t \notin batch.threads /\ b = Now
         \/ \E f \in Batches :
              /\ b.batch = f
              /\ batch # NoBatch /\ t \in batch.threads
              /\ status \notin {"completed", "interrupted"}
              /\ status = "limit" \/ t \in batch.limited
              /\ f.threads = batch.threads /\ f.limited = batch.limited \cup {t}
              /\ f.terminal = batch.terminal \cup {t}
              /\ ReadyOnlyWhen(f, batch, counted)
  BY <1>1, EndObservedIs, NowIs
<1>4. suppressed' \in BOOLEAN /\ batch' = b.batch /\ suppressed' = b.suppressed
  BY <1>2, <1>3 DEF Becomes, BatchRecords
<1>5. CASE b.batch = NoBatch
  BY <1>2, <1>4, <1>5 DEF Becomes, Drops
<1>6. CASE b.batch # NoBatch
  <2>1. batch # NoBatch
    BY <1>3, <1>6
  <2>2. UNCHANGED <<atStart, unseen, batchAge>>
    BY <1>2, <1>6, <2>1 DEF Becomes
  <2>3. CASE t \notin batch.threads /\ b = Now
    BY <1>4, <2>1, <2>2, <2>3, NowIs DEF Stays
  <2>4. CASE ~(t \notin batch.threads /\ b = Now)
    <3>1. PICK f \in Batches :
              /\ b.batch = f
              /\ batch # NoBatch /\ t \in batch.threads
              /\ status \notin {"completed", "interrupted"}
              /\ status = "limit" \/ t \in batch.limited
              /\ f.threads = batch.threads /\ f.limited = batch.limited \cup {t}
              /\ f.terminal = batch.terminal \cup {t}
              /\ ReadyOnlyWhen(f, batch, counted)
      BY <1>3, <1>6, <2>4
    <3>2. Joins(t, {t}, counted)
      BY <1>4, <2>1, <2>2, <3>1 DEF Joins
    <3>3. QED
      BY <3>1, <3>2
  <2>5. QED
    BY <2>3, <2>4
<1>7. QED
  BY <1>5, <1>6

(* The end of a turn whose limit is observed first, while it still counts.    *)
LEMMA LimitEndShape ==
  ASSUME LimitInv, NEW t \in LimitThreads, NEW before \in SUBSET LimitThreads, before # {},
         NEW after,
         Becomes(EndObserved(LimitObserved(Now, t, FALSE, before), t, "limit", after), before)
  PROVE  Drops \/ Joins(t, {t}, after) \/ Begins(t, {t}, before, after)
<1>1. PICK c : c = LimitObserved(Now, t, FALSE, before)
  OBVIOUS
<1>2. PICK b : b = EndObserved(c, t, "limit", after)
  OBVIOUS
<1>3. Becomes(b, before)
  BY <1>1, <1>2
<1>4. /\ c \in BatchRecords
      /\ \/ c.batch = NoBatch
         \/ \E at, f \in Batches :
              /\ c.batch = f
              /\ at = Observing(Now, t, before) /\ t \in at.threads
              /\ f.threads = at.threads /\ f.limited = at.limited \cup {t}
              /\ f.terminal = at.terminal
              /\ ReadyOnlyWhen(f, at, before)
  <2>1. PICK terminal \in BOOLEAN : terminal = FALSE
    OBVIOUS
  <2>2. c = LimitObserved(Now, t, terminal, before)
    BY <1>1, <2>1
  <2>3. /\ c \in BatchRecords
        /\ \/ c.batch = NoBatch
           \/ \E at, f \in Batches :
                /\ c.batch = f
                /\ at = Observing(Now, t, before) /\ t \in at.threads
                /\ f.threads = at.threads /\ f.limited = at.limited \cup {t}
                /\ f.terminal = at.terminal \cup (IF terminal THEN {t} ELSE {})
                /\ ReadyOnlyWhen(f, at, before)
    BY <2>2, LimitObservedIs, NowIs
  <2>4. \A f : f \cup (IF terminal THEN {t} ELSE {}) = f
    BY <2>1
  <2>5. QED
    BY <2>3, <2>4
<1>5. /\ b \in BatchRecords
      /\ \/ b.batch = NoBatch
         \/ c.batch # NoBatch /\ t \notin c.batch.threads
         \/ \E f \in Batches :
              /\ b.batch = f
              /\ c.batch # NoBatch
              /\ f.threads = c.batch.threads /\ f.limited = c.batch.limited \cup {t}
              /\ f.terminal = c.batch.terminal \cup {t}
              /\ ReadyOnlyWhen(f, c.batch, after)
  BY <1>2, <1>4, EndObservedIs
<1>6. suppressed' \in BOOLEAN /\ batch' = b.batch
  BY <1>3, <1>5 DEF Becomes, BatchRecords
<1>7. CASE b.batch = NoBatch
  BY <1>3, <1>6, <1>7 DEF Becomes, Drops
<1>8. CASE b.batch # NoBatch
  <2>1. c.batch # NoBatch
    BY <1>2, <1>5, <1>8
  <2>2. PICK at \in Batches, e \in Batches :
          /\ c.batch = e
          /\ at = Observing(Now, t, before) /\ t \in at.threads
          /\ e.threads = at.threads /\ e.limited = at.limited \cup {t}
          /\ e.terminal = at.terminal
          /\ ReadyOnlyWhen(e, at, before)
    BY <1>4, <2>1
  <2>3. PICK f \in Batches :
          /\ b.batch = f
          /\ f.threads = e.threads /\ f.limited = e.limited \cup {t}
          /\ f.terminal = e.terminal \cup {t}
          /\ ReadyOnlyWhen(f, e, after)
    BY <1>5, <1>8, <2>1, <2>2
  <2>4. f.threads = at.threads /\ f.limited = at.limited \cup {t} /\ f.terminal = at.terminal \cup {t}
    BY <2>2, <2>3
  <2>5. ReadyOnlyWhen(f, at, after)
    BY <2>2, <2>3 DEF ReadyOnlyWhen
  <2>6. CASE batch # NoBatch
    <3>1. at = batch
      BY <2>2, <2>6, NowIs DEF Observing
    <3>2. UNCHANGED <<atStart, unseen, batchAge>>
      BY <1>3, <1>8, <2>6 DEF Becomes
    <3>3. QED
      BY <1>6, <2>2, <2>3, <2>4, <2>5, <2>6, <3>1, <3>2 DEF Joins
  <2>7. CASE batch = NoBatch
    <3>1. at = [threads |-> before \cup {t}, limited |-> {}, terminal |-> {}, ready |-> FALSE]
      BY <2>2, <2>7, NowIs DEF Observing, NewBatch
    <3>2. at.threads = before \cup {t} /\ at.limited = {} /\ at.terminal = {} /\ at.ready = FALSE
      BY <3>1
    <3>3. /\ atStart' = before /\ unseen' = (\E u \in LimitThreads : doing[u] = "asked")
          /\ batchAge' = batchAge
      BY <1>3, <1>8, <2>7 DEF Becomes
    <3>4. batchAge = 0
      BY <2>7 DEF LimitInv, BatchThreads
    <3>5. /\ batch'.threads = before \cup {t} /\ batch'.limited = {t} /\ batch'.terminal = {t}
          /\ batch' \in Batches
      BY <1>6, <2>3, <2>4, <3>2
    <3>6. /\ batch'.ready => after = {} /\ {t} = batch'.threads
          /\ ~batch'.ready => after # {}
      BY <1>6, <2>3, <2>5, <3>2, <3>4, <3>5 DEF ReadyOnlyWhen
    <3>7. QED
      BY <1>6, <2>7, <3>3, <3>5, <3>6 DEF Begins
  <2>8. QED
    BY <2>6, <2>7
<1>9. QED
  BY <1>7, <1>8

-----------------------------------------------------------------------------
(* What a handler may change besides the batch: the thread's own work ends, or  *)
(* nothing does; and a switch that has begun takes up no thread for it.        *)
Works(t) ==
  /\ \A u \in LimitThreads \ {t} : doing'[u] = doing[u]
  /\ doing' = doing \/ doing'[t] = "idle"
  /\ UNCHANGED <<hidden, observing, switchPhase, late>>
  /\ SwitchBegun => recoverIds' \subseteq recoverIds

Kept == BatchThreads' /\ BatchGathers' /\ ReadyMeansExhausted'

LEMMA DropsKeeps ==
  ASSUME Drops
  PROVE  Kept
BY DEF Drops, Kept, BatchThreads, BatchGathers, Gathering, ReadyMeansExhausted

(* What the invariant says of a batch that gathers.                          *)
LEMMA GatheringSays ==
  ASSUME LimitInv, Gathering
  PROVE  /\ batch \in Batches /\ batch.threads \subseteq LimitThreads
         /\ batch.limited \subseteq batch.threads /\ batch.terminal \subseteq batch.threads
         /\ switchPhase # "continuing" => AllInBatch
         /\ SwitchBegun => batch.threads \cap recoverIds \subseteq late
         /\ LimitedStop /\ TerminalEnd
BY NowIs, BatchParts DEF LimitInv, BatchGathers, BatchThreads, Gathering

(* A batch that a thread does not concern stays as good as it was.           *)
LEMMA StaysKeeps ==
  ASSUME LimitInv, NEW t \in LimitThreads, Works(t), Stays,
         batch # NoBatch => t \notin batch.threads,
         \A u \in LimitThreads \ {t} : ended'[u] = ended[u],
         batch # NoBatch /\ batch.ready => ended' = ended,
         stopped \subseteq stopped' \cup {t}
  PROVE  Kept
<1>1. BatchThreads'
  BY DEF LimitInv, BatchThreads, Stays, Works
<1>2. ReadyMeansExhausted'
  BY DEF LimitInv, ReadyMeansExhausted, Stays, Works
<1>3. ASSUME Gathering' PROVE BatchGathers'
  <2>1. Gathering
    BY <1>3 DEF Gathering, Stays
  <2>2. t \notin batch.threads
    BY <2>1 DEF Gathering
  <2>3. switchPhase # "continuing" => AllInBatch'
    <3>1. SUFFICES ASSUME switchPhase # "continuing" PROVE AllInBatch'
      OBVIOUS
    <3>2. AllInBatch
      BY <2>1, <3>1, GatheringSays
    <3>3. t \notin CountedActive(doing)
      BY <2>2, <3>2 DEF AllInBatch
    <3>4. \A u \in LimitThreads : u \in CountedActive(doing') <=> u \in CountedActive(doing)
      BY <3>3 DEF CountedActive, Works
    <3>5. (CountedActive(doing))' = CountedActive(doing)
      BY <3>4 DEF CountedActive, Works
    <3>6. \A u \in LimitThreads : doing'[u] # "asked"
      BY <3>2 DEF AllInBatch, Works
    <3>7. QED
      BY <3>2, <3>5, <3>6 DEF AllInBatch, Stays
  <2>4. LimitedStop'
    BY <2>1, <2>2, GatheringSays DEF LimitedStop, Stays, Works
  <2>5. TerminalEnd'
    BY <2>1, <2>2, GatheringSays DEF TerminalEnd, Stays, Works
  <2>6. SwitchBegun' => batch'.threads \cap recoverIds' \subseteq late'
    BY <2>1, GatheringSays DEF SwitchBegun, Stays, Works
  <2>7. QED
    BY <2>3, <2>4, <2>5, <2>6 DEF BatchGathers, Works
<1>4. QED
  BY <1>1, <1>2, <1>3 DEF Kept, BatchGathers

(* A batch that gathers goes on to do so, or is ready when all who counted at   *)
(* first have ended by the limit.                                          *)
LEMMA JoinsKeeps ==
  ASSUME LimitInv, NEW t \in LimitThreads, t \notin hidden, Works(t), NEW term \in {{}, {t}},
         Joins(t, term, CountedActive(doing')),
         term = {} => doing' = doing /\ doing[t] = "active",
         t \notin late => doing[t] # "idle" /\ (term = {t} => doing'[t] = "idle"),
         stopped \subseteq stopped', Gathering /\ t \notin late => t \in stopped',
         Gathering => \A u \in LimitThreads \ {t} : ended'[u] = ended[u],
         Gathering /\ t \notin late /\ term = {t} => ended'[t] = "limit",
         batch.ready => ended' = ended
  PROVE  Kept
<1>1. /\ batch # NoBatch /\ batch' \in Batches /\ t \in batch.threads /\ batch \in Batches
      /\ batch'.threads = batch.threads /\ batch'.limited = batch.limited \cup {t}
      /\ batch'.terminal = batch.terminal \cup term
      /\ ReadyOnlyWhen(batch', batch, CountedActive(doing'))
      /\ UNCHANGED <<atStart, unseen, batchAge>>
  BY NowIs DEF Joins
<1>2. batch' # NoBatch
  BY <1>1, BatchParts
<1>3. BatchThreads'
  BY <1>1, <1>2 DEF LimitInv, BatchThreads, Works
<1>4. (CountedActive(doing))' = CountedActive(doing')
  BY DEF CountedActive, Works
<1>5. /\ late' = late /\ hidden' = hidden /\ switchPhase' = switchPhase
      /\ \A u \in LimitThreads \ {t} : doing'[u] = doing[u]
  BY DEF Works
<1>6. Gathering => TerminalEnd'
  <2>1. SUFFICES ASSUME Gathering, NEW u \in batch'.terminal \ late
                 PROVE  doing'[u] = "idle" /\ ended'[u] = "limit"
    BY <1>5 DEF TerminalEnd
  <2>2. CASE u \in batch.terminal
    <3>1. u \in LimitThreads /\ doing[u] = "idle" /\ ended[u] = "limit"
      BY <2>1, <2>2, GatheringSays DEF TerminalEnd
    <3>2. u # t
      BY <2>1, <3>1
    <3>3. QED
      BY <1>5, <2>1, <3>1, <3>2
  <2>3. CASE u \notin batch.terminal
    <3>1. u = t /\ term = {t}
      BY <1>1, <2>1, <2>3
    <3>2. QED
      BY <2>1, <3>1
  <2>4. QED
    BY <2>2, <2>3
<1>7. Gathering' => BatchGathers'
  <2>1. SUFFICES ASSUME Gathering' PROVE BatchGathers'
    OBVIOUS
  <2>2. Gathering /\ CountedActive(doing') # {}
    BY <1>1, <2>1 DEF Gathering, ReadyOnlyWhen
  <2>3. switchPhase # "continuing" => AllInBatch'
    <3>1. SUFFICES ASSUME switchPhase # "continuing" PROVE AllInBatch'
      OBVIOUS
    <3>2. AllInBatch
      BY <2>2, <3>1, GatheringSays
    <3>3. CountedActive(doing') \subseteq CountedActive(doing) \cup {t}
      BY <1>5 DEF CountedActive
    <3>4. \A u \in LimitThreads : doing'[u] # "asked"
      BY <3>2 DEF AllInBatch, Works
    <3>5. QED
      BY <1>1, <1>4, <2>2, <3>2, <3>3, <3>4 DEF AllInBatch
  <2>4. LimitedStop'
    <3>1. SUFFICES ASSUME NEW u \in batch'.limited \ late
                   PROVE  doing'[u] \notin {"sent", "asked"} /\ u \in stopped'
      BY <1>5 DEF LimitedStop
    <3>2. CASE u = t
      BY <2>2, <3>1, <3>2
    <3>3. CASE u # t
      <4>1. u \in batch.limited /\ u \in LimitThreads
        BY <1>1, <2>2, <3>1, <3>3, GatheringSays
      <4>2. doing[u] \notin {"sent", "asked"} /\ u \in stopped
        BY <2>2, <3>1, <4>1, GatheringSays DEF LimitedStop
      <4>3. QED
        BY <1>5, <3>3, <4>1, <4>2
    <3>4. QED
      BY <3>2, <3>3
  <2>5. SwitchBegun' => batch'.threads \cap recoverIds' \subseteq late'
    BY <1>1, <2>2, GatheringSays DEF SwitchBegun, Works
  <2>6. QED
    BY <1>5, <1>6, <2>2, <2>3, <2>4, <2>5 DEF BatchGathers
<1>8. ReadyMeansExhausted'
  <2>1. SUFFICES ASSUME batch'.ready, batchAge = 0, ~unseen, NEW u \in atStart \ (hidden \cup late)
                 PROVE  ended'[u] = "limit"
    BY <1>1, <1>5 DEF ReadyMeansExhausted
  <2>2. CASE batch.ready
    BY <1>1, <2>1, <2>2 DEF LimitInv, ReadyMeansExhausted
  <2>3. CASE ~batch.ready
    <3>1. Gathering
      BY <1>1, <2>1, <2>3 DEF Gathering
    <3>2. batch'.terminal = batch'.threads
      BY <1>1, <2>1, <2>3 DEF ReadyOnlyWhen
    <3>3. u \in batch.threads
      BY <1>1, <2>1 DEF LimitInv, BatchThreads
    <3>4. QED
      BY <1>1, <1>5, <1>6, <2>1, <3>1, <3>2, <3>3 DEF TerminalEnd
  <2>4. QED
    BY <2>2, <2>3
<1>9. QED
  BY <1>3, <1>7, <1>8 DEF Kept, BatchGathers

(* A batch begins with those that count, none of them at its end.            *)
LEMMA BeginsKeeps ==
  ASSUME LimitInv, NEW t \in LimitThreads, t \notin hidden, observing, Works(t),
         NEW term \in {{}, {t}}, NEW start \in SUBSET (LimitThreads \ hidden),
         Begins(t, term, start, CountedActive(doing')),
         CountedActive(doing') \subseteq start,
         t \notin late => (term = {t} => doing'[t] = "idle") /\ doing'[t] \notin {"sent", "asked"},
         SwitchBegun => (start \cup {t}) \cap recoverIds \subseteq late,
         t \in stopped',
         ended' = [u \in LimitThreads |-> IF u = t /\ doing'[t] = "idle" THEN "limit" ELSE "not"]
  PROVE  Kept
<1>1. /\ batch = NoBatch /\ batch' \in Batches
      /\ batch'.threads = start \cup {t} /\ batch'.limited = {t} /\ batch'.terminal = term
      /\ batch'.ready => CountedActive(doing') = {} /\ term = batch'.threads
      /\ ~batch'.ready => CountedActive(doing') # {}
      /\ atStart' = start /\ unseen' = (\E u \in LimitThreads : doing[u] = "asked")
      /\ batchAge' = batchAge
  BY DEF Begins
<1>2. batch' # NoBatch
  BY <1>1, BatchParts
<1>3. /\ observing' /\ hidden' = hidden /\ late' = late /\ switchPhase' = switchPhase
      /\ SwitchBegun => recoverIds' \subseteq recoverIds
  BY DEF Works
<1>4. BatchThreads'
  <2>1. atStart' \subseteq batch'.threads /\ batch'.threads \cap hidden' = {}
    BY <1>1, <1>3
  <2>2. batch'.limited \cup batch'.terminal \subseteq batch'.threads
    BY <1>1
  <2>3. QED
    BY <1>2, <1>3, <2>1, <2>2 DEF BatchThreads
<1>5. (CountedActive(doing))' = CountedActive(doing')
  BY DEF CountedActive, Works
<1>6. \A u \in term \ late : doing'[u] = "idle" /\ ended'[u] = "limit"
  OBVIOUS
<1>7. Gathering' => BatchGathers'
  <2>1. SUFFICES ASSUME Gathering' PROVE BatchGathers'
    OBVIOUS
  <2>2. CountedActive(doing') # {} /\ \A u \in LimitThreads : doing[u] # "asked"
    BY <1>1, <2>1 DEF Gathering
  <2>3. \A u \in LimitThreads : doing'[u] # "asked"
    BY <2>2 DEF Works
  <2>4. AllInBatch'
    BY <1>1, <1>5, <2>2, <2>3 DEF AllInBatch
  <2>5. LimitedStop'
    BY <1>1, <1>3 DEF LimitedStop
  <2>6. TerminalEnd'
    BY <1>1, <1>3, <1>6 DEF TerminalEnd
  <2>7. SwitchBegun' => batch'.threads \cap recoverIds' \subseteq late'
    BY <1>1, <1>3 DEF SwitchBegun
  <2>8. QED
    BY <2>4, <2>5, <2>6, <2>7 DEF BatchGathers
<1>8. ReadyMeansExhausted'
  <2>1. SUFFICES ASSUME batch'.ready, NEW u \in start \ late PROVE ended'[u] = "limit"
    BY <1>1, <1>3 DEF ReadyMeansExhausted
  <2>2. u \in term
    BY <1>1, <2>1
  <2>3. QED
    BY <1>6, <2>1, <2>2
<1>9. QED
  BY <1>4, <1>7, <1>8 DEF Kept, BatchGathers

(* A batch that does not gather stays as good as it was, whatever is done.     *)
LEMMA StillKeeps ==
  ASSUME LimitInv, Stays, ~Gathering, UNCHANGED <<hidden, observing>>, late \subseteq late',
         batch # NoBatch /\ batch.ready => ended' = ended
  PROVE  Kept
<1>1. BatchThreads'
  BY DEF LimitInv, BatchThreads, Stays
<1>2. BatchGathers'
  BY DEF BatchGathers, Gathering, Stays
<1>3. ReadyMeansExhausted'
  BY DEF LimitInv, ReadyMeansExhausted, Stays
<1>4. QED
  BY <1>1, <1>2, <1>3 DEF Kept

(* Nor does a step matter that changes none of what the batch is about.        *)
LEMMA UntouchedKeeps ==
  ASSUME LimitInv, Stays, UNCHANGED <<doing, hidden, observing, stopped, ended>>,
         late \subseteq late',
         switchPhase' # "continuing" => switchPhase # "continuing",
         SwitchBegun' => SwitchBegun /\ recoverIds' \subseteq recoverIds
  PROVE  Kept
<1>1. BatchThreads'
  BY DEF LimitInv, BatchThreads, Stays
<1>2. ReadyMeansExhausted'
  BY DEF LimitInv, ReadyMeansExhausted, Stays
<1>3. ASSUME Gathering' PROVE BatchGathers'
  <2>1. Gathering
    BY <1>3 DEF Gathering, Stays
  <2>2. switchPhase' # "continuing" => AllInBatch'
    BY <2>1, GatheringSays DEF AllInBatch, CountedActive, Stays
  <2>3. LimitedStop' /\ TerminalEnd'
    BY <2>1, GatheringSays DEF LimitedStop, TerminalEnd, Stays
  <2>4. SwitchBegun' => batch'.threads \cap recoverIds' \subseteq late'
    BY <2>1, GatheringSays DEF Stays
  <2>5. QED
    BY <2>2, <2>3, <2>4 DEF BatchGathers
<1>4. QED
  BY <1>1, <1>2, <1>3 DEF Kept, BatchGathers

(* The variables of the batch keep their types in each of these ways.         *)
BatchVarTypes ==
  /\ batch \in Batches \cup {NoBatch} /\ suppressed \in BOOLEAN /\ batchAge \in 0..2
  /\ atStart \subseteq LimitThreads /\ unseen \in BOOLEAN
LEMMA ShapeTypes ==
  ASSUME LimitInv, NEW t, NEW term, NEW start \in SUBSET LimitThreads, NEW counted,
         Drops \/ Stays \/ Joins(t, term, counted) \/ Begins(t, term, start, counted)
  PROVE  BatchVarTypes'
<1>1. BatchVarTypes
  BY DEF LimitInv, BatchTypes, BatchVarTypes
<1>2. CASE Drops
  BY <1>1, <1>2 DEF Drops, BatchVarTypes
<1>3. CASE Stays
  BY <1>1, <1>3 DEF Stays, BatchVarTypes
<1>4. CASE Joins(t, term, counted)
  BY <1>1, <1>4 DEF Joins, BatchVarTypes
<1>5. CASE Begins(t, term, start, counted)
  <2>1. atStart' = start /\ unseen' \in BOOLEAN
    BY <1>5 DEF Begins
  <2>2. batch' \in Batches /\ suppressed' \in BOOLEAN /\ batchAge' = batchAge
    BY <1>5 DEF Begins
  <2>3. QED
    BY <1>1, <2>1, <2>2 DEF BatchVarTypes
<1>6. QED
  BY <1>2, <1>3, <1>4, <1>5

(* So does what is remembered of the ends of the threads' work.               *)
LEMMA EndedTypes ==
  ASSUME LimitInv, NEW t \in LimitThreads, NEW status \in {"limit", "other", "not"},
         EndedBy(t, status)
  PROVE  ended' \in [LimitThreads -> {"limit", "other", "not"}]
BY DEF LimitInv, BatchTypes, EndedBy

(* A thread that is captured or forgotten changes only a request that is pending. *)
LEMMA IdsKept ==
  ASSUME NEW t, SwitchBegun,
         recoverIds' \in Snapshots(t) \/ recoverIds' = Forgotten(t) \/ recoverIds' = recoverIds
  PROVE  recoverIds' = recoverIds
BY DEF SwitchBegun, Snapshots, Forgotten

(* Nothing at work has still to be continued.                               *)
LEMMA NoneToContinue ==
  ASSUME LimitInv, SwitchBegun
  PROVE  CountedActive(doing) \cap recoverIds \subseteq late
BY DEF LimitInv, SwitchOrder, CountedActive

(* A thread's work has ended.                                               *)
Ends(t) ==
  /\ doing' = [doing EXCEPT ![t] = "idle"] /\ UNCHANGED <<hidden, observing, switchPhase, late>>
  /\ SwitchBegun => recoverIds' \subseteq recoverIds
LEMMA EndsWorks ==
  ASSUME LimitInv, NEW t \in LimitThreads, Ends(t)
  PROVE  /\ Works(t) /\ doing'[t] = "idle"
         /\ doing' \in [LimitThreads -> {"idle", "sent", "asked", "active"}]
         /\ CountedActive(doing') \subseteq CountedActive(doing)
         /\ CountedActive(doing) \in SUBSET (LimitThreads \ hidden)
         /\ CountedActive(doing') \in SUBSET (LimitThreads \ hidden)
         /\ t \notin CountedActive(doing')
BY DEF LimitInv, BatchTypes, Ends, Works, CountedActive

-----------------------------------------------------------------------------
(* One lemma per action.                                                    *)

(* A start that is refused, by the limit or otherwise.                        *)
LEMMA StartRefusedKeeps ==
  ASSUME LimitInv, NEW t \in LimitThreads, StartRefused(t)
  PROVE  BatchTypes' /\ Kept
<1>1. Ends(t) /\ doing[t] = "sent"
  <2>1. recoverIds' \in Snapshots(t) \/ recoverIds' = Forgotten(t) \/ recoverIds' = recoverIds
    BY DEF StartRefused, Captures
  <2>2. SwitchBegun => recoverIds' \subseteq recoverIds
    BY <2>1, IdsKept
  <2>3. QED
    BY <2>2 DEF StartRefused, Ends
<1>2. /\ Works(t) /\ doing'[t] = "idle"
      /\ doing' \in [LimitThreads -> {"idle", "sent", "asked", "active"}]
      /\ CountedActive(doing') \subseteq CountedActive(doing)
  BY <1>1, EndsWorks
<1>3. hidden' = hidden /\ hidden \subseteq LimitThreads /\ stopped \subseteq LimitThreads
      /\ observing' = observing
      /\ ended \in [LimitThreads -> {"limit", "other", "not"}]
  BY <1>1 DEF Ends, LimitInv, BatchTypes
<1>4. PICK counted \in SUBSET (LimitThreads \ hidden) : counted = CountedActive(doing')
  BY <1>1, EndsWorks
<1>5. CASE /\ Captures(t, LimitObserved(Now, t, TRUE, counted), counted)
           /\ EndedBy(t, "limit")
           /\ stopped' = stopped \cup {t}
  <2>1. PICK terminal \in BOOLEAN : terminal = TRUE
    OBVIOUS
  <2>2. Captures(t, LimitObserved(Now, t, terminal, counted), counted)
    BY <1>5, <2>1
  <2>3. \/ Stays /\ (observing => t \in hidden)
        \/ /\ observing /\ t \notin hidden
           /\ Drops \/ Joins(t, {t}, counted) \/ Begins(t, {t}, counted, counted)
    <3>1. \/ Stays /\ (observing => t \in hidden)
          \/ /\ observing /\ t \notin hidden
             /\ LET term == IF terminal THEN {t} ELSE {} IN
                Drops \/ Joins(t, term, counted) \/ Begins(t, term, counted, counted)
      BY <2>2, CapturesShape
    <3>2. QED
      BY <2>1, <3>1
  <2>4. ended' \in [LimitThreads -> {"limit", "other", "not"}] /\ BatchVarTypes'
    BY <1>5, <2>3, EndedTypes, ShapeTypes
  <2>5. BatchTypes'
    BY <1>2, <1>3, <1>5, <2>4 DEF BatchTypes, BatchVarTypes
  <2>6. batch = NoBatch /\ batch' # NoBatch =>
          ended' = [u \in LimitThreads |-> IF u = t /\ doing'[t] = "idle" THEN "limit" ELSE "not"]
    BY <1>5 DEF EndedBy
  <2>7. batch # NoBatch =>
          ended' = IF ~batch.ready THEN [ended EXCEPT ![t] = "limit"] ELSE ended
    BY <1>2, <1>5 DEF EndedBy
  <2>8. CASE Stays /\ (observing => t \in hidden)
    <3>1. batch # NoBatch => t \notin batch.threads
      BY <2>8 DEF LimitInv, BatchThreads
    <3>2. batch # NoBatch /\ batch.ready => ended' = ended
      BY <2>7
    <3>3. \A u \in LimitThreads \ {t} : ended'[u] = ended[u]
      <4>1. batch = NoBatch => ended' = ended
        BY <1>5, <2>8 DEF EndedBy, Stays
      <4>2. QED
        BY <1>3, <2>7, <4>1
    <3>4. QED
      BY <1>2, <1>5, <2>5, <2>8, <3>1, <3>2, <3>3, StaysKeeps
  <2>9. CASE Drops
    BY <2>5, <2>9, DropsKeeps
  <2>10. CASE observing /\ t \notin hidden /\ Joins(t, {t}, counted)
    <3>1. batch # NoBatch
      BY <2>10 DEF Joins
    <3>2. Gathering => /\ \A u \in LimitThreads \ {t} : ended'[u] = ended[u]
                       /\ ended'[t] = "limit"
      BY <1>3, <2>7 DEF Gathering
    <3>3. batch.ready => ended' = ended
      BY <2>7, <3>1
    <3>4. QED
      BY <1>1, <1>2, <1>4, <1>5, <2>5, <2>10, <3>2, <3>3, JoinsKeeps
  <2>11. CASE observing /\ t \notin hidden /\ Begins(t, {t}, counted, counted)
    <3>1. batch = NoBatch /\ batch' # NoBatch
      BY <2>11, BatchParts DEF Begins
    <3>2. SwitchBegun => (counted \cup {t}) \cap recoverIds \subseteq late
      BY <1>1, <1>2, <1>4, NoneToContinue DEF LimitInv, SwitchOrder
    <3>3. QED
      BY <1>2, <1>4, <1>5, <2>5, <2>6, <2>11, <3>1, <3>2, BeginsKeeps
  <2>12. QED
    BY <2>3, <2>5, <2>8, <2>9, <2>10, <2>11
<1>6. CASE /\ Becomes(EndObserved(Now, t, "rejected", counted), counted)
           /\ EndedBy(t, "other")
           /\ UNCHANGED <<journal, recoverIds, stopped>>
  <2>1. batch # NoBatch => ended' = IF ~batch.ready THEN [ended EXCEPT ![t] = "other"] ELSE ended
    BY <1>2, <1>6 DEF EndedBy
  <2>2. \/ Drops
        \/ Stays /\ batch # NoBatch /\ t \notin batch.threads
        \/ /\ Joins(t, {t}, counted)
           /\ t \in batch.limited
    BY <1>6, EndShape
  <2>3. ended' \in [LimitThreads -> {"limit", "other", "not"}] /\ BatchVarTypes'
    BY <1>6, <2>2, EndedTypes, ShapeTypes
  <2>4. BatchTypes'
    BY <1>2, <1>3, <1>6, <2>3 DEF BatchTypes, BatchVarTypes
  <2>5. CASE Stays /\ batch # NoBatch /\ t \notin batch.threads
    <3>1. \A u \in LimitThreads \ {t} : ended'[u] = ended[u]
      BY <1>3, <2>1, <2>5
    <3>2. batch # NoBatch /\ batch.ready => ended' = ended
      BY <2>1
    <3>3. QED
      BY <1>2, <1>6, <2>4, <2>5, <3>1, <3>2, StaysKeeps
  <2>6. CASE Joins(t, {t}, counted) /\ t \in batch.limited
    <3>1. Gathering => t \in late
      BY <1>1, <2>6, GatheringSays DEF LimitedStop
    <3>2. t \notin hidden /\ batch # NoBatch
      BY <2>6 DEF Joins, LimitInv, BatchThreads
    <3>3. batch.ready => ended' = ended
      BY <2>1, <3>2
    <3>4. \A u \in LimitThreads \ {t} : ended'[u] = ended[u]
      BY <1>3, <2>1, <3>2
    <3>5. QED
      BY <1>1, <1>2, <1>4, <1>6, <2>4, <2>6, <3>1, <3>2, <3>3, <3>4, JoinsKeeps
  <2>7. QED
    BY <2>2, <2>4, <2>5, <2>6, DropsKeeps
<1>7. QED
  <2>1. \/ /\ Captures(t, LimitObserved(Now, t, TRUE, counted), counted)
           /\ EndedBy(t, "limit")
           /\ stopped' = stopped \cup {t}
        \/ /\ Becomes(EndObserved(Now, t, "rejected", counted), counted)
           /\ EndedBy(t, "other")
           /\ UNCHANGED <<journal, recoverIds, stopped>>
    BY <1>4 DEF StartRefused
  <2>2. QED
    BY <1>5, <1>6, <2>1

(* The refusal of a Continue that is not observed as a limit.                 *)
LEMMA AnswerKeeps ==
  ASSUME LimitInv, NEW t \in LimitThreads, doing[t] = "asked",
         doing' = [doing EXCEPT ![t] = "idle"], Stays,
         UNCHANGED <<hidden, observing, stopped, ended, switchPhase, recoverIds, late>>
  PROVE  BatchTypes' /\ Kept
<1>1. /\ doing' \in [LimitThreads -> {"idle", "sent", "asked", "active"}] /\ doing'[t] = "idle"
      /\ \A u \in LimitThreads \ {t} : doing'[u] = doing[u]
  BY DEF LimitInv, BatchTypes
<1>2. BatchTypes'
  BY <1>1 DEF LimitInv, BatchTypes, Stays
<1>3. BatchThreads' /\ ReadyMeansExhausted'
  BY DEF LimitInv, BatchThreads, ReadyMeansExhausted, Stays
<1>4. ASSUME Gathering' PROVE BatchGathers'
  <2>1. Gathering
    BY <1>4 DEF Gathering, Stays
  <2>2. switchPhase = "continuing"
    BY <2>1, GatheringSays DEF AllInBatch
  <2>3. LimitedStop' /\ TerminalEnd'
    BY <1>1, <2>1, GatheringSays DEF LimitedStop, TerminalEnd, Stays
  <2>4. SwitchBegun' => batch'.threads \cap recoverIds' \subseteq late'
    BY <2>1, GatheringSays DEF SwitchBegun, Stays
  <2>5. QED
    BY <2>2, <2>3, <2>4 DEF BatchGathers
<1>5. QED
  BY <1>2, <1>3, <1>4 DEF Kept, BatchGathers

(* The Continue that is awaited is refused: its thread is not one the switch     *)
(* has still to continue.                                                    *)
LEMMA ContinueRefusedKeeps ==
  ASSUME LimitInv, NEW t \in LimitThreads, ContinueRefused(t)
  PROVE  BatchTypes' /\ Kept
<1>1. /\ awaited = t /\ ~granted
      /\ doing' = IF doing[t] = "asked" THEN [doing EXCEPT ![t] = "idle"] ELSE doing
      /\ UNCHANGED <<hidden, observing, switchPhase, late>>
  BY DEF ContinueRefused
<1>2. /\ switchPhase = "continuing" /\ t \notin recoverIds
      /\ t \notin late => doing[t] = "asked"
  BY <1>1, UsageLimitAssumption DEF LimitInv, SwitchOrder
<1>3. recoverIds' = recoverIds
  <2>1. recoverIds' \in Snapshots(t) \/ recoverIds' = Forgotten(t) \/ recoverIds' = recoverIds
    BY DEF ContinueRefused, Captures
  <2>2. QED
    BY <1>2, <2>1, IdsKept DEF SwitchBegun
<1>4. /\ hidden \subseteq LimitThreads /\ stopped \subseteq LimitThreads
      /\ doing \in [LimitThreads -> {"idle", "sent", "asked", "active"}]
      /\ ended \in [LimitThreads -> {"limit", "other", "not"}]
  BY DEF LimitInv, BatchTypes
<1>5. /\ doing' \in [LimitThreads -> {"idle", "sent", "asked", "active"}]
      /\ t \notin late => doing'[t] = "idle"
      /\ doing'[t] # "asked" /\ CountedActive(doing') \subseteq CountedActive(doing)
  <2>1. CASE doing[t] = "asked"
    BY <1>1, <1>4, <2>1 DEF CountedActive
  <2>2. CASE doing[t] # "asked"
    BY <1>1, <1>2, <1>4, <2>2 DEF CountedActive
  <2>3. QED
    BY <2>1, <2>2
<1>6. Works(t)
  BY <1>1, <1>3, <1>4 DEF Works
<1>7. PICK counted \in SUBSET (LimitThreads \ hidden) : counted = CountedActive(doing')
  BY DEF CountedActive
<1>8. CASE /\ Captures(t, LimitObserved(Now, t, TRUE, counted), counted)
           /\ EndedBy(t, "limit")
           /\ stopped' = stopped \cup {t}
  <2>1. PICK terminal \in BOOLEAN : terminal = TRUE
    OBVIOUS
  <2>2. \/ Stays /\ (observing => t \in hidden)
        \/ /\ observing /\ t \notin hidden
           /\ Drops \/ Joins(t, {t}, counted) \/ Begins(t, {t}, counted, counted)
    <3>1. Captures(t, LimitObserved(Now, t, terminal, counted), counted)
      BY <1>8, <2>1
    <3>2. \/ Stays /\ (observing => t \in hidden)
          \/ /\ observing /\ t \notin hidden
             /\ LET term == IF terminal THEN {t} ELSE {} IN
                Drops \/ Joins(t, term, counted) \/ Begins(t, term, counted, counted)
      BY <3>1, CapturesShape
    <3>3. QED
      BY <2>1, <3>2
  <2>3. ended' \in [LimitThreads -> {"limit", "other", "not"}] /\ BatchVarTypes'
    BY <1>8, <2>2, EndedTypes, ShapeTypes
  <2>4. BatchTypes'
    BY <1>1, <1>4, <1>5, <1>8, <2>3 DEF BatchTypes, BatchVarTypes
  <2>5. batch = NoBatch /\ batch' # NoBatch =>
          ended' = [u \in LimitThreads |-> IF u = t /\ doing'[t] = "idle" THEN "limit" ELSE "not"]
    BY <1>8 DEF EndedBy
  <2>6. /\ batch # NoBatch /\ ~batch.ready /\ doing'[t] = "idle" => ended' = [ended EXCEPT ![t] = "limit"]
        /\ batch # NoBatch /\ ~(~batch.ready /\ doing'[t] = "idle") => ended' = ended
    BY <1>8 DEF EndedBy
  <2>7. batch # NoBatch => \A u \in LimitThreads \ {t} : ended'[u] = ended[u]
    BY <1>4, <2>6
  <2>8. CASE Stays /\ (observing => t \in hidden)
    <3>1. batch # NoBatch => t \notin batch.threads
      BY <2>8 DEF LimitInv, BatchThreads
    <3>2. \A u \in LimitThreads \ {t} : ended'[u] = ended[u]
      <4>1. batch = NoBatch => ended' = ended
        BY <1>8, <2>8 DEF EndedBy, Stays
      <4>2. QED
        BY <2>7, <4>1
    <3>3. QED
      BY <1>6, <1>8, <2>4, <2>6, <2>8, <3>1, <3>2, StaysKeeps
  <2>9. CASE observing /\ t \notin hidden /\ Joins(t, {t}, counted)
    <3>1. batch # NoBatch
      BY <2>9 DEF Joins
    <3>2. Gathering /\ t \notin late => ended'[t] = "limit"
      BY <1>4, <1>5, <2>6 DEF Gathering
    <3>3. batch.ready => ended' = ended
      BY <2>6, <3>1
    <3>4. QED
      BY <1>2, <1>5, <1>6, <1>7, <1>8, <2>4, <2>7, <2>9, <3>1, <3>2, <3>3, JoinsKeeps
  <2>10. CASE observing /\ t \notin hidden /\ Begins(t, {t}, counted, counted)
    <3>1. batch = NoBatch /\ batch' # NoBatch
      BY <2>10, BatchParts DEF Begins
    <3>2. SwitchBegun => (counted \cup {t}) \cap recoverIds \subseteq late
      BY <1>2, <1>5, <1>7, NoneToContinue
    <3>3. QED
      BY <1>5, <1>6, <1>7, <1>8, <2>4, <2>5, <2>10, <3>1, <3>2, BeginsKeeps
  <2>11. QED
    BY <2>2, <2>4, <2>8, <2>9, <2>10, DropsKeeps
<1>9. CASE UNCHANGED <<batchVars, journal, recoverIds, stopped>>
  <2>1. Stays /\ UNCHANGED <<stopped, ended>>
    BY <1>9 DEF batchVars, Stays
  <2>2. CASE doing[t] = "asked"
    BY <1>1, <1>3, <2>1, <2>2, AnswerKeeps
  <2>3. CASE doing[t] # "asked"
    <3>1. BatchTypes'
      BY <1>1, <2>1, <2>3 DEF LimitInv, BatchTypes, Stays
    <3>2. SwitchBegun' => SwitchBegun
      BY <1>1 DEF SwitchBegun
    <3>3. QED
      BY <1>1, <1>3, <2>1, <2>3, <3>1, <3>2, UntouchedKeeps
  <2>4. QED
    BY <2>2, <2>3
<1>10. QED
  <2>1. \/ /\ Captures(t, LimitObserved(Now, t, TRUE, counted), counted)
           /\ EndedBy(t, "limit")
           /\ stopped' = stopped \cup {t}
        \/ UNCHANGED <<batchVars, journal, recoverIds, stopped>>
    BY <1>7 DEF ContinueRefused
  <2>2. QED
    BY <1>8, <1>9, <2>1

(* The error notification: the thread is limited and still counts.            *)
LEMMA LimitErrorKeeps ==
  ASSUME LimitInv, NEW t \in LimitThreads, LimitError(t)
  PROVE  BatchTypes' /\ Kept
<1>1. /\ doing[t] = "active" /\ doing' = doing /\ UNCHANGED <<hidden, observing, switchPhase, late>>
      /\ SwitchBegun => recoverIds' \subseteq recoverIds
      /\ stopped' = stopped \cup {t} /\ EndedBy(t, "not")
  <2>1. recoverIds' \in Snapshots(t) \/ recoverIds' = Forgotten(t) \/ recoverIds' = recoverIds
    BY DEF LimitError, Captures
  <2>2. SwitchBegun => recoverIds' \subseteq recoverIds
    BY <2>1, IdsKept
  <2>3. QED
    BY <2>2 DEF LimitError
<1>2. Works(t) /\ doing'[t] = "active"
  BY <1>1 DEF Works
<1>3. /\ doing \in [LimitThreads -> {"idle", "sent", "asked", "active"}]
      /\ hidden \subseteq LimitThreads /\ stopped \subseteq LimitThreads
      /\ ended \in [LimitThreads -> {"limit", "other", "not"}]
  BY DEF LimitInv, BatchTypes
<1>4. PICK counted \in SUBSET (LimitThreads \ hidden) : counted = CountedActive(doing)
  BY DEF CountedActive
<1>5. CountedActive(doing') = counted
  BY <1>1, <1>4
<1>6. \/ Stays /\ (observing => t \in hidden)
      \/ /\ observing /\ t \notin hidden
         /\ Drops \/ Joins(t, {}, counted) \/ Begins(t, {}, counted, counted)
  <2>1. PICK terminal \in BOOLEAN : terminal = FALSE
    OBVIOUS
  <2>2. Captures(t, LimitObserved(Now, t, terminal, counted), counted)
    BY <1>4, <2>1 DEF LimitError
  <2>3. \/ Stays /\ (observing => t \in hidden)
        \/ /\ observing /\ t \notin hidden
           /\ LET term == IF terminal THEN {t} ELSE {} IN
              Drops \/ Joins(t, term, counted) \/ Begins(t, term, counted, counted)
    BY <2>2, CapturesShape
  <2>4. QED
    BY <2>1, <2>3
<1>7. ended' \in [LimitThreads -> {"limit", "other", "not"}] /\ BatchVarTypes'
  BY <1>1, <1>6, EndedTypes, ShapeTypes
<1>8. BatchTypes'
  BY <1>1, <1>3, <1>7 DEF BatchTypes, BatchVarTypes
<1>9. ~(batch = NoBatch /\ batch' # NoBatch) => ended' = ended
  BY <1>1, <1>2 DEF EndedBy
<1>10. CASE Stays /\ (observing => t \in hidden)
  <2>1. batch # NoBatch => t \notin batch.threads
    BY <1>10 DEF LimitInv, BatchThreads
  <2>2. ended' = ended
    BY <1>9, <1>10 DEF Stays
  <2>3. QED
    BY <1>1, <1>2, <1>8, <1>10, <2>1, <2>2, StaysKeeps
<1>11. CASE Drops
  BY <1>8, <1>11, DropsKeeps
<1>12. CASE observing /\ t \notin hidden /\ Joins(t, {}, counted)
  <2>1. batch # NoBatch
    BY <1>12 DEF Joins
  <2>2. {} # {t} /\ ended' = ended
    BY <1>9, <2>1
  <2>3. QED
    BY <1>1, <1>2, <1>5, <1>8, <1>12, <2>2, JoinsKeeps
<1>13. CASE observing /\ t \notin hidden /\ Begins(t, {}, counted, counted)
  <2>1. batch = NoBatch /\ batch' # NoBatch
    BY <1>13, BatchParts DEF Begins
  <2>2. ended' = [u \in LimitThreads |-> IF u = t /\ doing'[t] = "idle" THEN "limit" ELSE "not"]
    BY <1>1, <1>2, <2>1 DEF EndedBy
  <2>3. {} # {t}
    OBVIOUS
  <2>4. SwitchBegun => (counted \cup {t}) \cap recoverIds \subseteq late
    BY <1>1, <1>4, NoneToContinue DEF LimitInv, SwitchOrder
  <2>5. QED
    BY <1>1, <1>2, <1>4, <1>5, <1>8, <1>13, <2>2, <2>3, <2>4, BeginsKeeps
<1>14. QED
  BY <1>6, <1>8, <1>10, <1>11, <1>12, <1>13

(* The end of a turn: one that ends by the limit may begin a batch; one that    *)
(* fails counts as limited only if its limit was seen before.                 *)
LEMMA TurnEndsKeeps ==
  ASSUME LimitInv, NEW t \in LimitThreads, TurnEnds(t)
  PROVE  BatchTypes' /\ Kept
<1>1. doing[t] = "active" /\ Ends(t)
  <2>1. recoverIds' \in Snapshots(t) \/ recoverIds' = Forgotten(t) \/ recoverIds' = recoverIds
    BY DEF TurnEnds
  <2>2. SwitchBegun => recoverIds' \subseteq recoverIds
    BY <2>1, IdsKept
  <2>3. QED
    BY <2>2 DEF TurnEnds, Ends
<1>2. /\ Works(t) /\ doing'[t] = "idle"
      /\ doing' \in [LimitThreads -> {"idle", "sent", "asked", "active"}]
      /\ CountedActive(doing') \subseteq CountedActive(doing)
  BY <1>1, EndsWorks
<1>3. hidden' = hidden /\ hidden \subseteq LimitThreads /\ stopped \subseteq LimitThreads
      /\ observing' = observing
      /\ ended \in [LimitThreads -> {"limit", "other", "not"}]
  BY <1>1 DEF Ends, LimitInv, BatchTypes
<1>4. PICK after \in SUBSET (LimitThreads \ hidden) : after = CountedActive(doing')
  BY <1>1, EndsWorks
<1>5. PICK before \in SUBSET (LimitThreads \ hidden) : before = CountedActive(doing)
  BY <1>1, EndsWorks
<1>6. PICK status \in {"completed", "interrupted", "failed", "limit"} :
        LET b == IF status = "limit" /\ observing /\ t \notin hidden
                   THEN LimitObserved(Now, t, FALSE, before) ELSE Now
        IN /\ Becomes(EndObserved(b, t, status, after), before)
           /\ EndedBy(t, IF status = "limit" \/ (status = "failed" /\ t \in stopped)
                           THEN "limit" ELSE "other")
           /\ stopped' = IF status = "limit" THEN stopped \cup {t} ELSE stopped
  BY <1>4, <1>5 DEF TurnEnds
<1>7. PICK how \in {"limit", "other"} :
        how = IF status = "limit" \/ (status = "failed" /\ t \in stopped) THEN "limit" ELSE "other"
  OBVIOUS
<1>8. EndedBy(t, how)
  BY <1>6, <1>7
<1>9. /\ batch # NoBatch => ended' = IF ~batch.ready THEN [ended EXCEPT ![t] = how] ELSE ended
      /\ batch = NoBatch /\ batch' # NoBatch =>
           ended' = [u \in LimitThreads |-> IF u = t /\ doing'[t] = "idle" THEN how ELSE "not"]
  BY <1>2, <1>8 DEF EndedBy
<1>10. ended' \in [LimitThreads -> {"limit", "other", "not"}]
  BY <1>8, EndedTypes
<1>11. stopped \subseteq stopped' /\ stopped' \subseteq LimitThreads
  BY <1>3, <1>6
<1>12. ASSUME BatchVarTypes' PROVE BatchTypes'
  BY <1>2, <1>3, <1>10, <1>11, <1>12 DEF BatchTypes, BatchVarTypes
<1>13. CASE status = "limit" /\ observing /\ t \notin hidden
  <2>1. Becomes(EndObserved(LimitObserved(Now, t, FALSE, before), t, "limit", after), before)
    BY <1>6, <1>13
  <2>2. t \in before
    BY <1>1, <1>5, <1>13 DEF CountedActive
  <2>3. Drops \/ Joins(t, {t}, after) \/ Begins(t, {t}, before, after)
    BY <2>1, <2>2, LimitEndShape
  <2>4. BatchTypes'
    BY <1>12, <2>3, ShapeTypes
  <2>5. how = "limit" /\ stopped \cup {t} \subseteq stopped'
    BY <1>6, <1>7, <1>13
  <2>6. CASE Joins(t, {t}, after)
    <3>1. batch # NoBatch
      BY <2>6 DEF Joins
    <3>2. Gathering => /\ \A u \in LimitThreads \ {t} : ended'[u] = ended[u]
                       /\ ended'[t] = "limit"
      BY <1>3, <1>9, <2>5 DEF Gathering
    <3>3. batch.ready => ended' = ended
      BY <1>9, <3>1
    <3>4. QED
      BY <1>1, <1>2, <1>4, <1>13, <2>4, <2>5, <2>6, <3>2, <3>3, JoinsKeeps
  <2>7. CASE Begins(t, {t}, before, after)
    <3>1. batch = NoBatch /\ batch' # NoBatch
      BY <2>7, BatchParts DEF Begins
    <3>2. ended' = [u \in LimitThreads |-> IF u = t /\ doing'[t] = "idle" THEN "limit" ELSE "not"]
      BY <1>9, <2>5, <3>1
    <3>3. after \subseteq before
      BY <1>2, <1>4, <1>5
    <3>4. SwitchBegun => (before \cup {t}) \cap recoverIds \subseteq late
      BY <1>5, <2>2, NoneToContinue
    <3>5. QED
      BY <1>2, <1>4, <1>13, <2>4, <2>5, <2>7, <3>2, <3>3, <3>4, BeginsKeeps
  <2>8. QED
    BY <2>3, <2>4, <2>6, <2>7, DropsKeeps
<1>14. CASE ~(status = "limit" /\ observing /\ t \notin hidden)
  <2>1. Becomes(EndObserved(Now, t, status, after), before)
    BY <1>6, <1>14
  <2>2. \/ Drops
        \/ Stays /\ batch # NoBatch /\ t \notin batch.threads
        \/ /\ Joins(t, {t}, after) /\ status \notin {"completed", "interrupted"}
           /\ status = "limit" \/ t \in batch.limited
    BY <2>1, EndShape
  <2>3. BatchTypes'
    BY <1>12, <2>2, ShapeTypes
  <2>4. CASE Stays /\ batch # NoBatch /\ t \notin batch.threads
    <3>1. \A u \in LimitThreads \ {t} : ended'[u] = ended[u]
      BY <1>3, <1>9, <2>4
    <3>2. batch # NoBatch /\ batch.ready => ended' = ended
      BY <1>9
    <3>3. QED
      BY <1>2, <1>11, <2>3, <2>4, <3>1, <3>2, StaysKeeps
  <2>5. CASE /\ Joins(t, {t}, after) /\ status \notin {"completed", "interrupted"}
             /\ status = "limit" \/ t \in batch.limited
    <3>1. batch # NoBatch /\ observing /\ t \notin hidden
      BY <2>5 DEF Joins, LimitInv, BatchThreads
    <3>2. status = "failed" /\ t \in batch.limited
      BY <1>14, <2>5, <3>1
    <3>3. Gathering /\ t \notin late => t \in stopped
      BY <3>2, GatheringSays DEF LimitedStop
    <3>4. Gathering /\ t \notin late => how = "limit" /\ t \in stopped'
      BY <1>7, <1>11, <3>2, <3>3
    <3>5. /\ Gathering /\ t \notin late => ended'[t] = "limit"
          /\ Gathering => \A u \in LimitThreads \ {t} : ended'[u] = ended[u]
      BY <1>3, <1>9, <3>4 DEF Gathering
    <3>6. batch.ready => ended' = ended
      BY <1>9, <3>1
    <3>7. QED
      BY <1>1, <1>2, <1>4, <1>11, <2>3, <2>5, <3>1, <3>4, <3>5, <3>6, JoinsKeeps
  <2>6. QED
    BY <2>2, <2>3, <2>4, <2>5, DropsKeeps
<1>15. QED
  BY <1>13, <1>14

(* An accepted start: its thread counted before, unless it was a Continue, and  *)
(* then a switch continues or the batch does not gather.                     *)
LEMMA StartAcceptedKeeps ==
  ASSUME LimitInv, NEW t \in LimitThreads, StartAccepted(t)
  PROVE  BatchTypes' /\ Kept
<1>1. /\ doing[t] \in {"sent", "asked"} \/ (awaited = t /\ ~granted)
      /\ doing' = [doing EXCEPT ![t] = "active"]
      /\ stopped' = IF doing[t] = "sent" THEN stopped ELSE stopped \ {t}
      /\ Stays /\ UNCHANGED <<hidden, observing, ended, switchPhase, recoverIds, late>>
  BY DEF StartAccepted, Stays, batchVars
<1>2. /\ doing' \in [LimitThreads -> {"idle", "sent", "asked", "active"}]
      /\ doing'[t] = "active" /\ \A u \in LimitThreads \ {t} : doing'[u] = doing[u]
  BY <1>1 DEF LimitInv, BatchTypes
<1>3. BatchTypes'
  BY <1>1, <1>2 DEF LimitInv, BatchTypes, Stays
<1>4. CASE ~Gathering
  BY <1>1, <1>3, <1>4, StillKeeps
<1>5. CASE Gathering
  <2>1. BatchThreads' /\ ReadyMeansExhausted'
    BY <1>1 DEF LimitInv, BatchThreads, ReadyMeansExhausted, Stays
  <2>2. t \notin late => doing[t] \in {"sent", "asked"}
    BY <1>1 DEF LimitInv, SwitchOrder
  <2>3. switchPhase # "continuing" => AllInBatch'
    <3>1. SUFFICES ASSUME switchPhase # "continuing" PROVE AllInBatch'
      OBVIOUS
    <3>2. AllInBatch
      BY <1>5, <3>1, GatheringSays
    <3>3. awaited # t
      BY <3>1, UsageLimitAssumption DEF LimitInv, SwitchOrder
    <3>4. doing[t] = "sent"
      BY <1>1, <3>2, <3>3 DEF AllInBatch
    <3>5. (CountedActive(doing))' = CountedActive(doing)
      BY <1>1, <1>2, <3>4 DEF CountedActive
    <3>6. QED
      BY <1>1, <1>2, <3>2, <3>5 DEF AllInBatch, Stays
  <2>4. LimitedStop'
    <3>1. SUFFICES ASSUME NEW u \in batch.limited \ late
                   PROVE  doing'[u] \notin {"sent", "asked"} /\ u \in stopped'
      BY <1>1 DEF LimitedStop, Stays
    <3>2. u \in LimitThreads /\ doing[u] \notin {"sent", "asked"} /\ u \in stopped
      BY <1>5, <3>1, GatheringSays DEF LimitedStop
    <3>3. u # t
      BY <2>2, <3>1, <3>2
    <3>4. QED
      BY <1>1, <1>2, <3>2, <3>3
  <2>5. TerminalEnd'
    <3>1. SUFFICES ASSUME NEW u \in batch.terminal \ late
                   PROVE  doing'[u] = "idle" /\ ended[u] = "limit"
      BY <1>1 DEF TerminalEnd, Stays
    <3>2. u \in LimitThreads /\ doing[u] = "idle" /\ ended[u] = "limit"
      BY <1>5, <3>1, GatheringSays DEF TerminalEnd
    <3>3. u # t
      BY <2>2, <3>1, <3>2
    <3>4. QED
      BY <1>2, <3>2, <3>3
  <2>6. SwitchBegun' => batch'.threads \cap recoverIds' \subseteq late'
    BY <1>1, <1>5, GatheringSays DEF SwitchBegun, Stays
  <2>7. QED
    BY <1>1, <1>3, <2>1, <2>3, <2>4, <2>5, <2>6 DEF Kept, BatchGathers
<1>6. QED
  BY <1>4, <1>5

(* A thread found to be hidden takes its batch with it.                      *)
LEMMA ClassifiedKeeps ==
  ASSUME LimitInv, NEW t \in LimitThreads, Classified(t)
  PROVE  BatchTypes' /\ Kept
<1>1. /\ t \notin hidden /\ hidden' = hidden \cup {t}
      /\ UNCHANGED <<doing, observing, stopped, atStart, unseen, ended, switchPhase, late>>
      /\ recoverIds' \subseteq recoverIds
      /\ IF batch # NoBatch /\ t \in batch.threads
           THEN batch' = NoBatch /\ suppressed' = TRUE /\ batchAge' = 0
           ELSE UNCHANGED <<batch, suppressed, batchAge>>
  BY DEF Classified, Forgotten
<1>2. hidden' \subseteq LimitThreads
  BY <1>1 DEF LimitInv, BatchTypes
<1>3. BatchTypes'
  <2>1. /\ batch \in Batches \cup {NoBatch} /\ suppressed \in BOOLEAN /\ batchAge \in 0..2
        /\ doing \in [LimitThreads -> {"idle", "sent", "asked", "active"}]
        /\ stopped \subseteq LimitThreads /\ atStart \subseteq LimitThreads /\ unseen \in BOOLEAN
        /\ ended \in [LimitThreads -> {"limit", "other", "not"}]
    BY DEF LimitInv, BatchTypes
  <2>2. suppressed' \in BOOLEAN
    BY <1>1, <2>1, Zenon
  <2>3. batch' \in Batches \cup {NoBatch} /\ batchAge' \in 0..2
    BY <1>1, <2>1
  <2>4. QED
    BY <1>1, <1>2, <2>1, <2>2, <2>3 DEF BatchTypes
<1>4. CASE batch # NoBatch /\ t \in batch.threads
  <2>1. Drops
    BY <1>1, <1>4 DEF Drops
  <2>2. QED
    BY <1>3, <2>1, DropsKeeps
<1>5. CASE ~(batch # NoBatch /\ t \in batch.threads)
  <2>1. UNCHANGED <<batch, suppressed, batchAge, atStart, unseen>>
    BY <1>1, <1>5
  <2>2. BatchThreads'
    BY <1>1, <1>5, <2>1 DEF LimitInv, BatchThreads
  <2>3. ReadyMeansExhausted'
    BY <1>1, <2>1 DEF LimitInv, ReadyMeansExhausted
  <2>4. ASSUME Gathering' PROVE BatchGathers'
    <3>1. Gathering
      BY <2>1, <2>4 DEF Gathering
    <3>2. switchPhase # "continuing" => AllInBatch'
      <4>1. (CountedActive(doing))' = CountedActive(doing) \ {t}
        BY <1>1 DEF CountedActive
      <4>2. t \notin batch.threads
        BY <1>5, <3>1 DEF Gathering
      <4>3. QED
        BY <1>1, <2>1, <3>1, <4>1, <4>2, GatheringSays DEF AllInBatch
    <3>3. LimitedStop' /\ TerminalEnd'
      BY <1>1, <2>1, <3>1, GatheringSays DEF LimitedStop, TerminalEnd
    <3>4. SwitchBegun' => batch'.threads \cap recoverIds' \subseteq late'
      BY <1>1, <2>1, <3>1, GatheringSays DEF SwitchBegun
    <3>5. QED
      BY <1>1, <3>2, <3>3, <3>4 DEF BatchGathers
  <2>5. QED
    BY <1>3, <2>2, <2>3, <2>4 DEF Kept, BatchGathers
<1>6. QED
  BY <1>4, <1>5

(* The manager's question may make the batch ready, or drop it; before the      *)
(* deadline only when all its threads are terminal.                          *)
LEMMA StatusReadKeeps ==
  ASSUME LimitInv, StatusRead
  PROVE  BatchTypes' /\ Kept
<1>1. /\ batch # NoBatch
      /\ UNCHANGED <<doing, hidden, observing, stopped, ended, switchPhase, recoverIds, late>>
      /\ Becomes(IF batchAge = 2 THEN Suppressed ELSE Finalized(Now, CountedActive(doing)), {})
  BY DEF StatusRead
<1>2. PICK b : b = IF batchAge = 2 THEN Suppressed ELSE Finalized(Now, CountedActive(doing))
  OBVIOUS
<1>3. /\ batch' = b.batch /\ suppressed' = b.suppressed /\ UNCHANGED <<atStart, unseen>>
      /\ batchAge' = IF b.batch = NoBatch THEN 0 ELSE batchAge
  BY <1>1, <1>2 DEF Becomes
<1>4. /\ b \in BatchRecords
      /\ \/ b.batch = NoBatch
         \/ /\ b.batch \in Batches
            /\ SameThreads(b.batch, batch)
            /\ ReadyOnlyWhen(b.batch, batch, CountedActive(doing))
  <2>1. CASE batchAge = 2
    BY <1>2, <2>1 DEF Suppressed, BatchRecords
  <2>2. CASE batchAge # 2
    <3>1. b = Finalized(Now, CountedActive(doing))
      BY <1>2, <2>2
    <3>2. QED
      BY <1>1, <3>1, NowIs, FinalizedIs
  <2>3. QED
    BY <2>1, <2>2
<1>5. BatchTypes'
  <2>1. /\ batch' \in Batches \cup {NoBatch} /\ suppressed' \in BOOLEAN
    BY <1>3, <1>4 DEF BatchRecords
  <2>2. batchAge' \in 0..2
    BY <1>3 DEF LimitInv, BatchTypes
  <2>3. QED
    BY <1>1, <1>3, <2>1, <2>2 DEF LimitInv, BatchTypes
<1>6. CASE b.batch = NoBatch
  <2>1. Drops
    BY <1>3, <1>4, <1>6 DEF Drops, BatchRecords
  <2>2. QED
    BY <1>5, <2>1, DropsKeeps
<1>7. CASE b.batch # NoBatch
  <2>1. /\ batch' \in Batches /\ batch' # NoBatch /\ batchAge' = batchAge
        /\ SameThreads(batch', batch)
        /\ ReadyOnlyWhen(batch', batch, CountedActive(doing))
    BY <1>3, <1>4, <1>7
  <2>2. BatchThreads'
    BY <1>1, <1>3, <2>1 DEF LimitInv, BatchThreads, SameThreads
  <2>3. Gathering' => Gathering
    BY <1>1, <1>3, <2>1 DEF Gathering, ReadyOnlyWhen
  <2>4. ASSUME Gathering' PROVE BatchGathers'
    <3>1. switchPhase # "continuing" => AllInBatch'
      BY <1>1, <2>1, <2>3, <2>4, GatheringSays DEF AllInBatch, SameThreads, CountedActive
    <3>2. LimitedStop' /\ TerminalEnd'
      BY <1>1, <2>1, <2>3, <2>4, GatheringSays DEF LimitedStop, TerminalEnd, SameThreads
    <3>3. SwitchBegun' => batch'.threads \cap recoverIds' \subseteq late'
      BY <1>1, <2>1, <2>3, <2>4, GatheringSays DEF SwitchBegun, SameThreads
    <3>4. QED
      BY <1>1, <3>1, <3>2, <3>3 DEF BatchGathers
  <2>5. ReadyMeansExhausted'
    <3>1. SUFFICES ASSUME batch'.ready, batchAge = 0, ~unseen, NEW u \in atStart \ (hidden \cup late)
                   PROVE  ended[u] = "limit"
      BY <1>1, <1>3, <2>1 DEF ReadyMeansExhausted
    <3>2. CASE batch.ready
      BY <1>1, <3>1, <3>2 DEF LimitInv, ReadyMeansExhausted
    <3>3. CASE ~batch.ready
      <4>1. Gathering
        BY <1>1, <3>1, <3>3 DEF Gathering
      <4>2. batch.terminal = batch.threads
        BY <2>1, <3>1, <3>3 DEF ReadyOnlyWhen, SameThreads
      <4>3. u \in batch.threads
        BY <1>1, <3>1 DEF LimitInv, BatchThreads
      <4>4. QED
        BY <3>1, <4>1, <4>2, <4>3, GatheringSays DEF TerminalEnd
    <3>4. QED
      BY <3>2, <3>3
  <2>6. QED
    BY <1>5, <2>2, <2>4, <2>5 DEF Kept, BatchGathers
<1>8. QED
  BY <1>6, <1>7

(* Work that begins, a new configuration and a switch that is done all drop the *)
(* batch.                                                                   *)
LEMMA DroppingKeeps ==
  ASSUME LimitInv,
         (\E t \in LimitThreads : StartOfWork(t)) \/ Configured \/ LimitSwitchDone
  PROVE  BatchTypes' /\ Kept
<1>1. Drops
  BY DEF StartOfWork, Configured, LimitSwitchDone, Drops
<1>2. UNCHANGED <<hidden, ended>> /\ stopped' \subseteq stopped
  BY DEF StartOfWork, Configured, LimitSwitchDone
<1>3. doing' \in [LimitThreads -> {"idle", "sent", "asked", "active"}]
  BY DEF LimitInv, BatchTypes, StartOfWork, Configured, LimitSwitchDone
<1>4. BatchTypes'
  <2>1. /\ batch' = NoBatch /\ suppressed' \in BOOLEAN /\ batchAge' \in 0..2
        /\ UNCHANGED <<atStart, unseen>>
    BY <1>1 DEF Drops
  <2>2. QED
    BY <1>2, <1>3, <2>1 DEF LimitInv, BatchTypes
<1>5. QED
  BY <1>1, <1>4, DropsKeeps

(* A Continue goes to a thread that is not in a batch that gathers.           *)
LEMMA LimitSwitchContinuesKeeps ==
  ASSUME LimitInv, NEW t \in LimitThreads, LimitSwitchContinues(t)
  PROVE  BatchTypes' /\ Kept
<1>1. /\ switchPhase = "continuing" /\ t \in recoverIds /\ recoverIds' = recoverIds \ {t}
      /\ doing' = IF doing[t] = "idle" THEN [doing EXCEPT ![t] = "asked"] ELSE doing
      /\ Stays /\ UNCHANGED <<hidden, observing, stopped, ended, switchPhase, late>>
  BY DEF LimitSwitchContinues, batchVars, Stays
<1>2. /\ doing' \in [LimitThreads -> {"idle", "sent", "asked", "active"}]
      /\ \A u \in LimitThreads \ {t} : doing'[u] = doing[u]
  BY <1>1 DEF LimitInv, BatchTypes
<1>3. BatchTypes'
  BY <1>1, <1>2 DEF LimitInv, BatchTypes, Stays
<1>4. BatchThreads' /\ ReadyMeansExhausted'
  BY <1>1 DEF LimitInv, BatchThreads, ReadyMeansExhausted, Stays
<1>5. ASSUME Gathering' PROVE BatchGathers'
  <2>1. Gathering
    BY <1>1, <1>5 DEF Gathering, Stays
  <2>2. t \notin late => t \notin batch.threads
    BY <1>1, <2>1, GatheringSays DEF SwitchBegun
  <2>3. LimitedStop' /\ TerminalEnd'
    BY <1>1, <1>2, <2>1, <2>2, GatheringSays DEF LimitedStop, TerminalEnd, Stays
  <2>4. SwitchBegun' => batch'.threads \cap recoverIds' \subseteq late'
    BY <1>1, <2>1, GatheringSays DEF SwitchBegun, Stays
  <2>5. QED
    BY <1>1, <2>3, <2>4 DEF BatchGathers
<1>6. QED
  BY <1>3, <1>4, <1>5 DEF Kept, BatchGathers

(* A refusal that comes too late is of no batch that gathers, either.         *)
LEMMA LateRefusalKeeps ==
  ASSUME LimitInv, NEW t \in LimitThreads, LateRefusal(t)
  PROVE  BatchTypes' /\ Kept
BY AnswerKeeps DEF LateRefusal, batchVars, Stays

(* A switch begins when nothing counts, and then no batch gathers.            *)
LEMMA LimitSwitchBeginsKeeps ==
  ASSUME LimitInv, LimitSwitchBegins
  PROVE  BatchTypes' /\ Kept
<1>1. /\ switchPhase = "pending" /\ \A u \in LimitThreads : doing[u] \in {"idle", "asked"}
      /\ Stays /\ UNCHANGED <<doing, hidden, observing, stopped, ended, late>>
  BY DEF LimitSwitchBegins, batchVars, Stays
<1>2. CountedActive(doing) = {}
  BY <1>1 DEF CountedActive
<1>3. ~Gathering
  BY <1>1, <1>2, GatheringSays DEF AllInBatch
<1>4. BatchTypes'
  BY <1>1 DEF LimitInv, BatchTypes, Stays
<1>5. QED
  BY <1>1, <1>3, <1>4, StillKeeps

(* Time, which only takes the batch further from what is asked of it, and the     *)
(* steps of a switch that do not concern the batch.                          *)
SwitchOnly ==
  \/ LimitSwitchFails \/ LimitSwitchLoggedIn \/ UNCHANGED limitVars
  \/ \E t \in LimitThreads : LimitSwitchSkips(t) \/ ContinueSettled(t) \/ ContinueTimesOut(t)
LEMMA OtherStepsKeep ==
  ASSUME LimitInv, BatchAges \/ LimitSwitchAsked \/ SwitchOnly
  PROVE  BatchTypes' /\ Kept
<1>1. CASE BatchAges
  <2>1. /\ batch # NoBatch /\ batchAge' \in {1, 2}
        /\ UNCHANGED <<doing, batch, suppressed, hidden, observing, stopped, atStart, unseen, ended,
                       switchPhase, recoverIds, late>>
    BY <1>1 DEF BatchAges
  <2>2. BatchTypes'
    BY <2>1 DEF LimitInv, BatchTypes
  <2>3. BatchThreads' /\ ReadyMeansExhausted'
    BY <2>1 DEF LimitInv, BatchThreads, ReadyMeansExhausted
  <2>4. BatchGathers'
    BY <2>1 DEF LimitInv, BatchGathers, Gathering, CountedActive, AllInBatch, LimitedStop,
                TerminalEnd, SwitchBegun
  <2>5. QED
    BY <2>2, <2>3, <2>4 DEF Kept
<1>2. CASE LimitSwitchAsked /\ batchAge = 2
  <2>1. Drops /\ UNCHANGED <<doing, hidden, observing, stopped, ended>>
    BY <1>2 DEF LimitSwitchAsked, Drops
  <2>2. BatchTypes'
    BY <2>1 DEF LimitInv, BatchTypes, Drops
  <2>3. QED
    BY <2>1, <2>2, DropsKeeps
<1>3. CASE LimitSwitchAsked /\ batchAge # 2
  <2>1. /\ Stays /\ UNCHANGED <<doing, hidden, observing, stopped, ended, late>>
        /\ switchPhase = "none" /\ ~SwitchBegun'
    BY <1>3 DEF LimitSwitchAsked, Stays, SwitchBegun
  <2>2. BatchTypes'
    BY <2>1 DEF LimitInv, BatchTypes, Stays
  <2>3. QED
    BY <2>1, <2>2, UntouchedKeeps
<1>4. CASE SwitchOnly
  <2>1. /\ Stays /\ UNCHANGED <<doing, hidden, observing, stopped, ended>> /\ late \subseteq late'
        /\ switchPhase' # "continuing" => switchPhase # "continuing"
        /\ SwitchBegun' => SwitchBegun /\ recoverIds' \subseteq recoverIds
    BY <1>4 DEF SwitchOnly, LimitSwitchFails, LimitSwitchLoggedIn, LimitSwitchSkips,
                ContinueSettled, ContinueTimesOut, limitVars, batchVars, Stays, SwitchBegun
  <2>2. BatchTypes'
    BY <2>1 DEF LimitInv, BatchTypes, Stays
  <2>3. QED
    BY <2>1, <2>2, UntouchedKeeps
<1>5. QED
  BY <1>1, <1>2, <1>3, <1>4

-----------------------------------------------------------------------------
(* The order of a switch, apart from the batch.                              *)

LEMMA SwitchStays ==
  ASSUME LimitInv, [LimitNext]_limitVars
  PROVE  SwitchOrder'
<1>1. /\ doing \in [LimitThreads -> {"idle", "sent", "asked", "active"}] /\ SwitchOrder
      /\ \A u \in LimitThreads : u # NoThread
  BY UsageLimitAssumption DEF LimitInv, BatchTypes
<1>2. ASSUME NEW t \in LimitThreads, StartOfWork(t) PROVE SwitchOrder'
  BY <1>1, <1>2 DEF StartOfWork, SwitchOrder, SwitchBegun
<1>3. ASSUME NEW t \in LimitThreads, StartAccepted(t) PROVE SwitchOrder'
  BY <1>1, <1>3 DEF StartAccepted, SwitchOrder, SwitchBegun
<1>4. ASSUME NEW t \in LimitThreads, StartRefused(t) \/ LimitError(t) \/ TurnEnds(t) \/ Classified(t)
      PROVE  SwitchOrder'
  <2>1. UNCHANGED <<switchPhase, awaited, granted, late>>
    BY <1>4 DEF StartRefused, LimitError, TurnEnds, Classified
  <2>2. recoverIds' \in Snapshots(t) \/ recoverIds' = Forgotten(t) \/ recoverIds' = recoverIds
    BY <1>4 DEF StartRefused, LimitError, TurnEnds, Classified, Captures
  <2>3. doing' = doing \/ (doing' = [doing EXCEPT ![t] = "idle"] /\ doing[t] # "asked")
    BY <1>4 DEF StartRefused, LimitError, TurnEnds, Classified
  <2>4. SwitchBegun => recoverIds' = recoverIds
    BY <2>2, IdsKept
  <2>5. QED
    BY <1>1, <2>1, <2>3, <2>4 DEF SwitchOrder, SwitchBegun
<1>5. ASSUME NEW t \in LimitThreads, ContinueRefused(t) PROVE SwitchOrder'
  <2>1. /\ awaited = t /\ ~granted /\ awaited' = NoThread
        /\ doing' = IF doing[t] = "asked" THEN [doing EXCEPT ![t] = "idle"] ELSE doing
        /\ UNCHANGED <<switchPhase, granted, late>>
    BY <1>5 DEF ContinueRefused
  <2>2. recoverIds' \in Snapshots(t) \/ recoverIds' = Forgotten(t) \/ recoverIds' = recoverIds
    BY <1>5 DEF ContinueRefused, Captures
  <2>3. recoverIds' = recoverIds
    BY <1>1, <2>1, <2>2, IdsKept DEF SwitchOrder, SwitchBegun
  <2>4. QED
    BY <1>1, <2>1, <2>3 DEF SwitchOrder, SwitchBegun
<1>6. ASSUME NEW t \in LimitThreads, LimitSwitchContinues(t) PROVE SwitchOrder'
  BY <1>1, <1>6 DEF LimitSwitchContinues, SwitchOrder, SwitchBegun
<1>7. ASSUME NEW t \in LimitThreads, LimitSwitchSkips(t) \/ ContinueSettled(t) \/ ContinueTimesOut(t)
      PROVE  SwitchOrder'
  BY <1>1, <1>7 DEF LimitSwitchSkips, ContinueSettled, ContinueTimesOut, SwitchOrder, SwitchBegun
<1>8. ASSUME NEW t \in LimitThreads, LateRefusal(t) PROVE SwitchOrder'
  BY <1>1, <1>8 DEF LateRefusal, SwitchOrder, SwitchBegun
<1>9. CASE LimitSwitchAsked \/ LimitSwitchBegins \/ LimitSwitchLoggedIn \/ LimitSwitchFails
           \/ LimitSwitchDone
  BY <1>1, <1>9 DEF LimitSwitchAsked, LimitSwitchBegins, LimitSwitchLoggedIn, LimitSwitchFails,
                    LimitSwitchDone, SwitchOrder, SwitchBegun
<1>10. CASE BatchAges \/ StatusRead \/ Configured \/ UNCHANGED limitVars
  BY <1>1, <1>10 DEF BatchAges, StatusRead, Configured, limitVars, SwitchOrder, SwitchBegun
<1>11. QED
  BY <1>2, <1>3, <1>4, <1>5, <1>6, <1>7, <1>8, <1>9, <1>10 DEF LimitNext

-----------------------------------------------------------------------------
(* The inductive invariant of the batch: while it gathers, some thread of it    *)
(* still counts and every terminal one has ended by the limit.               *)
THEOREM LimitIsOrderly == LimitSpec => []LimitInv
<1>1. LimitInit => LimitInv
  <2>1. SUFFICES ASSUME LimitInit PROVE LimitInv
    OBVIOUS
  <2>2. BatchTypes
    <3>1. /\ doing \in [LimitThreads -> {"idle", "sent", "asked", "active"}]
          /\ ended \in [LimitThreads -> {"limit", "other", "not"}]
      BY <2>1 DEF LimitInit
    <3>2. /\ batch = NoBatch /\ batchAge = 0
          /\ hidden = {} /\ stopped = {} /\ atStart = {}
      BY <2>1 DEF LimitInit
    <3>3. suppressed \in BOOLEAN /\ unseen \in BOOLEAN
      BY <2>1, Zenon DEF LimitInit
    <3>4. QED
      BY <3>1, <3>2, <3>3 DEF BatchTypes
  <2>3. BatchThreads /\ BatchGathers /\ ReadyMeansExhausted
    BY <2>1 DEF LimitInit, BatchThreads, BatchGathers, Gathering, ReadyMeansExhausted
  <2>4. SwitchOrder
    BY <2>1, UsageLimitAssumption DEF LimitInit, SwitchOrder, SwitchBegun
  <2>5. QED
    BY <2>2, <2>3, <2>4 DEF LimitInv
<1>2. LimitInv /\ [LimitNext]_limitVars => LimitInv'
  <2>1. SUFFICES ASSUME LimitInv, [LimitNext]_limitVars PROVE BatchTypes' /\ Kept
    BY SwitchStays DEF LimitInv, Kept
  <2>2. ASSUME NEW t \in LimitThreads, StartAccepted(t) PROVE BatchTypes' /\ Kept
    BY <2>1, <2>2, StartAcceptedKeeps
  <2>3. ASSUME NEW t \in LimitThreads, StartRefused(t) PROVE BatchTypes' /\ Kept
    BY <2>1, <2>3, StartRefusedKeeps
  <2>4. ASSUME NEW t \in LimitThreads, LimitError(t) PROVE BatchTypes' /\ Kept
    BY <2>1, <2>4, LimitErrorKeeps
  <2>5. ASSUME NEW t \in LimitThreads, TurnEnds(t) PROVE BatchTypes' /\ Kept
    BY <2>1, <2>5, TurnEndsKeeps
  <2>6. ASSUME NEW t \in LimitThreads, Classified(t) PROVE BatchTypes' /\ Kept
    BY <2>1, <2>6, ClassifiedKeeps
  <2>7. ASSUME NEW t \in LimitThreads, LimitSwitchContinues(t) PROVE BatchTypes' /\ Kept
    BY <2>1, <2>7, LimitSwitchContinuesKeeps
  <2>8. CASE StatusRead
    BY <2>1, <2>8, StatusReadKeeps
  <2>9. CASE (\E t \in LimitThreads : StartOfWork(t)) \/ Configured \/ LimitSwitchDone
    BY <2>1, <2>9, DroppingKeeps
  <2>10. ASSUME NEW t \in LimitThreads, ContinueRefused(t) PROVE BatchTypes' /\ Kept
    BY <2>1, <2>10, ContinueRefusedKeeps
  <2>11. ASSUME NEW t \in LimitThreads, LateRefusal(t) PROVE BatchTypes' /\ Kept
    BY <2>1, <2>11, LateRefusalKeeps
  <2>12. CASE LimitSwitchBegins
    BY <2>1, <2>12, LimitSwitchBeginsKeeps
  <2>13. CASE BatchAges \/ LimitSwitchAsked \/ SwitchOnly
    BY <2>1, <2>13, OtherStepsKeep
  <2>14. QED
    BY <2>1, <2>2, <2>3, <2>4, <2>5, <2>6, <2>7, <2>8, <2>9, <2>10, <2>11, <2>12, <2>13
       DEF LimitNext, SwitchOnly
<1>3. QED
  BY <1>1, <1>2, PTL DEF LimitSpec

(* A batch is ready before its deadline only when every thread at work when it  *)
(* was made has ended by the limit (ReadyMeansExhausted): all but the hidden    *)
(* ones and those whose Continue was given up, and for the batches that were    *)
(* not made beside an unanswered Continue.                                     *)
THEOREM ReadyIsExhausted == LimitSpec => []ReadyMeansExhausted
<1>1. LimitInv => ReadyMeansExhausted
  BY DEF LimitInv
<1>2. QED
  BY <1>1, LimitIsOrderly, PTL
=============================================================================
