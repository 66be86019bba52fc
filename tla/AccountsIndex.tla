--------------------------- MODULE AccountsIndex ---------------------------
(***************************************************************************)
(* The index of accounts that several extension hosts share as one file     *)
(* (src/storage/accountsWriteCoordinator.ts with readIndex and writeIndex of *)
(* src/storage/accounts.ts).  A host edits a copy, keeps it as its pending   *)
(* save, and merges it with the file some 100 ms later, under the write lock *)
(* of FileLease, in which read, merge and rename are one step for the others.*)
(* An index is its current account and, for each account, its record: one    *)
(* field for the edits of each host, and the time of the last edit.          *)
(***************************************************************************)
EXTENDS Naturals, Sequences

CONSTANTS
  IndexHosts,     \* the extension hosts
  IndexAccounts,  \* the accounts
  FirstAccounts,  \* those in the file at first
  NoAccount, Absent, NoIndex,
  MaxEdits,       \* bound: edits of all hosts together
  MaxFailures     \* bound: saves that fail

AccountRecords == [field: [IndexHosts -> 0..MaxEdits], at: 0..MaxEdits]
Indexes == [current: IndexAccounts \cup {NoAccount}, acc: [IndexAccounts -> AccountRecords \cup {Absent}]]

(* Absent and NoIndex stand for what is not there: they are no records.        *)
ASSUME AccountsIndexAssumption ==
  /\ FirstAccounts \subseteq IndexAccounts /\ NoAccount \notin IndexAccounts
  /\ MaxEdits \in Nat /\ MaxFailures \in Nat
  /\ Absent \notin AccountRecords
  /\ NoIndex \notin Indexes \cup [ix: Indexes, base: Indexes]

VARIABLES
  diskIndex,   \* the index in the file
  cacheIndex,  \* state.cache of each host
  pendSave,    \* state.pendingSave and pendingSaveBase of each host
  saveTimer,   \* hosts whose debounce timer runs
  saveChain,   \* snapshots each host has still to persist, in order
  lateSave,    \* the save a disposed host retries, once
  savedAs,     \* the merged index of a save that has not been settled yet
  slowEdit,    \* the copy an edit holds that awaits something before it writes
  disposed,    \* hosts whose repository is disposed of
  dropped,     \* those whose last save has failed: nobody tries it again
  edits, failures,  \* counters of edits and of failed saves
  touched,     \* the last edit of each host to each account, as the host made it
  added,       \* the hosts that have added each account
  removed,     \* accounts some host has removed
  overtaken    \* a save or an edit has been overtaken by a later one of its host

indexVars ==
  <<diskIndex, cacheIndex, pendSave, saveTimer, saveChain, lateSave, savedAs, slowEdit,
    disposed, dropped, edits, failures, touched, added, removed, overtaken>>

EmptyIndex == [current |-> NoAccount, acc |-> [a \in IndexAccounts |-> Absent]]
Later(m, n) == IF m >= n THEN m ELSE n

IndexInit ==
  /\ diskIndex = [current |-> NoAccount,
                  acc |-> [a \in IndexAccounts |->
                             IF a \in FirstAccounts
                               THEN [field |-> [h \in IndexHosts |-> 0], at |-> 0]
                               ELSE Absent]]
  /\ cacheIndex = [h \in IndexHosts |-> NoIndex]
  /\ pendSave = [h \in IndexHosts |-> NoIndex]
  /\ saveTimer = {} /\ disposed = {} /\ dropped = {} /\ removed = {}
  /\ saveChain = [h \in IndexHosts |-> <<>>]
  /\ lateSave = [h \in IndexHosts |-> NoIndex]
  /\ savedAs = [h \in IndexHosts |-> NoIndex]
  /\ slowEdit = [h \in IndexHosts |-> NoIndex]
  /\ edits = 0 /\ failures = 0
  /\ touched = [h \in IndexHosts |-> [a \in IndexAccounts |-> 0]]
  /\ added = [a \in IndexAccounts |-> {}]
  /\ overtaken = FALSE

-----------------------------------------------------------------------------
(* The three-way merge.                                                      *)

(* A field only one side has changed is that side's; of two changes the one  *)
(* in the younger record is kept.                                            *)
MergeRecord(base, local, latest) ==
  [field |-> [h \in IndexHosts |->
                IF local.field[h] = base.field[h] THEN latest.field[h]
                ELSE IF latest.field[h] = base.field[h] \/ local.at >= latest.at
                       THEN local.field[h] ELSE latest.field[h]],
   at |-> Later(local.at, latest.at)]

(* Faulty: the merge does not go into the fields of a record.                 *)
FaultyMergeAccount(base, local, latest) ==
  IF base # Absent /\ (local = Absent \/ latest = Absent) THEN Absent
  ELSE IF local = Absent \/ (latest # Absent /\ latest.at > local.at) THEN latest ELSE local

(* Removal wins; of two new records of one account the younger is kept whole. *)
MergeAccount(base, local, latest) ==
  IF base # Absent
    THEN IF local = Absent \/ latest = Absent THEN Absent ELSE MergeRecord(base, local, latest)
    ELSE IF local = Absent THEN latest
         ELSE IF latest = Absent \/ local.at >= latest.at THEN local ELSE latest

MergeIndex(base, local, latest) ==
  LET acc == [a \in IndexAccounts |-> MergeAccount(base.acc[a], local.acc[a], latest.acc[a])]
      current == IF local.current = base.current THEN latest.current ELSE local.current
  IN [current |-> IF current # NoAccount /\ acc[current] = Absent THEN NoAccount ELSE current,
      acc |-> acc]

-----------------------------------------------------------------------------
(* One host.                                                                 *)

(* readIndex: the pending save, else the cache unless it is too old, else    *)
(* the file.                                                                 *)
Readable(h) ==
  IF pendSave[h] # NoIndex THEN {pendSave[h].ix}
  ELSE {diskIndex} \cup (IF cacheIndex[h] = NoIndex THEN {} ELSE {cacheIndex[h]})

(* The kinds of edits: a field of an account, the removal or the addition of *)
(* one, and the switch to it.                                                *)
Edited(h, ix, a, kind) ==
  IF kind \in {"set", "reset"}
    THEN [ix EXCEPT !.acc[a].field[h] = IF kind = "set" THEN edits + 1 ELSE 0, !.acc[a].at = edits + 1]
  ELSE IF kind = "remove"
    THEN [ix EXCEPT !.acc[a] = Absent, !.current = IF @ = a THEN NoAccount ELSE @]
  ELSE IF kind = "add"
    THEN [ix EXCEPT !.acc[a] = [field |-> [o \in IndexHosts |-> IF o = h THEN edits + 1 ELSE 0],
                                at |-> edits + 1]]
  ELSE [ix EXCEPT !.current = a]

Editable(ix, a, kind) ==
  IF kind = "add" THEN ix.acc[a] = Absent /\ a \notin removed ELSE ix.acc[a] # Absent

(* Faulty: only the first edit of a pending save sets its timer.              *)
FaultyWriteIndex(h, ix, cache) ==
  /\ pendSave' = [pendSave EXCEPT ![h] =
                    [ix |-> ix,
                     base |-> IF @ # NoIndex THEN @.base
                              ELSE IF cache = NoIndex THEN EmptyIndex ELSE cache]]
  /\ saveChain' = [saveChain EXCEPT ![h] = [i \in DOMAIN @ |-> [@[i] EXCEPT !.live = FALSE]]]
  /\ cacheIndex' = [cacheIndex EXCEPT ![h] = ix]
  /\ saveTimer' = IF pendSave[h] = NoIndex THEN saveTimer \cup {h} ELSE saveTimer

(* writeIndex: the first pending save is based on the cache as it is now,     *)
(* on the empty index without one.                                           *)
WriteIndex(h, ix, cache) ==
  /\ pendSave' = [pendSave EXCEPT ![h] =
                    [ix |-> ix,
                     base |-> IF @ # NoIndex THEN @.base
                              ELSE IF cache = NoIndex THEN EmptyIndex ELSE cache]]
  /\ saveChain' = [saveChain EXCEPT ![h] = [i \in DOMAIN @ |-> [@[i] EXCEPT !.live = FALSE]]]
  /\ cacheIndex' = [cacheIndex EXCEPT ![h] = ix]
  /\ saveTimer' = saveTimer \cup {h}

EditIndex(h, seen, cache) ==
  \E a \in IndexAccounts, kind \in {"set", "reset", "remove", "add", "switch"} :
    /\ h \notin disposed /\ edits < MaxEdits
    /\ Editable(seen, a, kind)
    /\ WriteIndex(h, Edited(h, seen, a, kind), cache)
    /\ edits' = edits + 1
    /\ touched' = IF kind = "reset" THEN [touched EXCEPT ![h][a] = 0]
                  ELSE IF kind \in {"set", "add"} THEN [touched EXCEPT ![h][a] = edits + 1]
                  ELSE touched
    /\ added' = IF kind = "add" THEN [added EXCEPT ![a] = @ \cup {h}] ELSE added
    /\ removed' = IF kind = "remove" THEN removed \cup {a} ELSE removed
    /\ UNCHANGED <<diskIndex, lateSave, savedAs, disposed, dropped, failures>>

(* A mutator that only awaits readIndex goes on before anything else runs.   *)
QuickEdit(h) ==
  /\ \E seen \in Readable(h) : EditIndex(h, seen, seen)
  /\ UNCHANGED <<slowEdit, overtaken>>

(* Others await a lease, the network or the secrets between read and write.   *)
SlowRead(h) ==
  /\ slowEdit[h] = NoIndex /\ h \notin disposed /\ edits < MaxEdits
  /\ \E seen \in Readable(h) :
       /\ slowEdit' = [slowEdit EXCEPT ![h] = seen]
       /\ cacheIndex' = [cacheIndex EXCEPT ![h] = seen]
  /\ UNCHANGED <<diskIndex, pendSave, saveTimer, saveChain, lateSave, savedAs, disposed, dropped, edits,
                 failures, touched, added, removed, overtaken>>

SlowWrite(h) ==
  /\ slowEdit[h] # NoIndex
  /\ overtaken' = (overtaken \/ slowEdit[h] # IF pendSave[h] # NoIndex THEN pendSave[h].ix
                                             ELSE cacheIndex[h])
  /\ EditIndex(h, slowEdit[h], cacheIndex[h])
  /\ slowEdit' = [slowEdit EXCEPT ![h] = NoIndex]

(* invalidateIndexCache, when another host has written the file.  Only an     *)
(* edit under way can tell it from reading the file anew.                     *)
InvalidateCache(h) ==
  /\ pendSave[h] = NoIndex /\ cacheIndex[h] # NoIndex /\ slowEdit[h] # NoIndex
  /\ cacheIndex' = [cacheIndex EXCEPT ![h] = NoIndex]
  /\ UNCHANGED <<diskIndex, pendSave, saveTimer, saveChain, lateSave, savedAs, slowEdit, disposed, dropped,
                 edits, failures, touched, added, removed, overtaken>>

(* flushPendingSave takes the snapshot and chains its save.                   *)
FlushPending(h) ==
  /\ h \in saveTimer
  /\ saveTimer' = saveTimer \ {h}
  /\ saveChain' = [saveChain EXCEPT ![h] =
                     Append(@, [ix |-> pendSave[h].ix, base |-> pendSave[h].base, live |-> TRUE])]
  /\ overtaken' = (overtaken \/ saveChain[h] # <<>>)
  /\ UNCHANGED <<diskIndex, cacheIndex, pendSave, lateSave, savedAs, slowEdit, disposed, dropped, edits,
                 failures, touched, added, removed>>

(* persistIndexWithBackups under the write lock.                             *)
Persist(h) ==
  /\ saveChain[h] # <<>> /\ savedAs[h] = NoIndex
  /\ diskIndex' = MergeIndex(Head(saveChain[h]).base, Head(saveChain[h]).ix, diskIndex)
  /\ savedAs' = [savedAs EXCEPT ![h] = diskIndex']
  /\ UNCHANGED <<cacheIndex, pendSave, saveTimer, saveChain, lateSave, slowEdit, disposed, dropped, edits,
                 failures, touched, added, removed, overtaken>>

(* The lock was not got in time, or the disk refused: the pending save stays *)
(* and nobody sets a timer for it.                                           *)
PersistFails(h) ==
  /\ saveChain[h] # <<>> /\ savedAs[h] = NoIndex /\ failures < MaxFailures
  /\ failures' = failures + 1
  /\ saveChain' = [saveChain EXCEPT ![h] = Tail(@)]
  /\ UNCHANGED <<diskIndex, cacheIndex, pendSave, saveTimer, lateSave, savedAs, slowEdit, disposed, dropped,
                 edits, touched, added, removed, overtaken>>

(* The rest of flushPendingSave: a save nobody has edited since is done, an   *)
(* edited one is rebased on what the file now holds.                          *)
SettleSave(h) ==
  /\ savedAs[h] # NoIndex
  /\ LET save == Head(saveChain[h])
         rebased == MergeIndex(save.ix, pendSave[h].ix, savedAs[h])
     IN IF pendSave[h] = NoIndex
          THEN UNCHANGED <<pendSave, cacheIndex>> /\ saveChain' = [saveChain EXCEPT ![h] = Tail(@)]
          ELSE IF save.live
          THEN /\ pendSave' = [pendSave EXCEPT ![h] = NoIndex]
               /\ cacheIndex' = [cacheIndex EXCEPT ![h] = savedAs[h]]
               /\ saveChain' = [saveChain EXCEPT ![h] = Tail(@)]
          ELSE /\ pendSave' = [pendSave EXCEPT ![h] = [ix |-> rebased, base |-> savedAs[h]]]
               /\ cacheIndex' = [cacheIndex EXCEPT ![h] = rebased]
               /\ saveChain' = [saveChain EXCEPT ![h] =
                                  [i \in DOMAIN Tail(@) |-> [Tail(@)[i] EXCEPT !.live = FALSE]]]
  /\ savedAs' = [savedAs EXCEPT ![h] = NoIndex]
  /\ UNCHANGED <<diskIndex, saveTimer, lateSave, slowEdit, disposed, dropped, edits, failures, touched, added,
                 removed, overtaken>>

(* Faulty: the timer of a disposed host goes on.                              *)
FaultyDispose(h) ==
  /\ h \notin disposed
  /\ disposed' = disposed \cup {h}
  /\ pendSave' = [pendSave EXCEPT ![h] = NoIndex]
  /\ slowEdit' = [slowEdit EXCEPT ![h] = NoIndex]
  /\ lateSave' = [lateSave EXCEPT ![h] = pendSave[h]]
  /\ UNCHANGED <<diskIndex, cacheIndex, saveTimer, saveChain, savedAs, dropped, edits, failures,
                 touched, added, removed, overtaken>>

(* disposeWriteCoordinator saves what is pending at once, or hands it to one  *)
(* retry when the write lock is busy.  When the save fails for another reason *)
(* it throws: what is pending stays, with no timer and no host to save it.    *)
Dispose(h) ==
  /\ h \notin disposed
  /\ disposed' = disposed \cup {h}
  /\ saveTimer' = saveTimer \ {h}
  /\ slowEdit' = [slowEdit EXCEPT ![h] = NoIndex]
  /\ IF pendSave[h] = NoIndex
       THEN UNCHANGED <<diskIndex, cacheIndex, pendSave, lateSave, dropped, failures>>
     ELSE \/ /\ diskIndex' = MergeIndex(pendSave[h].base, pendSave[h].ix, diskIndex)
             /\ cacheIndex' = [cacheIndex EXCEPT ![h] = diskIndex']
             /\ pendSave' = [pendSave EXCEPT ![h] = NoIndex]
             /\ UNCHANGED <<lateSave, dropped, failures>>
          \/ /\ lateSave' = [lateSave EXCEPT ![h] = pendSave[h]]
             /\ pendSave' = [pendSave EXCEPT ![h] = NoIndex]
             /\ UNCHANGED <<diskIndex, cacheIndex, dropped, failures>>
          \/ /\ failures < MaxFailures /\ failures' = failures + 1
             /\ dropped' = dropped \cup {h}
             /\ UNCHANGED <<diskIndex, cacheIndex, pendSave, lateSave>>
  /\ overtaken' = (overtaken \/ (pendSave[h] # NoIndex /\ saveChain[h] # <<>>))
  /\ UNCHANGED <<saveChain, savedAs, edits, touched, added, removed>>

RetrySave(h) ==
  /\ lateSave[h] # NoIndex /\ h \notin dropped
  /\ diskIndex' = MergeIndex(lateSave[h].base, lateSave[h].ix, diskIndex)
  /\ lateSave' = [lateSave EXCEPT ![h] = NoIndex]
  /\ UNCHANGED <<cacheIndex, pendSave, saveTimer, saveChain, savedAs, slowEdit, disposed, dropped,
                 edits, failures, touched, added, removed, overtaken>>

(* The retry got no lock in time, or the disk refused: that is logged, and    *)
(* pendingSave has long been cleared.                                        *)
RetryFails(h) ==
  /\ lateSave[h] # NoIndex /\ h \notin dropped /\ failures < MaxFailures
  /\ failures' = failures + 1
  /\ dropped' = dropped \cup {h}
  /\ UNCHANGED <<diskIndex, cacheIndex, pendSave, saveTimer, saveChain, lateSave, savedAs, slowEdit,
                 disposed, edits, touched, added, removed, overtaken>>

IndexSaves(h) == FlushPending(h) \/ Persist(h) \/ SettleSave(h) \/ RetrySave(h)

IndexNext ==
  \E h \in IndexHosts :
    \/ QuickEdit(h) \/ SlowRead(h) \/ SlowWrite(h) \/ InvalidateCache(h)
    \/ IndexSaves(h) \/ PersistFails(h) \/ RetryFails(h) \/ Dispose(h)

IndexSpec == IndexInit /\ [][IndexNext]_indexVars

(* Timers fire and promises settle.                                          *)
IndexFairness == \A h \in IndexHosts : WF_indexVars(IndexSaves(h))

-----------------------------------------------------------------------------

IndexTypeOK ==
  /\ diskIndex \in Indexes
  /\ \A h \in IndexHosts :
       /\ cacheIndex[h] \in Indexes \cup {NoIndex}
       /\ h \in saveTimer => pendSave[h] # NoIndex
       /\ savedAs[h] # NoIndex => saveChain[h] # <<>>

(* No edit of a host is lost to the saves of the others, to its own older    *)
(* saves or to one that failed while it ran, and no removed account comes     *)
(* back: once nothing is left to be saved the file has the last edit of each  *)
(* host to each account, unless somebody has removed it.  What a host loses   *)
(* when its last save, at its disposal or in the one retry after it, fails is *)
(* lost for good; the edits of the others are not.  An account that two hosts *)
(* have added, neither knowing of the other, outlives the removal by one of   *)
(* them: the addition of the other is still to be saved.  This is what the    *)
(* three-way merge and the rebasing are for.  It ends with a mutator that     *)
(* writes a copy read before another edit of its own host, and with a save or *)
(* a disposal of a host taken before its last save was settled, which still   *)
(* has the old base.                                                          *)
AllSaved ==
  \A h \in IndexHosts :
    h \in dropped \/ (pendSave[h] = NoIndex /\ saveChain[h] = <<>> /\ lateSave[h] = NoIndex)
InFile(h, a) ==
  diskIndex.acc[a] # Absent /\ (a \in FirstAccounts => diskIndex.acc[a].field[h] = touched[h][a])
NoEditLost ==
  AllSaved /\ ~overtaken =>
    \A h \in IndexHosts, a \in IndexAccounts :
      IF a \in removed THEN dropped # {} \/ diskIndex.acc[a] = Absent \/ \E o, p \in added[a] : o # p
      ELSE h \notin dropped /\ (touched[h][a] > 0 \/ a \in FirstAccounts) => InFile(h, a)

(* An edit reaches the file, with only the host's own timers to bring it      *)
(* there, unless a save fails or is overtaken (line 209): what is rebased     *)
(* then stays pending without a timer.                                        *)
EditReachesFile ==
  \A h \in IndexHosts, a \in FirstAccounts :
    touched[h][a] > 0 ~> \/ diskIndex.acc[a] = Absent \/ failures > 0 \/ overtaken
                        \/ diskIndex.acc[a].field[h] = touched[h][a]
=============================================================================
