--------------------------- MODULE Sharing_proofs ---------------------------
(***************************************************************************)
(* Theorems about the two ways in which accounts are shared between          *)
(* Managers: the sync of a credential (CredentialSync) and the loan of        *)
(* accounts (SharingLease), for any number of renewals, faults and accounts.  *)
(***************************************************************************)
EXTENDS CredentialSync, SharingLease, TLAPS

(* The types.                                                               *)
RelayRecords ==
  [version: Nat, cred: Nat, state: {"active", "stopped"}, ack: Nat, acks: SUBSET Sides]
Updates == [version: Nat, cred: Nat, wait: BOOLEAN]
PriRecords ==
  [state: {"pending", "active"}, version: Nat, cred: Nat, update: Updates \cup {NoUpdate}]
FolRecords == [version: Nat, ack: Nat]
PriPlaces ==
  {"idle", "create", "created", "sent", "listed", "get", "got", "put", "answered", "ackStop"}
FolPlaces == {"idle", "inbox", "wipe", "ackStop", "apply", "record", "ack"}

(* What a poll carries depends on where it is.                              *)
PollShape(p, places) ==
  DOMAIN p = {"at", "ans", "export"} /\ p.at \in places /\ p.ans \in RelayRecords \cup {NoSync}
PriCarries ==
  /\ priPoll.at \in {"create", "created", "put", "answered"} => priPoll.export \in Updates
  /\ priPoll.at \in {"get", "got"} => priPoll.export \in Nat
  /\ priPoll.at \in {"got", "ackStop"} => priPoll.ans # NoSync
  /\ priPoll.at \in {"create", "created", "put", "answered"} /\ priRecord # NoRecord =>
       priRecord.update # NoUpdate
  /\ priRecord # NoRecord /\ priRecord.state = "pending" =>
       priRecord.update # NoUpdate /\ priPoll.at \notin {"get", "got", "put", "answered"}

PriTypes ==
  /\ credential \in Nat /\ priRecord \in PriRecords \cup {NoRecord}
  /\ PollShape(priPoll, PriPlaces) /\ PriCarries
FolTypes ==
  /\ folRecord \in FolRecords \cup {NoRecord} /\ folFile \in FolRecords \cup {NoRecord}
  /\ folAccount \in Nat
  /\ PollShape(folPoll, FolPlaces) /\ (folPoll.at # "idle" => folPoll.ans # NoSync)
RelayTypes ==
  /\ relaySync \in RelayRecords \cup {NoSync}
  /\ stopping \in [Sides -> {"off", "answered", "wipe"}]
  /\ stopAsked \in BOOLEAN /\ recreated \in BOOLEAN
SyncTypes == PriTypes /\ FolTypes /\ RelayTypes

(* As long as the relay has not been told to stop, and has not begun again.   *)
Live == ~stopAsked /\ ~recreated

(* A relay told to stop is not active again unless the sync is made anew.     *)
StoppedForGood == stopAsked /\ ~recreated /\ relaySync # NoSync => relaySync.state = "stopped"

(* The versions of the relay, and the primary's, whose credentials are none   *)
(* older than what has been published when they are.                        *)
AllPublished(x) == \A v \in DOMAIN published : published[v] <= x
RelayVersions ==
  /\ relaySync = NoSync => published = <<>>
  /\ relaySync # NoSync =>
       /\ relaySync.state = "active" /\ relaySync.version \in Nat \ {0}
       /\ published \in [1..relaySync.version -> Nat]
       /\ relaySync.cred = published[relaySync.version]
       /\ \A v, w \in 1..relaySync.version : v <= w => published[v] <= published[w]
  /\ AllPublished(credential)
PriVersions ==
  /\ priRecord # NoRecord /\ priRecord.state = "pending" =>
       priRecord.update.version = 1
  /\ priRecord # NoRecord /\ priRecord.update # NoUpdate => priRecord.update.cred <= credential
  /\ priPoll.at = "create" => priPoll.export.version = 1 /\ priPoll.export.cred <= credential
  /\ priPoll.at \in {"get", "got"} => priPoll.export <= credential /\ AllPublished(priPoll.export)
  /\ priPoll.at = "put" => priPoll.export.cred <= credential /\ AllPublished(priPoll.export.cred)

(* What the follower has, has recorded and has acknowledged.                 *)
FolStores ==
  /\ \A s \in Sides : stopping[s] = "off"
  /\ folPoll.at \notin {"wipe", "ackStop"}
  /\ (folRecord = NoRecord) = (folFile = NoRecord)
  /\ folRecord # NoRecord =>
       /\ folRecord.version \in DOMAIN published /\ folFile.version = folRecord.version
       /\ published[folRecord.version] <= folAccount
  /\ relaySync # NoSync /\ relaySync.ack > 0 =>
       folRecord # NoRecord /\ relaySync.ack <= folRecord.version
  /\ folPoll.at # "idle" =>
       /\ folPoll.ans.state = "active" /\ folPoll.ans.version \in DOMAIN published
       /\ folPoll.ans.cred = published[folPoll.ans.version]
  /\ folPoll.at \in {"apply", "record"} =>
       /\ folPoll.export = (folRecord # NoRecord)
       /\ folRecord # NoRecord => folRecord.version < folPoll.ans.version
  /\ folPoll.at = "record" => folAccount = folPoll.ans.cred
  /\ folPoll.at = "ack" => folRecord # NoRecord

FollowsVersions == RelayVersions /\ PriVersions /\ FolStores
SyncInv == SyncTypes /\ StoppedForGood /\ (Live => FollowsVersions)

-----------------------------------------------------------------------------
(* Records, and changes to them.                                             *)

(* A poll that goes on keeps what it does not change.                        *)
LEMMA PollChanged ==
  ASSUME NEW p, DOMAIN p = {"at", "ans", "export"}, NEW x, NEW y
  PROVE  /\ DOMAIN [p EXCEPT !.at = x] = {"at", "ans", "export"}
         /\ [p EXCEPT !.at = x].at = x /\ [p EXCEPT !.at = x].ans = p.ans
         /\ [p EXCEPT !.at = x].export = p.export
         /\ DOMAIN [p EXCEPT !.at = x, !.ans = y] = {"at", "ans", "export"}
         /\ [p EXCEPT !.at = x, !.ans = y].at = x /\ [p EXCEPT !.at = x, !.ans = y].ans = y
         /\ [p EXCEPT !.at = x, !.ans = y].export = p.export
         /\ DOMAIN [p EXCEPT !.at = x, !.export = y] = {"at", "ans", "export"}
         /\ [p EXCEPT !.at = x, !.export = y].at = x /\ [p EXCEPT !.at = x, !.export = y].export = y
         /\ [p EXCEPT !.at = x, !.export = y].ans = p.ans
OBVIOUS

(* A poll begins with nothing.                                              *)
LEMMA IdleIs ==
  /\ DOMAIN PollIdle = {"at", "ans", "export"}
  /\ PollIdle.at = "idle" /\ PollIdle.ans = NoSync /\ PollIdle.export = 0
BY DEF PollIdle

(* What stands for nothing is no record.                                    *)
LEMMA NothingIs ==
  /\ NoSync \notin RelayRecords /\ NoUpdate \notin Updates
  /\ NoRecord \notin FolRecords /\ NoRecord \notin PriRecords
BY CredentialSyncAssumption DEF RelayRecords, Updates, FolRecords, PriRecords, Sides

(* The fields of the relay's record.                                        *)
LEMMA RelayFields ==
  ASSUME NEW r \in RelayRecords
  PROVE  /\ r.version \in Nat /\ r.cred \in Nat /\ r.state \in {"active", "stopped"}
         /\ r.ack \in Nat /\ r.acks \subseteq Sides /\ r # NoSync
BY NothingIs DEF RelayRecords

(* The fields of the primary's record.                                       *)
LEMMA PriFields ==
  ASSUME NEW r \in PriRecords
  PROVE  /\ r.state \in {"pending", "active"} /\ r.version \in Nat /\ r.cred \in Nat
         /\ r.update \in Updates \cup {NoUpdate} /\ r # NoRecord
BY NothingIs DEF PriRecords

-----------------------------------------------------------------------------
(* What a step has to show.                                                  *)

(* A step of the primary that leaves the relay alone concerns only its own     *)
(* part of the invariant.                                                    *)
LEMMA PriQuiet ==
  ASSUME SyncInv, PriTypes', UNCHANGED <<credential, folVars, relayVars, stopVars, recreated>>,
         Live => PriVersions'
  PROVE  SyncInv'
<1>1. FolTypes' /\ RelayTypes' /\ StoppedForGood'
  BY DEF SyncInv, SyncTypes, FolTypes, RelayTypes, StoppedForGood, PollShape, folVars, relayVars,
     stopVars
<1>2. Live' = Live
  BY DEF Live, stopVars
<1>3. Live => RelayVersions' /\ FolStores'
  BY DEF SyncInv, FollowsVersions, RelayVersions, FolStores, AllPublished, folVars, relayVars, stopVars
<1>4. QED
  BY <1>1, <1>2, <1>3 DEF SyncInv, SyncTypes, FollowsVersions

(* So does one of the follower.                                              *)
LEMMA FolQuiet ==
  ASSUME SyncInv, FolTypes', UNCHANGED <<priVars, relayVars, stopVars, recreated>>,
         Live => FolStores'
  PROVE  SyncInv'
<1>1. PriTypes' /\ RelayTypes' /\ StoppedForGood'
  BY DEF SyncInv, SyncTypes, PriTypes, PriCarries, RelayTypes, StoppedForGood, PollShape, priVars,
     relayVars, stopVars
<1>2. Live' = Live
  BY DEF Live, stopVars
<1>3. Live => RelayVersions' /\ PriVersions'
  BY DEF SyncInv, FollowsVersions, RelayVersions, PriVersions, AllPublished, priVars, relayVars
<1>4. QED
  BY <1>1, <1>2, <1>3 DEF SyncInv, SyncTypes, FollowsVersions

(* Once it is no longer the first life of the sync only the types matter, and   *)
(* that a stop is final.                                                     *)
LEMMA NotLive ==
  ASSUME SyncTypes', StoppedForGood', ~Live'
  PROVE  SyncInv'
BY DEF SyncInv

-----------------------------------------------------------------------------
(* The primary.                                                              *)

(* Its record is a record, or none; an update in it is one.                  *)
LEMMA PriIs ==
  ASSUME SyncInv
  PROVE  /\ credential \in Nat /\ PollShape(priPoll, PriPlaces) /\ PriCarries
         /\ priRecord # NoRecord => priRecord \in PriRecords
         /\ DOMAIN priPoll = {"at", "ans", "export"}
         /\ priPoll.ans # NoSync => priPoll.ans \in RelayRecords
BY DEF SyncInv, SyncTypes, PriTypes, PollShape

LEMMA PriPollsKeeps ==
  ASSUME SyncInv, PriPolls
  PROVE  SyncInv'
<1>1. PICK at \in {"create", "sent"} :
        at = IF Pending /\ ~priRecord.update.wait THEN "create" ELSE "sent"
  OBVIOUS
<1>2. PICK export : export = IF Pending THEN priRecord.update ELSE NoUpdate
  OBVIOUS
<1>3. /\ priPoll' = [PollIdle EXCEPT !.at = at, !.export = export]
      /\ at = "create" => Pending /\ export = priRecord.update
  BY <1>1, <1>2 DEF PriPolls
<1>4. /\ DOMAIN priPoll' = {"at", "ans", "export"} /\ priPoll'.at = at
      /\ priPoll'.ans = NoSync /\ priPoll'.export = export
  BY <1>3, IdleIs, PollChanged
<1>5. at = "create" => priRecord \in PriRecords /\ export \in Updates /\ priRecord.update # NoUpdate
                       /\ priRecord.state = "pending"
  BY <1>3, PriIs, PriFields DEF Pending, PriCarries
<1>6. PollShape(priPoll, PriPlaces)'
  BY <1>1, <1>4 DEF PollShape, PriPlaces
<1>7. PriCarries'
  BY <1>4, <1>5, PriIs DEF PriPolls, PriCarries
<1>8. PriTypes'
  BY <1>6, <1>7, PriIs DEF PriPolls, PriUnchanged, PriTypes
<1>9. Live => PriVersions'
  BY <1>3, <1>4, <1>5 DEF PriPolls, PriUnchanged, PriVersions, SyncInv, FollowsVersions, Pending
<1>10. QED
  BY <1>8, <1>9, PriQuiet DEF PriPolls, PriUnchanged

LEMMA ListSentKeeps ==
  ASSUME SyncInv, ListSent
  PROVE  SyncInv'
<1>1. PICK ans \in RelayRecords \cup {NoSync} : priPoll' = [priPoll EXCEPT !.at = "listed", !.ans = ans]
  BY DEF ListSent, Answer, SyncInv, SyncTypes, RelayTypes
<1>2. /\ DOMAIN priPoll' = {"at", "ans", "export"} /\ priPoll'.at = "listed" /\ priPoll'.ans = ans
  BY <1>1, PriIs, PollChanged
<1>3. PriTypes'
  BY <1>2, PriIs DEF ListSent, PriUnchanged, PriTypes, PollShape, PriPlaces, PriCarries
<1>4. Live => PriVersions'
  BY <1>2 DEF ListSent, PriUnchanged, PriVersions, SyncInv, FollowsVersions
<1>5. QED
  BY <1>3, <1>4, PriQuiet DEF ListSent, PriUnchanged

LEMMA GetRemoteKeeps ==
  ASSUME SyncInv, GetRemote
  PROVE  SyncInv'
<1>1. CASE relaySync = NoSync
  <2>1. priPoll' = PollIdle /\ UNCHANGED <<priRecord, credential>>
    BY <1>1 DEF GetRemote, PriUnchanged
  <2>2. PriTypes'
    BY <2>1, PriIs, IdleIs DEF PriTypes, PollShape, PriPlaces, PriCarries
  <2>3. Live => PriVersions'
    BY <2>1, IdleIs DEF PriVersions, SyncInv, FollowsVersions
  <2>4. QED
    BY <2>2, <2>3, PriQuiet DEF GetRemote, PriUnchanged
<1>2. CASE relaySync # NoSync
  <2>1. priPoll' = [priPoll EXCEPT !.at = "got", !.ans = relaySync] /\ UNCHANGED <<priRecord, credential>>
        /\ priPoll.at = "get"
    BY <1>2 DEF GetRemote, PriUnchanged, PriAt
  <2>2. /\ DOMAIN priPoll' = {"at", "ans", "export"} /\ priPoll'.at = "got" /\ priPoll'.ans = relaySync
        /\ priPoll'.export = priPoll.export
    BY <2>1, PriIs, PollChanged
  <2>3. relaySync \in RelayRecords
    BY <1>2 DEF SyncInv, SyncTypes, RelayTypes
  <2>4. PriTypes'
    BY <1>2, <2>1, <2>2, <2>3, PriIs DEF PriTypes, PollShape, PriPlaces, PriCarries
  <2>5. Live => PriVersions'
    BY <2>1, <2>2 DEF GetRemote, relayVars, PriVersions, SyncInv, FollowsVersions, AllPublished
  <2>6. QED
    BY <2>4, <2>5, PriQuiet DEF GetRemote, PriUnchanged
<1>3. QED
  BY <1>1, <1>2

(* A record of the primary with another version, another credential or another  *)
(* update is one.                                                           *)
LEMMA PriChanged ==
  ASSUME NEW r \in PriRecords, NEW v \in Nat, NEW c \in Nat, NEW u \in Updates \cup {NoUpdate}
  PROVE  /\ [r EXCEPT !.version = v] \in PriRecords
         /\ [r EXCEPT !.version = v].state = r.state /\ [r EXCEPT !.version = v].update = r.update
         /\ [r EXCEPT !.update = u] \in PriRecords
         /\ [r EXCEPT !.update = u].state = r.state /\ [r EXCEPT !.update = u].update = u
         /\ [r EXCEPT !.version = v, !.update = u] \in PriRecords
         /\ [r EXCEPT !.version = v, !.update = u].state = r.state
         /\ [r EXCEPT !.version = v, !.update = u].update = u
         /\ [r EXCEPT !.version = v, !.cred = c, !.update = u] \in PriRecords
         /\ [r EXCEPT !.version = v, !.cred = c, !.update = u].state = r.state
         /\ [r EXCEPT !.version = v, !.cred = c, !.update = u].update = u
BY DEF PriRecords

LEMMA ReadSentKeeps ==
  ASSUME SyncInv, ReadSent
  PROVE  SyncInv'
<1>1. UNCHANGED credential /\ DOMAIN priPoll = {"at", "ans", "export"}
  BY PriIs DEF ReadSent, PriUnchanged
<1>2. CASE priPoll.ans = NoSync \/ (priRecord = NoRecord /\ priPoll.ans.state = "active")
  <2>1. priPoll' = PollIdle /\ UNCHANGED priRecord
    BY <1>2 DEF ReadSent
  <2>2. PriTypes'
    BY <1>1, <2>1, PriIs, IdleIs DEF PriTypes, PollShape, PriPlaces, PriCarries
  <2>3. Live => PriVersions'
    BY <1>1, <2>1, IdleIs DEF PriVersions, SyncInv, FollowsVersions
  <2>4. QED
    BY <2>2, <2>3, PriQuiet DEF ReadSent, PriUnchanged
<1>3. CASE priPoll.ans # NoSync /\ priPoll.ans.state = "stopped"
  <2>0. priPoll.ans \in RelayRecords /\ priPoll.ans.state # "active"
    BY <1>3, PriIs
  <2>1. priPoll' = [priPoll EXCEPT !.at = "ackStop"] /\ priRecord' = NoRecord
    BY <1>3, <2>0 DEF ReadSent, PriGoto
  <2>2. /\ DOMAIN priPoll' = {"at", "ans", "export"} /\ priPoll'.at = "ackStop"
        /\ priPoll'.ans = priPoll.ans
    BY <1>1, <2>1, PollChanged
  <2>3. PriTypes'
    BY <1>1, <1>3, <2>1, <2>2, PriIs DEF PriTypes, PollShape, PriPlaces, PriCarries
  <2>4. Live => PriVersions'
    BY <1>1, <2>1, <2>2 DEF PriVersions, SyncInv, FollowsVersions
  <2>5. QED
    BY <2>3, <2>4, PriQuiet DEF ReadSent, PriUnchanged
<1>4. CASE priPoll.ans # NoSync /\ priPoll.ans.state # "stopped" /\ priRecord # NoRecord
  <2>1. priPoll.ans \in RelayRecords /\ priRecord \in PriRecords
    BY <1>4, PriIs
  <2>2. PICK v \in Nat : v = priPoll.ans.version
    BY <2>1, RelayFields
  <2>3. CASE Pending \/ (UpToDate /\ priPoll.ans.version >= priRecord.version)
    <3>1. /\ priRecord' = IF Pending THEN priRecord ELSE [priRecord EXCEPT !.version = v]
          /\ priPoll' = PollIdle
      BY <1>4, <2>2, <2>3 DEF ReadSent
    <3>2. /\ priRecord' \in PriRecords /\ priRecord'.state = priRecord.state
          /\ priRecord'.update = priRecord.update
      BY <2>1, <3>1, PriChanged
    <3>3. PriTypes'
      BY <1>1, <1>4, <3>1, <3>2, PriIs, IdleIs DEF PriTypes, PollShape, PriPlaces, PriCarries
    <3>4. Live => PriVersions'
      BY <1>1, <1>4, <3>1, <3>2, IdleIs DEF PriVersions, SyncInv, FollowsVersions
    <3>5. QED
      BY <3>3, <3>4, PriQuiet DEF ReadSent, PriUnchanged
  <2>4. CASE ~(Pending \/ (UpToDate /\ priPoll.ans.version >= priRecord.version))
    <3>1. priPoll' = [priPoll EXCEPT !.at = "get", !.export = credential] /\ UNCHANGED priRecord
      BY <1>4, <2>4 DEF ReadSent
    <3>2. /\ DOMAIN priPoll' = {"at", "ans", "export"} /\ priPoll'.at = "get"
          /\ priPoll'.ans = priPoll.ans /\ priPoll'.export = credential
      BY <1>1, <3>1, PollChanged
    <3>3. priRecord.state # "pending"
      BY <1>4, <2>4 DEF Pending
    <3>4. PriTypes'
      BY <1>1, <1>4, <3>1, <3>2, <3>3, PriIs DEF PriTypes, PollShape, PriPlaces, PriCarries
    <3>5. Live => PriVersions'
      BY <1>1, <3>1, <3>2, PriIs
         DEF PriVersions, RelayVersions, SyncInv, FollowsVersions, AllPublished, ReadSent, relayVars
    <3>6. QED
      BY <3>4, <3>5, PriQuiet DEF ReadSent, PriUnchanged
  <2>5. QED
    BY <2>3, <2>4
<1>5. QED
  BY <1>2, <1>3, <1>4, PriIs, RelayFields

(* An update that waits, or waits no longer, is the same update.              *)
LEMMA WaitChanged ==
  ASSUME NEW r \in PriRecords, NEW u \in Updates, NEW w \in BOOLEAN, r.update = u
  PROVE  /\ [r EXCEPT !.update.wait = w] \in PriRecords
         /\ [r EXCEPT !.update.wait = w].state = r.state
         /\ [r EXCEPT !.update.wait = w].update \in Updates
         /\ [r EXCEPT !.update.wait = w].update.version = u.version
         /\ [r EXCEPT !.update.wait = w].update.cred = u.cred
<1>1. PICK x : x = [u EXCEPT !.wait = w]
  OBVIOUS
<1>2. x \in Updates /\ x.version = u.version /\ x.cred = u.cred
  BY <1>1 DEF Updates
<1>3. PICK q : q = [r EXCEPT !.update = x]
  OBVIOUS
<1>4. [r EXCEPT !.update.wait = w] = q
  BY <1>1, <1>3
<1>5. q \in PriRecords /\ q.state = r.state /\ q.update = x
  BY <1>2, <1>3 DEF PriRecords
<1>6. QED
  BY <1>2, <1>4, <1>5

(* The answer to a request of the first version, or of a later one.           *)
LEMMA AnswerKeeps ==
  ASSUME SyncInv, ReadCreated \/ ReadPut
  PROVE  SyncInv'
<1>1. PICK at \in {"sent", "idle"} :
        /\ DOMAIN priPoll' = {"at", "ans", "export"} /\ priPoll'.at = at
        /\ priPoll'.ans \in RelayRecords \cup {NoSync}
  BY PriIs, IdleIs, PollChanged DEF ReadCreated, ReadPut, PriGoto, PollShape
<1>2. /\ UNCHANGED credential /\ priPoll.at \in {"created", "answered"}
      /\ IF priPoll.ans # NoSync THEN Published(priPoll.ans.version, priPoll.export) ELSE NotPublished
  BY DEF ReadCreated, ReadPut, PriUnchanged, PriAt
<1>3. /\ priRecord' # NoRecord => priRecord # NoRecord /\ priRecord' \in PriRecords
      /\ priRecord' # NoRecord /\ priRecord'.state = "pending" =>
           /\ priRecord.state = "pending" /\ priRecord'.update # NoUpdate
           /\ priRecord'.update.version = priRecord.update.version
      /\ priRecord' # NoRecord /\ priRecord'.update # NoUpdate =>
           priRecord.update # NoUpdate /\ priRecord'.update.cred = priRecord.update.cred
  <2>1. CASE priRecord = NoRecord
    BY <1>2, <2>1 DEF Published, NotPublished
  <2>2. CASE priRecord # NoRecord /\ priPoll.ans # NoSync
    <3>1. PICK v \in Nat, c \in Nat : v = priPoll.ans.version /\ c = priPoll.export.cred
      BY <1>2, <2>2, PriIs, RelayFields DEF PriCarries, Updates
    <3>2. priRecord' = [state |-> "active", version |-> v, cred |-> c, update |-> NoUpdate]
      BY <1>2, <2>2, <3>1 DEF Published
    <3>3. priRecord' \in PriRecords /\ priRecord'.state = "active" /\ priRecord'.update = NoUpdate
      BY <3>2 DEF PriRecords
    <3>4. QED
      BY <2>2, <3>3
  <2>3. CASE priRecord # NoRecord /\ priPoll.ans = NoSync
    <3>1. PICK r \in PriRecords : r = priRecord
      BY <2>3, PriIs
    <3>2. PICK u \in Updates : u = r.update
      BY <1>2, <2>3, <3>1, PriIs, PriFields DEF PriCarries
    <3>3. PICK w \in BOOLEAN : w = TRUE
      OBVIOUS
    <3>4. priRecord' = [r EXCEPT !.update.wait = w]
      BY <1>2, <2>3, <3>1, <3>3 DEF NotPublished
    <3>5. /\ priRecord' \in PriRecords /\ priRecord'.state = r.state /\ priRecord'.update \in Updates
          /\ priRecord'.update.version = u.version /\ priRecord'.update.cred = u.cred
      BY <3>2, <3>4, WaitChanged
    <3>6. QED
      BY <2>3, <3>1, <3>2, <3>5, NothingIs
  <2>4. QED
    BY <2>1, <2>2, <2>3
<1>4. PriTypes'
  BY <1>1, <1>2, <1>3, PriIs DEF PriTypes, PollShape, PriPlaces, PriCarries
<1>5. Live => PriVersions'
  BY <1>1, <1>2, <1>3, PriIs DEF PriVersions, SyncInv, FollowsVersions
<1>6. QED
  BY <1>4, <1>5, PriQuiet DEF ReadCreated, ReadPut, PriUnchanged

(* The time of a retry.                                                     *)
LEMMA BackoffOverKeeps ==
  ASSUME SyncInv, BackoffOver
  PROVE  SyncInv'
<1>1. PICK r \in PriRecords : r = priRecord /\ r.update # NoUpdate
  BY PriIs DEF BackoffOver
<1>2. PICK u \in Updates : u = r.update
  BY <1>1, PriFields
<1>3. PICK w \in BOOLEAN : w = FALSE
  OBVIOUS
<1>4. priRecord' = [r EXCEPT !.update.wait = w] /\ UNCHANGED <<priPoll, credential>>
  BY <1>1, <1>3 DEF BackoffOver, PriUnchanged
<1>5. /\ priRecord' \in PriRecords /\ priRecord'.state = r.state /\ priRecord'.update \in Updates
      /\ priRecord'.update.version = u.version /\ priRecord'.update.cred = u.cred
  BY <1>2, <1>4, WaitChanged
<1>6. priRecord' # NoRecord /\ priRecord # NoRecord /\ priRecord'.update # NoUpdate
  BY <1>1, <1>5, NothingIs, PriFields
<1>7. PriTypes'
  BY <1>1, <1>4, <1>5, <1>6, PriIs DEF PriTypes, PollShape, PriCarries
<1>8. Live => PriVersions'
  BY <1>1, <1>2, <1>4, <1>5, <1>6
     DEF BackoffOver, relayVars, PriVersions, SyncInv, FollowsVersions, AllPublished
<1>9. QED
  BY <1>7, <1>8, PriQuiet DEF BackoffOver, PriUnchanged

(* A new update.                                                            *)
LEMMA UpdateIs ==
  ASSUME NEW v \in Nat, NEW c \in Nat
  PROVE  Update(v, c) \in Updates /\ Update(v, c).version = v /\ Update(v, c).cred = c
<1>1. PICK w \in BOOLEAN : w = FALSE
  OBVIOUS
<1>2. PICK x : x = [version |-> v, cred |-> c, wait |-> w]
  OBVIOUS
<1>3. Update(v, c) = x
  BY <1>1, <1>2 DEF Update
<1>4. x \in Updates /\ x.version = v /\ x.cred = c
  BY <1>2 DEF Updates
<1>5. QED
  BY <1>3, <1>4

(* A look at the relay's record keeps the update or drops it.                 *)
LEMMA AdoptedIs ==
  ASSUME NEW r \in PriRecords, NEW remote \in RelayRecords
  PROVE  /\ Adopted(r, remote) \in PriRecords /\ Adopted(r, remote).state = r.state
         /\ Adopted(r, remote).update \in {r.update, NoUpdate}
<1>1. PICK v \in Nat : v = remote.version
  BY RelayFields
<1>2. CASE r.update # NoUpdate /\ r.update.version = remote.version
  <2>1. PICK u \in Updates, c \in Nat : u = r.update /\ c = u.cred
    BY <1>2, PriFields DEF Updates
  <2>2. PICK n \in Updates \cup {NoUpdate} : n = NoUpdate
    OBVIOUS
  <2>3. Adopted(r, remote) = [r EXCEPT !.version = v, !.cred = c, !.update = n]
    BY <1>1, <1>2, <2>1, <2>2 DEF Adopted
  <2>4. PICK x : x = [r EXCEPT !.version = v, !.cred = c, !.update = n]
    OBVIOUS
  <2>5. x \in PriRecords /\ x.state = r.state /\ x.update = n
    BY <2>4 DEF PriRecords
  <2>6. QED
    BY <2>2, <2>3, <2>4, <2>5
<1>3. CASE ~(r.update # NoUpdate /\ r.update.version = remote.version) /\ remote.version > r.version
  <2>1. PICK n \in {r.update, NoUpdate} :
          n = IF r.update # NoUpdate /\ r.update.version <= remote.version THEN NoUpdate ELSE r.update
    OBVIOUS
  <2>2. n \in Updates \cup {NoUpdate}
    BY <2>1, PriFields
  <2>3. Adopted(r, remote) = [r EXCEPT !.version = v, !.update = n]
    BY <1>1, <1>3, <2>1 DEF Adopted
  <2>4. PICK x : x = [r EXCEPT !.version = v, !.update = n]
    OBVIOUS
  <2>5. x \in PriRecords /\ x.state = r.state /\ x.update = n
    BY <2>2, <2>4 DEF PriRecords
  <2>6. QED
    BY <2>1, <2>3, <2>4, <2>5
<1>4. CASE ~(r.update # NoUpdate /\ r.update.version = remote.version) /\ ~(remote.version > r.version)
  BY <1>4 DEF Adopted
<1>5. QED
  BY <1>2, <1>3, <1>4

(* What is still to publish, if anything, is the credential read from the        *)
(* account.                                                                 *)
LEMMA QueuedIs ==
  ASSUME NEW r \in PriRecords, NEW export \in Nat
  PROVE  /\ Queued(r, export) \in PriRecords /\ Queued(r, export).state = r.state
         /\ Queued(r, export).update # NoUpdate =>
              Queued(r, export).update \in Updates /\ Queued(r, export).update.cred = export
<1>1. CASE r.update # NoUpdate /\ r.update.cred # export
  <2>1. PICK m \in Nat : m = Higher(r.version, r.update.version) + 1
    BY <1>1, PriFields DEF Updates, Higher
  <2>2. PICK u \in Updates : u = Update(m, export) /\ u.cred = export
    BY UpdateIs
  <2>3. Queued(r, export) = [r EXCEPT !.update = u]
    BY <1>1, <2>1, <2>2 DEF Queued
  <2>4. PICK x : x = [r EXCEPT !.update = u]
    OBVIOUS
  <2>5. x \in PriRecords /\ x.state = r.state /\ x.update = u
    BY <2>4 DEF PriRecords
  <2>6. QED
    BY <2>2, <2>3, <2>4, <2>5
<1>2. CASE r.update = NoUpdate /\ r.cred # export
  <2>1. PICK m \in Nat : m = r.version + 1
    BY PriFields
  <2>2. PICK u \in Updates : u = Update(m, export) /\ u.cred = export
    BY UpdateIs
  <2>3. Queued(r, export) = [r EXCEPT !.update = u]
    BY <1>2, <2>1, <2>2 DEF Queued
  <2>4. PICK x : x = [r EXCEPT !.update = u]
    OBVIOUS
  <2>5. x \in PriRecords /\ x.state = r.state /\ x.update = u
    BY <2>4 DEF PriRecords
  <2>6. QED
    BY <2>2, <2>3, <2>4, <2>5
<1>3. CASE (r.update # NoUpdate /\ r.update.cred = export) \/ (r.update = NoUpdate /\ r.cred = export)
  BY <1>3, PriFields DEF Queued
<1>4. QED
  BY <1>1, <1>2, <1>3

LEMMA ReadRemoteKeeps ==
  ASSUME SyncInv, ReadRemote
  PROVE  SyncInv'
<1>1. /\ UNCHANGED credential /\ DOMAIN priPoll = {"at", "ans", "export"} /\ priPoll.at = "got"
      /\ priPoll.ans \in RelayRecords /\ priPoll.ans # NoSync /\ priPoll.export \in Nat
  BY PriIs DEF ReadRemote, PriUnchanged, PriAt, PriCarries
<1>2. CASE priPoll.ans.state = "stopped"
  <2>1. priPoll' = [priPoll EXCEPT !.at = "ackStop"] /\ priRecord' = NoRecord
    BY <1>2 DEF ReadRemote, PriGoto
  <2>2. /\ DOMAIN priPoll' = {"at", "ans", "export"} /\ priPoll'.at = "ackStop"
        /\ priPoll'.ans = priPoll.ans
    BY <1>1, <2>1, PollChanged
  <2>3. PriTypes'
    BY <1>1, <2>1, <2>2, PriIs DEF PriTypes, PollShape, PriPlaces, PriCarries
  <2>4. Live => PriVersions'
    BY <1>1, <2>1, <2>2 DEF PriVersions, SyncInv, FollowsVersions
  <2>5. QED
    BY <2>3, <2>4, PriQuiet DEF ReadRemote, PriUnchanged
<1>3. CASE priPoll.ans.state # "stopped" /\ priRecord = NoRecord
  <2>1. priPoll' = PollIdle /\ UNCHANGED priRecord
    BY <1>3 DEF ReadRemote
  <2>2. PriTypes'
    BY <1>1, <2>1, PriIs, IdleIs DEF PriTypes, PollShape, PriPlaces, PriCarries
  <2>3. Live => PriVersions'
    BY <1>1, <2>1, IdleIs DEF PriVersions, SyncInv, FollowsVersions
  <2>4. QED
    BY <2>2, <2>3, PriQuiet DEF ReadRemote, PriUnchanged
<1>4. CASE priPoll.ans.state # "stopped" /\ priRecord # NoRecord
  <2>1. PICK r \in PriRecords, e \in Nat, a \in RelayRecords :
          r = priRecord /\ e = priPoll.export /\ a = priPoll.ans
    BY <1>1, <1>4, PriIs
  <2>2. r.state # "pending"
    BY <1>1, <1>4, <2>1, PriIs DEF PriCarries
  <2>3. PICK q \in PriRecords : q = Adopted(r, a) /\ q.state = r.state
    BY AdoptedIs
  <2>4. PICK s \in PriRecords : /\ s = Queued(q, e) /\ s.state = q.state
                                /\ s.update # NoUpdate => s.update \in Updates /\ s.update.cred = e
    BY QueuedIs
  <2>5. /\ priRecord' = s
        /\ priPoll' = IF s.update = NoUpdate \/ s.update.wait THEN PollIdle
                      ELSE [priPoll EXCEPT !.at = "put", !.export = s.update]
    BY <1>4, <2>1, <2>3, <2>4 DEF ReadRemote
  <2>6. CASE s.update = NoUpdate \/ s.update.wait
    <3>1. priPoll' = PollIdle
      BY <2>5, <2>6
    <3>2. PriTypes'
      BY <1>1, <2>2, <2>3, <2>4, <2>5, <3>1, PriIs, IdleIs DEF PriTypes, PollShape, PriPlaces, PriCarries
    <3>3. Live => PriVersions'
      BY <1>1, <2>1, <2>2, <2>3, <2>4, <2>5, <3>1, IdleIs DEF PriVersions, SyncInv, FollowsVersions
    <3>4. QED
      BY <3>2, <3>3, PriQuiet DEF ReadRemote, PriUnchanged
  <2>7. CASE ~(s.update = NoUpdate \/ s.update.wait)
    <3>1. PICK u \in Updates : u = s.update /\ u.cred = e /\ u # NoUpdate
      BY <2>4, <2>7
    <3>2. priPoll' = [priPoll EXCEPT !.at = "put", !.export = u]
      BY <2>5, <2>7, <3>1
    <3>3. /\ DOMAIN priPoll' = {"at", "ans", "export"} /\ priPoll'.at = "put"
          /\ priPoll'.ans = priPoll.ans /\ priPoll'.export = u
      BY <1>1, <3>2, PollChanged
    <3>4. PriTypes'
      BY <1>1, <2>2, <2>3, <2>4, <2>5, <3>1, <3>3, PriIs DEF PriTypes, PollShape, PriPlaces, PriCarries
    <3>5. Live => PriVersions'
      BY <1>1, <2>1, <2>2, <2>3, <2>4, <2>5, <3>1, <3>3
         DEF PriVersions, SyncInv, FollowsVersions, AllPublished, ReadRemote, relayVars
    <3>6. QED
      BY <3>4, <3>5, PriQuiet DEF ReadRemote, PriUnchanged
  <2>8. QED
    BY <2>6, <2>7
<1>5. QED
  BY <1>2, <1>3, <1>4

(* A new credential is none older than what is published.                    *)
LEMMA RenewalKeeps ==
  ASSUME SyncInv, Renewal
  PROVE  SyncInv'
<1>1. credential' = credential + 1 /\ credential \in Nat
  BY PriIs DEF Renewal
<1>2. PriTypes' /\ FolTypes' /\ RelayTypes' /\ StoppedForGood'
  BY <1>1 DEF Renewal, SyncInv, SyncTypes, PriTypes, PriCarries, FolTypes, RelayTypes, StoppedForGood,
     PollShape, folVars, relayVars, stopVars
<1>3. Live' = Live
  BY DEF Renewal, stopVars, Live
<1>4. ASSUME Live
      PROVE  RelayVersions'
  <2>1. RelayVersions /\ UNCHANGED <<relaySync, published>>
    BY <1>4 DEF Renewal, relayVars, SyncInv, FollowsVersions
  <2>2. \A v \in DOMAIN published : published[v] \in Nat /\ published[v] <= credential
    BY <2>1 DEF RelayVersions, AllPublished
  <2>3. QED
    BY <1>1, <2>1, <2>2 DEF RelayVersions, AllPublished
<1>5. ASSUME Live
      PROVE  PriVersions' /\ FolStores'
  <2>1. PriVersions /\ FolStores /\ UNCHANGED <<relayVars, folVars, stopVars, priRecord, priPoll>>
    BY <1>5 DEF Renewal, SyncInv, FollowsVersions
  <2>2. FolStores'
    BY <2>1 DEF FolStores, relayVars, folVars, stopVars
  <2>3. priRecord # NoRecord /\ priRecord.update # NoUpdate => priRecord.update.cred \in Nat
    BY PriIs, PriFields DEF Updates
  <2>4. /\ priPoll.at \in {"create", "put"} => priPoll.export.cred \in Nat
        /\ priPoll.at \in {"get", "got"} => priPoll.export \in Nat
    BY PriIs DEF PriCarries, Updates
  <2>5. PriVersions'
    BY <1>1, <2>1, <2>3, <2>4 DEF PriVersions, AllPublished, relayVars
  <2>6. QED
    BY <2>2, <2>5
<1>6. QED
  BY <1>2, <1>3, <1>4, <1>5 DEF SyncInv, SyncTypes, FollowsVersions

-----------------------------------------------------------------------------
(* The requests of the primary.                                              *)

(* An acknowledgement leaves a record as it is but for what is acknowledged,    *)
(* and may prune one that is stopped.                                        *)
LEMMA AcknowledgedIs ==
  ASSUME relaySync \in RelayRecords \cup {NoSync}, NEW side \in Sides, NEW version \in Nat,
         Acknowledged(side, version)
  PROVE  /\ relaySync' \in RelayRecords \cup {NoSync}
         /\ relaySync' # NoSync => relaySync # NoSync /\ relaySync'.state = relaySync.state
         /\ side = "primary" /\ relaySync # NoSync /\ relaySync.state = "active" => UNCHANGED relaySync
         /\ relaySync # NoSync /\ relaySync.state = "active" =>
              /\ relaySync' # NoSync
              /\ relaySync'.version = relaySync.version /\ relaySync'.cred = relaySync.cred
              /\ relaySync'.ack \in {relaySync.ack, version}
<1>1. CASE UNCHANGED relaySync
  <2>1. relaySync # NoSync => relaySync \in RelayRecords
    OBVIOUS
  <2>2. QED
    BY <1>1, <2>1, RelayFields
<1>2. CASE relaySync # NoSync /\ relaySync' # relaySync
  <2>1. PICK r \in RelayRecords : r = relaySync
    BY <1>2
  <2>2. PICK ack \in Nat : /\ ack \in {r.ack, version}
                           /\ ack = IF side = "follower" /\ version > r.ack THEN version ELSE r.ack
    BY RelayFields
  <2>3. PICK acks \in SUBSET Sides : acks = r.acks \cup {side}
    BY RelayFields
  <2>4. CASE r.state = "active"
    <3>1. relaySync' = [r EXCEPT !.ack = ack] /\ side # "primary"
      BY <1>2, <2>1, <2>2, <2>4 DEF Acknowledged
    <3>2. relaySync' \in RelayRecords /\ relaySync'.state = r.state /\ relaySync'.version = r.version
          /\ relaySync'.cred = r.cred /\ relaySync'.ack = ack
      BY <3>1 DEF RelayRecords
    <3>3. QED
      BY <2>1, <2>2, <3>1, <3>2, RelayFields
  <2>5. CASE r.state # "active" /\ acks = Sides
    BY <1>2, <2>1, <2>2, <2>3, <2>5 DEF Acknowledged
  <2>6. CASE r.state # "active" /\ acks # Sides
    <3>1. relaySync' = [r EXCEPT !.ack = ack, !.acks = acks]
      BY <1>2, <2>1, <2>2, <2>3, <2>6 DEF Acknowledged
    <3>2. relaySync' \in RelayRecords /\ relaySync'.state = r.state
      BY <3>1 DEF RelayRecords
    <3>3. QED
      BY <2>1, <2>6, <3>2, RelayFields
  <2>7. QED
    BY <2>4, <2>5, <2>6
<1>3. QED
  BY <1>1, <1>2 DEF Acknowledged

(* What the follower has stored stays stored when more is published.          *)
LEMMA MorePublished ==
  ASSUME SyncInv, PriTypes', RelayTypes', StoppedForGood', UNCHANGED <<folVars, stopVars>>,
         Live' => /\ Live /\ RelayVersions' /\ PriVersions'
                  /\ \A v \in DOMAIN published :
                       v \in DOMAIN published' /\ published'[v] = published[v]
                  /\ relaySync' # NoSync /\ relaySync'.ack > 0 =>
                       relaySync # NoSync /\ relaySync.ack = relaySync'.ack
  PROVE  SyncInv'
<1>1. FolTypes'
  BY DEF SyncInv, SyncTypes, FolTypes, PollShape, folVars
<1>2. ASSUME Live'
      PROVE  FolStores'
  <2>1. FolStores
    BY <1>2 DEF SyncInv, FollowsVersions
  <2>2. QED
    BY <1>2, <2>1 DEF FolStores, folVars, stopVars
<1>3. QED
  BY <1>1, <1>2 DEF SyncInv, SyncTypes, FollowsVersions

LEMMA PriAcksStopKeeps ==
  ASSUME SyncInv, PriAcksStop
  PROVE  SyncInv'
<1>1. PICK v \in Nat : v = priPoll.ans.version
  BY PriIs, RelayFields DEF PriAcksStop, PriAt, PriCarries
<1>2. UNCHANGED relaySync \/ Acknowledged("primary", v)
  BY <1>1 DEF PriAcksStop
<1>3. relaySync \in RelayRecords \cup {NoSync} /\ "primary" \in Sides
  BY DEF SyncInv, SyncTypes, RelayTypes, Sides
<1>4. /\ relaySync' \in RelayRecords \cup {NoSync}
      /\ relaySync' # NoSync => relaySync # NoSync /\ relaySync'.state = relaySync.state
      /\ relaySync # NoSync /\ relaySync.state = "active" => UNCHANGED relaySync
  BY <1>2, <1>3, AcknowledgedIs
<1>5. RelayTypes' /\ StoppedForGood'
  BY <1>4 DEF PriAcksStop, PriUnchanged, stopVars, RelayTypes, StoppedForGood, SyncInv, SyncTypes
<1>6. priPoll' = PollIdle /\ UNCHANGED <<priRecord, credential, folVars, stopVars, recreated, published>>
  BY DEF PriAcksStop, PriUnchanged
<1>7. PriTypes'
  BY <1>6, PriIs, IdleIs DEF PriTypes, PollShape, PriPlaces, PriCarries
<1>8. ASSUME Live'
      PROVE  /\ Live /\ RelayVersions' /\ PriVersions'
             /\ relaySync' # NoSync => relaySync # NoSync /\ relaySync.ack = relaySync'.ack
  <2>1. Live
    BY <1>6, <1>8 DEF Live, stopVars
  <2>2. RelayVersions /\ PriVersions
    BY <2>1 DEF SyncInv, FollowsVersions
  <2>3. UNCHANGED relaySync
    BY <1>4, <2>2 DEF RelayVersions
  <2>4. QED
    BY <1>6, <2>1, <2>2, <2>3, IdleIs DEF RelayVersions, PriVersions, AllPublished
<1>9. QED
  BY <1>5, <1>6, <1>7, <1>8, MorePublished

(* The first version: there is none before it.                               *)
LEMMA CreateSyncKeeps ==
  ASSUME SyncInv, CreateSync
  PROVE  SyncInv'
<1>1. PICK u \in Updates : u = priPoll.export
  BY PriIs DEF CreateSync, PriAt, PriCarries
<1>2. priPoll.at = "create" /\ UNCHANGED <<priRecord, credential, folVars, stopVars>>
  BY DEF CreateSync, PriAt, PriUnchanged
<1>3. relaySync \in RelayRecords \cup {NoSync} /\ stopAsked \in BOOLEAN /\ recreated \in BOOLEAN
  BY DEF SyncInv, SyncTypes, RelayTypes
<1>4. PICK fate \in Fates :
        /\ IF fate # "lost" /\ relaySync = NoSync THEN Created(u) ELSE UNCHANGED relayVars
        /\ priPoll' = [priPoll EXCEPT !.at = "created",
                         !.ans = IF fate = "answered" THEN relaySync' ELSE NoSync]
        /\ recreated' = (recreated \/ (fate # "lost" /\ relaySync = NoSync /\ stopAsked))
  BY <1>1 DEF CreateSync
<1>5. relaySync' \in RelayRecords \cup {NoSync}
  <2>1. CASE fate # "lost" /\ relaySync = NoSync
    <3>1. PICK v \in Nat, c \in Nat : v = u.version /\ c = u.cred
      BY DEF Updates
    <3>2. relaySync' = [version |-> v, cred |-> c, state |-> "active", ack |-> 0, acks |-> {}]
      BY <1>4, <2>1, <3>1 DEF Created
    <3>3. QED
      BY <3>2 DEF RelayRecords
  <2>2. CASE ~(fate # "lost" /\ relaySync = NoSync)
    BY <1>3, <1>4, <2>2 DEF relayVars
  <2>3. QED
    BY <2>1, <2>2
<1>6. PICK ans \in RelayRecords \cup {NoSync} : priPoll' = [priPoll EXCEPT !.at = "created", !.ans = ans]
  BY <1>4, <1>5
<1>7. /\ DOMAIN priPoll' = {"at", "ans", "export"} /\ priPoll'.at = "created" /\ priPoll'.ans = ans
      /\ priPoll'.export = u
  BY <1>1, <1>6, PriIs, PollChanged
<1>8. PriTypes'
  BY <1>2, <1>7, PriIs DEF PriTypes, PollShape, PriPlaces, PriCarries
<1>9. recreated' \in BOOLEAN
  BY <1>4
<1>10. RelayTypes'
  BY <1>2, <1>5, <1>9 DEF RelayTypes, SyncInv, SyncTypes, stopVars
<1>11. StoppedForGood'
  BY <1>2, <1>4 DEF StoppedForGood, SyncInv, stopVars, relayVars
<1>12. ASSUME Live'
       PROVE  /\ Live /\ RelayVersions' /\ PriVersions'
              /\ \A v \in DOMAIN published : v \in DOMAIN published' /\ published'[v] = published[v]
              /\ relaySync' # NoSync /\ relaySync'.ack > 0 =>
                   relaySync # NoSync /\ relaySync.ack = relaySync'.ack
  <2>1. Live
    BY <1>2, <1>4, <1>12 DEF Live, stopVars
  <2>2. RelayVersions /\ PriVersions
    BY <2>1 DEF SyncInv, FollowsVersions
  <2>3. PriVersions'
    BY <1>2, <1>7, <2>2 DEF PriVersions
  <2>4. CASE fate # "lost" /\ relaySync = NoSync
    <3>1. PICK c \in Nat : c = u.cred
      BY DEF Updates
    <3>2. /\ u.version = 1 /\ c <= credential /\ published = <<>>
      BY <1>1, <1>2, <2>2, <2>4, <3>1 DEF PriVersions, RelayVersions
    <3>3. /\ relaySync' = [version |-> 1, cred |-> c, state |-> "active", ack |-> 0, acks |-> {}]
          /\ published' = <<c>>
      BY <1>4, <2>4, <3>1, <3>2 DEF Created
    <3>4. /\ relaySync' # NoSync /\ relaySync'.version = 1 /\ relaySync'.cred = c
          /\ relaySync'.state = "active" /\ relaySync'.ack = 0
      BY <1>5, <3>3, NothingIs DEF RelayRecords
    <3>5. DOMAIN published' = 1..1 /\ published'[1] = c /\ published' \in [1..1 -> Nat]
      BY <3>3
    <3>6. RelayVersions'
      BY <1>2, <3>2, <3>4, <3>5 DEF RelayVersions, AllPublished
    <3>7. QED
      BY <2>1, <2>3, <3>2, <3>4, <3>6
  <2>5. CASE ~(fate # "lost" /\ relaySync = NoSync)
    BY <1>2, <1>4, <2>1, <2>2, <2>3, <2>5 DEF relayVars, RelayVersions, AllPublished
  <2>6. QED
    BY <2>4, <2>5
<1>13. QED
  BY <1>2, <1>8, <1>10, <1>11, <1>12, MorePublished

(* A later version: no older credential than those before it.                 *)
LEMMA PutSnapshotKeeps ==
  ASSUME SyncInv, PutSnapshot
  PROVE  SyncInv'
<1>1. PICK u \in Updates : u = priPoll.export
  BY PriIs DEF PutSnapshot, PriAt, PriCarries
<1>2. priPoll.at = "put" /\ UNCHANGED <<priRecord, credential, folVars, stopVars, recreated>>
  BY DEF PutSnapshot, PriAt, PriUnchanged
<1>3. relaySync \in RelayRecords \cup {NoSync}
  BY DEF SyncInv, SyncTypes, RelayTypes
<1>4. PICK fate \in Fates :
        /\ IF fate # "lost" /\ Putable(u) THEN Put(u) ELSE UNCHANGED relayVars
        /\ priPoll' = [priPoll EXCEPT !.at = "answered",
                         !.ans = IF fate = "answered" /\ Putable(u) THEN relaySync' ELSE NoSync]
  BY <1>1 DEF PutSnapshot
<1>5. PICK v \in Nat, c \in Nat : v = u.version /\ c = u.cred
  BY DEF Updates
<1>6. ASSUME fate # "lost", Putable(u)
      PROVE  /\ relaySync' \in RelayRecords /\ relaySync # NoSync /\ relaySync'.version = v
             /\ relaySync.state = "active" /\ relaySync'.state = "active"
             /\ relaySync'.cred = c /\ relaySync'.ack = relaySync.ack /\ v > relaySync.version
  <2>1. PICK r \in RelayRecords : r = relaySync /\ r.state = "active" /\ v > r.version
    BY <1>3, <1>5, <1>6 DEF Putable
  <2>2. relaySync' = [r EXCEPT !.version = v, !.cred = c]
    BY <1>4, <1>5, <1>6, <2>1 DEF Put
  <2>3. relaySync' \in RelayRecords /\ relaySync'.version = v /\ relaySync'.state = r.state
        /\ relaySync'.cred = c /\ relaySync'.ack = r.ack
    BY <2>2 DEF RelayRecords
  <2>4. QED
    BY <1>6, <2>1, <2>3 DEF Putable
<1>7. relaySync' \in RelayRecords \cup {NoSync}
  BY <1>3, <1>4, <1>6 DEF relayVars
<1>8. PICK ans \in RelayRecords \cup {NoSync} : priPoll' = [priPoll EXCEPT !.at = "answered", !.ans = ans]
  BY <1>4, <1>7
<1>9. /\ DOMAIN priPoll' = {"at", "ans", "export"} /\ priPoll'.at = "answered" /\ priPoll'.ans = ans
      /\ priPoll'.export = u
  BY <1>1, <1>8, PriIs, PollChanged
<1>10. PriTypes'
  BY <1>2, <1>9, PriIs DEF PriTypes, PollShape, PriPlaces, PriCarries
<1>11. RelayTypes'
  BY <1>2, <1>7 DEF RelayTypes, SyncInv, SyncTypes, stopVars
<1>12. StoppedForGood'
  BY <1>2, <1>4, <1>6 DEF StoppedForGood, SyncInv, stopVars, relayVars
<1>13. ASSUME Live'
       PROVE  /\ Live /\ RelayVersions' /\ PriVersions'
              /\ \A w \in DOMAIN published : w \in DOMAIN published' /\ published'[w] = published[w]
              /\ relaySync' # NoSync /\ relaySync'.ack > 0 =>
                   relaySync # NoSync /\ relaySync.ack = relaySync'.ack
  <2>1. Live
    BY <1>2, <1>13 DEF Live, stopVars
  <2>2. RelayVersions /\ PriVersions
    BY <2>1 DEF SyncInv, FollowsVersions
  <2>3. PriVersions'
    BY <1>2, <1>9, <2>2 DEF PriVersions
  <2>4. CASE fate # "lost" /\ Putable(u)
    <3>1. PICK n \in Nat : n = relaySync.version /\ n # 0 /\ n < v /\ published \in [1..n -> Nat]
      BY <1>6, <2>2, <2>4 DEF RelayVersions
    <3>2. c <= credential /\ \A w \in 1..n : published[w] <= c
      BY <1>1, <1>2, <1>5, <2>2, <3>1 DEF PriVersions, AllPublished
    <3>3. published' = [w \in 1..v |-> IF w \in 1..n THEN published[w] ELSE c]
      BY <1>4, <1>5, <2>4, <3>1 DEF Put
    <3>4. /\ published' \in [1..v -> Nat] /\ published'[v] = c
          /\ \A w \in 1..n : published'[w] = published[w]
          /\ \A w \in 1..v : w \notin 1..n => published'[w] = c
      BY <3>1, <3>3
    <3>5. \A w, x \in 1..n : w <= x => published[w] <= published[x]
      BY <1>6, <2>2, <2>4, <3>1 DEF RelayVersions
    <3>6. \A w, x \in 1..v : w <= x => published'[w] <= published'[x]
      BY <3>1, <3>2, <3>4, <3>5
    <3>7. \A w \in 1..v : published'[w] <= credential
      <4>1. credential \in Nat
        BY PriIs
      <4>2. \A w \in 1..n : published[w] \in Nat
        BY <3>1
      <4>3. QED
        BY <3>2, <3>4, <4>1, <4>2
    <3>8. RelayVersions'
      BY <1>2, <1>6, <2>4, <3>1, <3>4, <3>6, <3>7, NothingIs DEF RelayVersions, AllPublished
    <3>9. QED
      BY <1>6, <2>1, <2>3, <2>4, <3>1, <3>4, <3>8
  <2>5. CASE ~(fate # "lost" /\ Putable(u))
    BY <1>2, <1>4, <2>1, <2>2, <2>3, <2>5 DEF relayVars, RelayVersions, AllPublished
  <2>6. QED
    BY <2>4, <2>5
<1>14. QED
  BY <1>2, <1>10, <1>11, <1>12, <1>13, MorePublished

-----------------------------------------------------------------------------
(* The follower.                                                             *)

LEMMA FolIs ==
  ASSUME SyncInv
  PROVE  /\ folRecord # NoRecord => folRecord \in FolRecords
         /\ folFile \in FolRecords \cup {NoRecord} /\ folAccount \in Nat
         /\ DOMAIN folPoll = {"at", "ans", "export"} /\ folPoll.at \in FolPlaces
         /\ folPoll.ans \in RelayRecords \cup {NoSync}
         /\ folPoll.at # "idle" => folPoll.ans \in RelayRecords /\ folPoll.ans # NoSync
BY DEF SyncInv, SyncTypes, FolTypes, PollShape

(* A record of the follower with another version, or another acknowledgement. *)
LEMMA FolChanged ==
  ASSUME NEW r \in FolRecords, NEW v \in Nat
  PROVE  /\ r.version \in Nat /\ r.ack \in Nat /\ r # NoRecord
         /\ [r EXCEPT !.version = v] \in FolRecords /\ [r EXCEPT !.version = v].version = v
         /\ [r EXCEPT !.ack = v] \in FolRecords /\ [r EXCEPT !.ack = v].version = r.version
BY NothingIs DEF FolRecords

LEMMA FolPollsKeeps ==
  ASSUME SyncInv, FolPolls
  PROVE  SyncInv'
<1>1. /\ relaySync # NoSync /\ folPoll' = [PollIdle EXCEPT !.at = "inbox", !.ans = relaySync]
      /\ UNCHANGED <<folRecord, folFile, folAccount, published, stopVars>>
  BY DEF FolPolls, Listed, relayVars, FolUnchanged
<1>2. relaySync \in RelayRecords
  BY <1>1 DEF SyncInv, SyncTypes, RelayTypes
<1>3. /\ DOMAIN folPoll' = {"at", "ans", "export"} /\ folPoll'.at = "inbox" /\ folPoll'.ans = relaySync
  BY <1>1, IdleIs, PollChanged
<1>4. FolTypes'
  BY <1>1, <1>2, <1>3 DEF FolTypes, PollShape, FolPlaces, SyncInv, SyncTypes
<1>5. ASSUME Live
      PROVE  FolStores'
  <2>1. RelayVersions /\ FolStores
    BY <1>5 DEF SyncInv, FollowsVersions
  <2>2. /\ relaySync.state = "active" /\ relaySync.version \in DOMAIN published
        /\ relaySync.cred = published[relaySync.version]
    BY <1>1, <2>1 DEF RelayVersions
  <2>3. QED
    BY <1>1, <1>3, <2>1, <2>2 DEF FolPolls, relayVars, FolStores, stopVars
<1>6. QED
  BY <1>4, <1>5, FolQuiet DEF FolPolls, FolUnchanged

LEMMA ReadInboxKeeps ==
  ASSUME SyncInv, ReadInbox
  PROVE  SyncInv'
<1>1. /\ folPoll.at = "inbox" /\ folPoll.ans \in RelayRecords /\ folPoll.ans # NoSync
      /\ DOMAIN folPoll = {"at", "ans", "export"} /\ UNCHANGED <<folFile, folAccount, published, relaySync, stopVars>>
  BY FolIs DEF ReadInbox, FolAt, FolUnchanged, relayVars
<1>2. CASE folPoll.ans.state = "stopped"
  <2>1. PICK at \in {"wipe", "ackStop"} : folPoll' = [folPoll EXCEPT !.at = at] /\ folRecord' = NoRecord
    BY <1>2 DEF ReadInbox, FolGoto
  <2>2. DOMAIN folPoll' = {"at", "ans", "export"} /\ folPoll'.at = at /\ folPoll'.ans = folPoll.ans
    BY <1>1, <2>1, PollChanged
  <2>3. FolTypes'
    BY <1>1, <2>1, <2>2, FolIs DEF FolTypes, PollShape, FolPlaces
  <2>4. ~Live
    BY <1>1, <1>2 DEF SyncInv, FollowsVersions, FolStores
  <2>5. QED
    BY <2>3, <2>4, FolQuiet DEF ReadInbox, FolUnchanged
<1>3. CASE folPoll.ans.state # "stopped" /\ (folRecord = NoRecord \/ folPoll.ans.version > folRecord.version)
  <2>1. PICK e : e = (folRecord # NoRecord)
    OBVIOUS
  <2>2. folPoll' = [folPoll EXCEPT !.at = "apply", !.export = e] /\ UNCHANGED folRecord
    BY <1>3, <2>1 DEF ReadInbox
  <2>3. /\ DOMAIN folPoll' = {"at", "ans", "export"} /\ folPoll'.at = "apply"
        /\ folPoll'.ans = folPoll.ans /\ folPoll'.export = e
    BY <1>1, <2>2, PollChanged
  <2>4. FolTypes'
    BY <1>1, <2>2, <2>3, FolIs DEF FolTypes, PollShape, FolPlaces
  <2>5. folRecord # NoRecord => folRecord.version < folPoll.ans.version
    BY <1>1, <1>3, FolIs, RelayFields DEF FolRecords
  <2>6. Live => FolStores'
    BY <1>1, <2>1, <2>2, <2>3, <2>5 DEF SyncInv, FollowsVersions, FolStores, stopVars
  <2>7. QED
    BY <2>4, <2>6, FolQuiet DEF ReadInbox, FolUnchanged
<1>4. CASE /\ folPoll.ans.state # "stopped" /\ folRecord # NoRecord
           /\ ~(folPoll.ans.version > folRecord.version)
  <2>1. CASE folRecord.ack < folRecord.version
    <3>1. folPoll' = [folPoll EXCEPT !.at = "ack"] /\ UNCHANGED folRecord
      BY <1>4, <2>1 DEF ReadInbox, FolGoto
    <3>2. DOMAIN folPoll' = {"at", "ans", "export"} /\ folPoll'.at = "ack" /\ folPoll'.ans = folPoll.ans
      BY <1>1, <3>1, PollChanged
    <3>3. FolTypes'
      BY <1>1, <3>1, <3>2, FolIs DEF FolTypes, PollShape, FolPlaces
    <3>4. Live => FolStores'
      BY <1>1, <1>4, <3>1, <3>2 DEF SyncInv, FollowsVersions, FolStores, stopVars
    <3>5. QED
      BY <3>3, <3>4, FolQuiet DEF ReadInbox, FolUnchanged
  <2>2. CASE ~(folRecord.ack < folRecord.version)
    <3>1. folPoll' = PollIdle /\ UNCHANGED folRecord
      BY <1>4, <2>2 DEF ReadInbox
    <3>2. FolTypes'
      BY <1>1, <3>1, FolIs, IdleIs DEF FolTypes, PollShape, FolPlaces
    <3>3. Live => FolStores'
      BY <1>1, <3>1, IdleIs DEF SyncInv, FollowsVersions, FolStores, stopVars
    <3>4. QED
      BY <3>2, <3>3, FolQuiet DEF ReadInbox, FolUnchanged
  <2>3. QED
    BY <2>1, <2>2
<1>5. QED
  BY <1>2, <1>3, <1>4

LEMMA WipeStoppedKeeps ==
  ASSUME SyncInv, WipeStopped
  PROVE  SyncInv'
<1>1. /\ folPoll.at = "wipe" /\ folPoll' = [folPoll EXCEPT !.at = "ackStop"]
      /\ folAccount' = 0 /\ folFile' = folRecord /\ UNCHANGED folRecord
  BY DEF WipeStopped, FolAt, FolGoto
<1>2. DOMAIN folPoll' = {"at", "ans", "export"} /\ folPoll'.at = "ackStop" /\ folPoll'.ans = folPoll.ans
  BY <1>1, FolIs, PollChanged
<1>3. FolTypes'
  BY <1>1, <1>2, FolIs DEF FolTypes, PollShape, FolPlaces
<1>4. ~Live
  BY <1>1 DEF SyncInv, FollowsVersions, FolStores
<1>5. QED
  BY <1>3, <1>4, FolQuiet DEF WipeStopped, FolUnchanged

LEMMA ApplySnapshotKeeps ==
  ASSUME SyncInv, ApplySnapshot
  PROVE  SyncInv'
<1>1. /\ folPoll.at = "apply" /\ folPoll' = [folPoll EXCEPT !.at = "record"]
      /\ folAccount' = folPoll.ans.cred /\ folPoll.ans \in RelayRecords /\ folPoll.ans # NoSync
      /\ UNCHANGED <<folRecord, folFile, published, relaySync, stopVars>>
  BY FolIs DEF ApplySnapshot, FolAt, FolGoto, FolUnchanged, relayVars
<1>2. /\ DOMAIN folPoll' = {"at", "ans", "export"} /\ folPoll'.at = "record"
      /\ folPoll'.ans = folPoll.ans /\ folPoll'.export = folPoll.export
  BY <1>1, FolIs, PollChanged
<1>3. FolTypes'
  BY <1>1, <1>2, FolIs, RelayFields DEF FolTypes, PollShape, FolPlaces
<1>4. ASSUME Live
      PROVE  FolStores'
  <2>1. RelayVersions /\ FolStores
    BY <1>4 DEF SyncInv, FollowsVersions
  <2>2. folRecord # NoRecord => published[folRecord.version] <= folPoll.ans.cred
    <3>1. SUFFICES ASSUME folRecord # NoRecord
                   PROVE  published[folRecord.version] <= folPoll.ans.cred
      OBVIOUS
    <3>2. /\ folRecord.version \in DOMAIN published /\ folPoll.ans.version \in DOMAIN published
          /\ folRecord.version < folPoll.ans.version
          /\ folPoll.ans.cred = published[folPoll.ans.version]
      BY <1>1, <2>1, <3>1 DEF FolStores
    <3>3. relaySync # NoSync
      BY <2>1, <3>2 DEF RelayVersions
    <3>4. PICK n \in Nat : n = relaySync.version /\ DOMAIN published = 1..n
      BY <2>1, <3>3 DEF RelayVersions
    <3>5. \A v, w \in 1..n : v <= w => published[v] <= published[w]
      BY <2>1, <3>3, <3>4 DEF RelayVersions
    <3>6. QED
      BY <3>2, <3>4, <3>5
  <2>3. QED
    BY <1>1, <1>2, <2>1, <2>2 DEF FolStores, stopVars
<1>5. QED
  BY <1>3, <1>4, FolQuiet DEF ApplySnapshot, FolUnchanged

LEMMA RecordSnapshotKeeps ==
  ASSUME SyncInv, RecordSnapshot
  PROVE  SyncInv'
<1>1. /\ folPoll.at = "record" /\ folPoll' = [folPoll EXCEPT !.at = "ack"] /\ folFile' = folRecord'
      /\ folPoll.ans \in RelayRecords /\ folPoll.ans # NoSync
      /\ UNCHANGED <<folAccount, published, relaySync, stopVars>>
  BY FolIs DEF RecordSnapshot, FolAt, FolGoto, FolUnchanged, relayVars
<1>2. /\ DOMAIN folPoll' = {"at", "ans", "export"} /\ folPoll'.at = "ack" /\ folPoll'.ans = folPoll.ans
  BY <1>1, FolIs, PollChanged
<1>3. PICK v \in Nat : v = folPoll.ans.version
  BY <1>1, RelayFields
<1>4. \/ folRecord' \in FolRecords /\ folRecord'.version = v
      \/ folRecord' = NoRecord /\ folRecord = NoRecord /\ folPoll.export
  <2>1. CASE folRecord # NoRecord
    <3>1. PICK r \in FolRecords : r = folRecord
      BY <2>1, FolIs
    <3>2. folRecord' = [r EXCEPT !.version = v]
      BY <1>3, <2>1, <3>1 DEF RecordSnapshot
    <3>3. QED
      BY <3>2, FolChanged
  <2>2. CASE folRecord = NoRecord /\ folPoll.export
    BY <2>2 DEF RecordSnapshot
  <2>3. CASE folRecord = NoRecord /\ ~folPoll.export
    <3>1. folRecord' = [version |-> v, ack |-> 0]
      BY <1>3, <2>3 DEF RecordSnapshot
    <3>2. QED
      BY <3>1 DEF FolRecords
  <2>4. QED
    BY <2>1, <2>2, <2>3
<1>5. FolTypes'
  BY <1>1, <1>2, <1>4, FolIs DEF FolTypes, PollShape, FolPlaces
<1>6. ASSUME Live
      PROVE  FolStores'
  <2>1. FolStores
    BY <1>6 DEF SyncInv, FollowsVersions
  <2>2. folPoll.export = (folRecord # NoRecord)
    BY <1>1, <2>1 DEF FolStores
  <2>3. folRecord' \in FolRecords /\ folRecord'.version = v /\ folRecord' # NoRecord
    BY <1>4, <2>2, FolChanged
  <2>4. /\ v \in DOMAIN published /\ published[v] = folAccount
        /\ folRecord # NoRecord => folRecord.version < v
    BY <1>1, <1>3, <2>1 DEF FolStores
  <2>5. published[v] <= folAccount
    BY <2>4, FolIs
  <2>6. relaySync # NoSync /\ relaySync.ack > 0 => relaySync.ack <= v
    <3>1. SUFFICES ASSUME relaySync # NoSync, relaySync.ack > 0
                   PROVE  relaySync.ack <= v
      OBVIOUS
    <3>2. relaySync.ack \in Nat
      BY <3>1, RelayFields DEF SyncInv, SyncTypes, RelayTypes
    <3>3. folRecord # NoRecord /\ relaySync.ack <= folRecord.version
      BY <2>1, <3>1 DEF FolStores
    <3>4. folRecord.version \in Nat
      BY <3>3, FolIs, FolChanged, 0 \in Nat
    <3>5. QED
      BY <2>4, <3>2, <3>3, <3>4
  <2>7. QED
    BY <1>1, <1>2, <2>1, <2>3, <2>4, <2>5, <2>6 DEF FolStores, stopVars
<1>7. QED
  BY <1>5, <1>6, FolQuiet DEF RecordSnapshot, FolUnchanged

(* What the follower acknowledges it has recorded.                           *)
LEMMA AckVersionKeeps ==
  ASSUME SyncInv, AckVersion
  PROVE  SyncInv'
<1>1. /\ folPoll.at = "ack" /\ folPoll.ans \in RelayRecords /\ folPoll.ans # NoSync
      /\ folPoll' = PollIdle /\ UNCHANGED <<priVars, stopVars, folAccount, published, recreated>>
  BY FolIs DEF AckVersion, FolAt, FolUnchanged
<1>2. PICK v \in Nat : v = IF folRecord # NoRecord THEN folRecord.version ELSE folPoll.ans.version
  BY <1>1, FolIs, FolChanged, RelayFields, 0 \in Nat
<1>3. PICK fate \in Fates :
        /\ IF fate = "lost" THEN UNCHANGED relaySync ELSE Acknowledged("follower", v)
        /\ folRecord' = IF fate = "answered" /\ relaySync # NoSync /\ folRecord # NoRecord
                          THEN [folRecord EXCEPT !.ack = v] ELSE folRecord
        /\ folFile' = IF fate = "answered" THEN folRecord' ELSE folFile
  BY <1>2 DEF AckVersion
<1>4. relaySync \in RelayRecords \cup {NoSync} /\ "follower" \in Sides
  BY DEF SyncInv, SyncTypes, RelayTypes, Sides
<1>5. /\ relaySync' \in RelayRecords \cup {NoSync}
      /\ relaySync' # NoSync => relaySync # NoSync /\ relaySync'.state = relaySync.state
      /\ relaySync # NoSync /\ relaySync.state = "active" =>
           /\ relaySync' # NoSync
           /\ relaySync'.version = relaySync.version /\ relaySync'.cred = relaySync.cred
           /\ relaySync'.ack \in {relaySync.ack, v}
  <2>1. CASE UNCHANGED relaySync
    BY <1>4, <2>1
  <2>2. CASE Acknowledged("follower", v)
    BY <1>4, <2>2, AcknowledgedIs
  <2>3. QED
    BY <1>3, <2>1, <2>2
<1>6. /\ folRecord = NoRecord => folRecord' = NoRecord
      /\ folRecord # NoRecord => folRecord' \in FolRecords /\ folRecord' # NoRecord
                                 /\ folRecord'.version = folRecord.version
  <2>1. CASE folRecord = NoRecord
    BY <1>3, <2>1
  <2>2. CASE folRecord # NoRecord
    <3>1. PICK r \in FolRecords : r = folRecord
      BY <2>2, FolIs
    <3>2. PICK q \in FolRecords : q = [r EXCEPT !.ack = v] /\ q.version = r.version
      BY FolChanged
    <3>3. folRecord' = q \/ folRecord' = r
      BY <1>3, <3>1, <3>2
    <3>4. QED
      BY <2>2, <3>1, <3>2, <3>3, NothingIs
  <2>3. QED
    BY <2>1, <2>2
<1>7. folFile' \in {folRecord', folFile}
  BY <1>3
<1>8. FolTypes'
  BY <1>1, <1>6, <1>7, FolIs, IdleIs DEF FolTypes, PollShape, FolPlaces
<1>9. PriTypes'
  BY <1>1 DEF SyncInv, SyncTypes, PriTypes, PriCarries, PollShape, priVars
<1>10. RelayTypes' /\ StoppedForGood'
  BY <1>1, <1>5 DEF RelayTypes, StoppedForGood, SyncInv, SyncTypes, stopVars
<1>11. ASSUME Live'
       PROVE  FollowsVersions'
  <2>1. FollowsVersions /\ RelayVersions /\ PriVersions /\ FolStores
    BY <1>1, <1>11 DEF Live, stopVars, SyncInv, FollowsVersions
  <2>2. PriVersions'
    BY <1>1, <2>1 DEF PriVersions, priVars, AllPublished
  <2>3. folRecord # NoRecord /\ v = folRecord.version /\ v \in DOMAIN published
    BY <1>1, <1>2, <2>1 DEF FolStores
  <2>4. relaySync # NoSync /\ relaySync.state = "active"
    BY <2>1, <2>3 DEF RelayVersions
  <2>5. RelayVersions'
    BY <1>1, <1>5, <2>1, <2>4 DEF RelayVersions, AllPublished, priVars
  <2>6. relaySync'.ack > 0 => relaySync'.ack <= v
    BY <1>5, <2>1, <2>3, <2>4 DEF FolStores
  <2>7. folFile'.version = v /\ folFile # NoRecord /\ (folFile' = NoRecord) = (folRecord' = NoRecord)
    BY <1>6, <1>7, <2>1, <2>3 DEF FolStores
  <2>8. FolStores'
    BY <1>1, <1>6, <2>1, <2>3, <2>6, <2>7, IdleIs DEF FolStores, stopVars
  <2>9. QED
    BY <2>2, <2>5, <2>8 DEF FollowsVersions
<1>12. QED
  BY <1>8, <1>9, <1>10, <1>11 DEF SyncInv, SyncTypes

LEMMA FolAcksStopKeeps ==
  ASSUME SyncInv, FolAcksStop
  PROVE  SyncInv'
<1>1. /\ folPoll.at = "ackStop" /\ folPoll.ans \in RelayRecords /\ folPoll.ans # NoSync
      /\ folPoll' = PollIdle
      /\ UNCHANGED <<priVars, stopVars, folRecord, folFile, folAccount, published, recreated>>
  BY FolIs DEF FolAcksStop, FolAt, FolUnchanged
<1>2. PICK v \in Nat : v = folPoll.ans.version
  BY <1>1, RelayFields
<1>3. UNCHANGED relaySync \/ Acknowledged("follower", v)
  BY <1>2 DEF FolAcksStop
<1>4. relaySync \in RelayRecords \cup {NoSync} /\ "follower" \in Sides
  BY DEF SyncInv, SyncTypes, RelayTypes, Sides
<1>5. /\ relaySync' \in RelayRecords \cup {NoSync}
      /\ relaySync' # NoSync => relaySync # NoSync /\ relaySync'.state = relaySync.state
  BY <1>3, <1>4, AcknowledgedIs
<1>6. FolTypes'
  BY <1>1, FolIs, IdleIs DEF FolTypes, PollShape, FolPlaces
<1>7. PriTypes'
  BY <1>1 DEF SyncInv, SyncTypes, PriTypes, PriCarries, PollShape, priVars
<1>8. RelayTypes' /\ StoppedForGood'
  BY <1>1, <1>5 DEF RelayTypes, StoppedForGood, SyncInv, SyncTypes, stopVars
<1>9. ~Live'
  BY <1>1 DEF SyncInv, FollowsVersions, FolStores, Live, stopVars
<1>10. QED
  BY <1>6, <1>7, <1>8, <1>9, NotLive DEF SyncTypes

-----------------------------------------------------------------------------
(* Stops and restarts.                                                       *)

LEMMA StopSyncKeeps ==
  ASSUME SyncInv, NEW side \in Sides, StopSync(side)
  PROVE  SyncInv'
<1>1. PICK r \in RelayRecords : r = relaySync
  BY DEF StopSync, SyncInv, SyncTypes, RelayTypes
<1>2. PICK p \in [Sides -> {"off", "answered", "wipe"}] : p = stopping
  BY DEF SyncInv, SyncTypes, RelayTypes
<1>3. PICK x \in {"answered", "off"} : stopping' = [p EXCEPT ![side] = x]
  BY <1>2 DEF StopSync
<1>4. stopping' \in [Sides -> {"off", "answered", "wipe"}]
  BY <1>3
<1>5. relaySync' \in RelayRecords /\ relaySync'.state = "stopped"
  <2>1. CASE r.state = "stopped"
    BY <1>1, <2>1 DEF StopSync, Stopped
  <2>2. CASE r.state # "stopped"
    <3>1. PICK acks \in SUBSET Sides : acks = {side}
      OBVIOUS
    <3>2. PICK q : q = [r EXCEPT !.state = "stopped", !.acks = acks]
      OBVIOUS
    <3>3. relaySync' = q
      BY <1>1, <2>2, <3>1, <3>2 DEF StopSync, Stopped
    <3>4. q \in RelayRecords /\ q.state = "stopped"
      BY <3>2 DEF RelayRecords
    <3>5. QED
      BY <3>3, <3>4
  <2>3. QED
    BY <2>1, <2>2
<1>6. stopAsked' = TRUE /\ UNCHANGED <<priVars, folVars, published, recreated>>
  BY DEF StopSync
<1>7. PriTypes' /\ FolTypes'
  BY <1>6 DEF SyncInv, SyncTypes, PriTypes, PriCarries, PollShape, priVars, FolTypes, folVars
<1>8. RelayTypes'
  <2>1. stopAsked' \in BOOLEAN
    BY <1>6
  <2>2. QED
    BY <1>4, <1>5, <1>6, <2>1 DEF RelayTypes, SyncInv, SyncTypes
<1>9. StoppedForGood' /\ ~Live'
  BY <1>5, <1>6 DEF StoppedForGood, Live
<1>10. QED
  BY <1>7, <1>8, <1>9, NotLive DEF SyncTypes

LEMMA ForgetStoppedKeeps ==
  ASSUME SyncInv, NEW side \in Sides, ForgetStopped(side)
  PROVE  SyncInv'
<1>1. UNCHANGED <<credential, priPoll, folPoll, relayVars, stopAsked, recreated>>
  BY DEF ForgetStopped, ForgetSync, priVars
<1>2. PICK p \in [Sides -> {"off", "answered", "wipe"}] : p = stopping
  BY DEF SyncInv, SyncTypes, RelayTypes
<1>3. PICK x \in {"wipe", "off"} : stopping' = [p EXCEPT ![side] = x]
  BY <1>2 DEF ForgetStopped, ForgetSync
<1>4. stopping' \in [Sides -> {"off", "answered", "wipe"}]
  BY <1>3
<1>5. RelayTypes' /\ StoppedForGood'
  BY <1>1, <1>4 DEF RelayTypes, StoppedForGood, SyncInv, SyncTypes, relayVars
<1>6. stopping[side] # "off"
  BY DEF ForgetStopped, ForgetSync
<1>7. ~Live /\ ~Live'
  BY <1>1, <1>6 DEF SyncInv, FollowsVersions, FolStores, Live
<1>8. UNCHANGED priRecord \/ priRecord' = NoRecord
  BY DEF ForgetStopped, ForgetSync, priVars
<1>9. PriTypes'
  BY <1>1, <1>8, PriIs DEF PriTypes, PollShape, PriCarries
<1>10. /\ folRecord' \in {folRecord, NoRecord} /\ folFile' \in {folRecord, folFile}
       /\ folAccount' \in {folAccount, 0}
  BY DEF ForgetStopped, ForgetSync
<1>11. FolTypes'
  BY <1>1, <1>10, FolIs DEF FolTypes, PollShape
<1>12. QED
  BY <1>5, <1>7, <1>9, <1>11, NotLive DEF SyncTypes

(* A restart of the follower: its file is no older than what it acknowledged.   *)
LEMMA RestartsKeeps ==
  ASSUME SyncInv, NEW side \in Sides, Restarts(side)
  PROVE  SyncInv'
<1>1. UNCHANGED <<credential, priRecord, folFile, folAccount, relayVars, stopAsked, recreated>>
  BY DEF Restarts
<1>2. PICK p \in [Sides -> {"off", "answered", "wipe"}] : p = stopping
  BY DEF SyncInv, SyncTypes, RelayTypes
<1>3. PICK x \in {"off"} : stopping' = [p EXCEPT ![side] = x]
  BY <1>2 DEF Restarts
<1>4. stopping' \in [Sides -> {"off", "answered", "wipe"}]
  BY <1>3
<1>5. RelayTypes' /\ StoppedForGood'
  BY <1>1, <1>4 DEF RelayTypes, StoppedForGood, SyncInv, SyncTypes, relayVars
<1>6. priPoll' = PollIdle \/ UNCHANGED priPoll
  BY DEF Restarts
<1>7. \/ UNCHANGED <<folRecord, folPoll>>
      \/ folPoll' = PollIdle /\ folRecord' = folFile
  BY DEF Restarts
<1>8. PriTypes'
  BY <1>1, <1>6, PriIs, IdleIs DEF PriTypes, PollShape, PriCarries, PriPlaces
<1>9. FolTypes'
  BY <1>1, <1>7, FolIs, IdleIs DEF FolTypes, PollShape, FolPlaces
<1>10. ASSUME Live'
       PROVE  FollowsVersions'
  <2>1. RelayVersions /\ PriVersions /\ FolStores
    BY <1>1, <1>10 DEF Live, SyncInv, FollowsVersions
  <2>2. RelayVersions'
    BY <1>1, <2>1 DEF RelayVersions, AllPublished, relayVars
  <2>3. PriVersions'
    BY <1>1, <1>6, <2>1, IdleIs DEF PriVersions, AllPublished, relayVars
  <2>4. \A s \in Sides : stopping'[s] = "off"
    BY <1>2, <1>3, <2>1 DEF FolStores
  <2>5. FolStores'
    BY <1>1, <1>7, <2>1, <2>4, IdleIs DEF FolStores, relayVars
  <2>6. QED
    BY <2>2, <2>3, <2>5 DEF FollowsVersions
<1>11. QED
  BY <1>5, <1>8, <1>9, <1>10 DEF SyncInv, SyncTypes

-----------------------------------------------------------------------------

LEMMA SyncInitHolds ==
  ASSUME SyncInit
  PROVE  SyncInv
<1>1. PICK u \in Updates : u = Update(1, 1) /\ u.version = 1 /\ u.cred = 1 /\ u # NoUpdate
  BY UpdateIs, NothingIs
<1>2. priRecord = [state |-> "pending", version |-> 0, cred |-> 0, update |-> u]
  BY <1>1 DEF SyncInit
<1>3. priRecord \in PriRecords /\ priRecord.update = u
  BY <1>2 DEF PriRecords
<1>4. PriTypes
  BY <1>1, <1>3, IdleIs DEF SyncInit, PriTypes, PollShape, PriPlaces, PriCarries
<1>5. FolTypes
  BY IdleIs DEF SyncInit, FolTypes, PollShape, FolPlaces
<1>6. stopAsked \in BOOLEAN /\ recreated \in BOOLEAN
  BY DEF SyncInit
<1>7. RelayTypes
  BY <1>6 DEF SyncInit, RelayTypes
<1>8. StoppedForGood /\ RelayVersions
  BY DEF SyncInit, StoppedForGood, RelayVersions, AllPublished
<1>9. PriVersions
  BY <1>1, <1>3, IdleIs DEF SyncInit, PriVersions
<1>10. FolStores
  BY IdleIs DEF SyncInit, FolStores
<1>11. QED
  BY <1>4, <1>5, <1>7, <1>8, <1>9, <1>10 DEF SyncInv, SyncTypes, FollowsVersions

LEMMA SyncNextKeeps ==
  ASSUME SyncInv, [SyncNext]_syncVars
  PROVE  SyncInv'
<1>1. CASE UNCHANGED syncVars
  <2>1. PriTypes' /\ UNCHANGED <<credential, folVars, relayVars, stopVars, recreated>>
    BY <1>1 DEF SyncInv, SyncTypes, PriTypes, PollShape, PriCarries, syncVars, priVars
  <2>2. Live => PriVersions'
    BY <1>1 DEF SyncInv, FollowsVersions, PriVersions, AllPublished, syncVars, priVars, relayVars
  <2>3. QED
    BY <2>1, <2>2, PriQuiet
<1>2. CASE PriStep
  BY <1>2, PriPollsKeeps, CreateSyncKeeps, AnswerKeeps, ListSentKeeps, ReadSentKeeps, GetRemoteKeeps,
     ReadRemoteKeeps, PutSnapshotKeeps, PriAcksStopKeeps DEF PriStep
<1>3. CASE FolStep
  BY <1>3, FolPollsKeeps, ReadInboxKeeps, WipeStoppedKeeps, ApplySnapshotKeeps, RecordSnapshotKeeps,
     AckVersionKeeps, FolAcksStopKeeps DEF FolStep
<1>4. CASE \E side \in Sides : StopSync(side) \/ ForgetStopped(side) \/ Restarts(side)
  BY <1>4, StopSyncKeeps, ForgetStoppedKeeps, RestartsKeeps
<1>5. QED
  BY <1>1, <1>2, <1>3, <1>4, RenewalKeeps, BackoffOverKeeps DEF SyncNext

(* A sync keeps its types and, as long as nobody stops it, the relay's versions *)
(* hold credentials in the order of their renewal, no update waits that is      *)
(* older than what is published, and the follower holds what it has recorded.   *)
THEOREM SyncFollowsVersions == SyncSpec => []SyncInv
<1>1. SyncInit => SyncInv
  BY SyncInitHolds
<1>2. SyncInv /\ [SyncNext]_syncVars => SyncInv'
  BY SyncNextKeeps
<1>3. QED
  BY <1>1, <1>2, PTL DEF SyncSpec

(* The relay tells the primary no version acknowledged whose credential, or a   *)
(* newer one, the follower does not hold, whatever is lost and whoever         *)
(* restarts (runs of MCSharing, any number of renewals and faults).            *)
THEOREM AcknowledgedStays == SyncSpec => []AcknowledgedIsStored
<1>1. ASSUME SyncInv
      PROVE  AcknowledgedIsStored
  <2>1. SUFFICES ASSUME relaySync # NoSync, relaySync.state = "active", relaySync.ack > 0, ~recreated
                 PROVE  folAccount >= published[relaySync.ack]
    BY DEF AcknowledgedIsStored
  <2>2. RelayVersions /\ FolStores
    BY <1>1, <2>1 DEF SyncInv, StoppedForGood, Live, FollowsVersions
  <2>3. PICK n \in Nat : n = relaySync.version /\ published \in [1..n -> Nat]
    BY <2>1, <2>2 DEF RelayVersions
  <2>4. relaySync.ack \in Nat /\ folAccount \in Nat
    BY <1>1, <2>1, RelayFields, FolIs DEF SyncInv, SyncTypes, RelayTypes
  <2>5. PICK v \in 1..n : /\ v = folRecord.version /\ relaySync.ack <= v
                          /\ published[v] <= folAccount
    BY <2>1, <2>2, <2>3 DEF FolStores
  <2>6. published[relaySync.ack] <= published[v] /\ relaySync.ack \in 1..n
    BY <2>1, <2>2, <2>3, <2>4, <2>5 DEF RelayVersions
  <2>7. published[relaySync.ack] \in Nat /\ published[v] \in Nat
    BY <2>3, <2>5, <2>6
  <2>8. QED
    BY <2>4, <2>5, <2>6, <2>7
<1>2. QED
  BY <1>1, SyncFollowsVersions, PTL

-----------------------------------------------------------------------------
(***************************************************************************)
(* The loan of accounts.                                                    *)

(* The types.                                                               *)
Creds == [LentAccounts -> Nat]
TransferStates == {"pending", "delivered", "returned", "cancelled", "failed"}
Packages == [ids: SUBSET LentAccounts, cred: Creds]
Transfers ==
  [state: TransferStates, cred: Creds, back: Seq(Packages), confirmed: SUBSET LentAccounts]
OwnLeases ==
  [state: {"shared", "returned", "failed", "expired"}, ids: SUBSET LentAccounts,
   toConfirm: SUBSET LentAccounts]
BorLeases == [state: {"received", "return_pending", "returned", "expired"}, ids: SUBSET LentAccounts]
LeasePolls(places) == [at: places, ans: Transfers \cup {NoTransfer}]
OwnPlaces == {"post", "idle", "mark", "sent", "confirm", "conditions"}
BorPlaces == {"idle", "again", "import", "ack", "refuse"}

LendTypes ==
  /\ newest \in Creds /\ ownCred \in Creds /\ borCred \in Creds
  /\ ownLease \in OwnLeases \cup {NoLease} /\ ownSaved \in OwnLeases \cup {NoLease}
  /\ ownMarked \subseteq LentAccounts
  /\ ownPoll \in LeasePolls(OwnPlaces) /\ transfer \in Transfers \cup {NoTransfer}
  /\ borLease \in BorLeases \cup {NoLease} /\ processed \in BOOLEAN
  /\ borPoll \in LeasePolls(BorPlaces) 
  /\ DOMAIN ret = {"at", "ids", "all", "cred"} /\ ret.at \in {"off", "post", "remove"}
  /\ ret.ids \subseteq LentAccounts /\ ret.cred \in Creds

(* What has come back to the relay, and that of an account that came back more   *)
(* than once one package is the last.                                        *)
Back == Returned(transfer.back)
HasLast(back) ==
  \A x \in Returned(back) : \E i \in DOMAIN back :
    x \in back[i].ids /\ \A j \in DOMAIN back : x \in back[j].ids => j <= i

(* The borrower has nothing of a share that failed, was cancelled, or came too   *)
(* late and was given back with nothing in it.                                *)
GivenUp(t) == t.state \in {"cancelled", "failed"} \/ (t.state = "returned" /\ Returned(t.back) = {})

(* What has been read of the transfer is still so: packages are only added,     *)
(* and a transfer that is over without a return stays so.                     *)
StillSo(t) ==
  /\ t # NoTransfer /\ transfer # NoTransfer /\ HasLast(t.back)
  /\ \A i \in DOMAIN t.back : i \in DOMAIN transfer.back /\ t.back[i] = transfer.back[i]
  /\ GivenUp(t) => GivenUp(transfer)

OwnKnows ==
  /\ ownLease # NoLease => transfer # NoTransfer /\ ownPoll.at \notin {"post", "mark"}
  /\ ownLease = NoLease => ownPoll.at \in {"post", "idle", "mark"} /\ ownMarked = {}
  /\ ownPoll.at = "post" => transfer = NoTransfer
  /\ ownPoll.at = "mark" => transfer # NoTransfer
  /\ ownPoll.at \in {"sent", "confirm", "conditions"} => StillSo(ownPoll.ans)
  /\ ownPoll.at = "sent" => ownPoll.ans.confirmed = transfer.confirmed

(* What the lease says, as it is and as persisted during a poll: the accounts     *)
(* still marked are among its accounts, it is over as returned when none is left, *)
(* as failed when the borrower has nothing.                                   *)
LeaseKnown(l) ==
  /\ ownMarked \subseteq l.ids
  /\ l.state = "returned" => l.ids = {}
  /\ l.state = "failed" => GivenUp(transfer)
OwnTerms ==
  /\ ownLease # NoLease => LeaseKnown(ownLease)
  /\ ownPoll.at \in {"sent", "confirm"} =>
       ownSaved # NoLease /\ LeaseKnown(ownSaved) /\ ownSaved.toConfirm \subseteq Back

(* The borrower imports once, and its lease names what it holds.              *)
BorKnows ==
  /\ transfer = NoTransfer => ~processed /\ borPoll.at = "idle"
  /\ borPoll.at \in {"again", "ack", "refuse"} => processed
  /\ borPoll.at = "import" => ~processed
  /\ borPoll.at = "ack" => borLease # NoLease
  /\ borPoll.at # "idle" => borPoll.ans # NoTransfer
  /\ ~processed => borLease = NoLease
  /\ borLease = NoLease => Held = {}
  /\ borLease # NoLease =>
       /\ Held \subseteq borLease.ids
       /\ borLease.state = "returned" => borLease.ids = {}
       /\ borLease.state = "expired" => Held = {}

(* A return belongs to a lease that has been told to return.                  *)
BackKnown ==
  /\ HasLast(transfer.back)
  /\ transfer.state = "returned" /\ Back = {} => processed /\ borLease = NoLease /\ ret.at = "off"
  /\ transfer.state = "pending" /\ borLease = NoLease => Back = {} /\ ret.at = "off"
  /\ transfer.confirmed \subseteq Back
  /\ ownLease # NoLease => ownLease.toConfirm \subseteq Back
  /\ ownLease = NoLease => transfer.confirmed = {}
  /\ ~processed => Back = {} /\ transfer.state \in {"pending", "cancelled"}
  /\ Back # {} /\ borLease # NoLease => borLease.state # "received"
RetKnows ==
  /\ ret.at # "off" => processed /\ ret.ids # {} /\ (borLease # NoLease => borLease.state # "received")
  /\ ret.at = "remove" => ret.ids \subseteq Back
  /\ transfer # NoTransfer => BackKnown

(* Unless an answer to the share or to an acknowledgement is lost, or the owner   *)
(* takes the accounts back in a restart past the lease's time, the borrower has  *)
(* let go of a transfer that is over, or is about to.                         *)
NoAnswerLost == leaseSlips \cap {"shareLost", "ackLost", "takenBack"} = {}
AcksArrive ==
  /\ borPoll.at # "again"
  /\ processed /\ borPoll.at = "idle" => transfer.state # "pending"
  /\ borPoll.at = "refuse" /\ borLease # NoLease => transfer.state \in {"delivered", "returned"}
  /\ transfer # NoTransfer /\ transfer.state = "failed" => borLease = NoLease /\ borPoll.at = "idle"
  /\ transfer # NoTransfer /\ transfer.state = "cancelled" => borLease = NoLease \/ borPoll.at = "ack"
  /\ ownLease # NoLease =>
       \A x \in LentAccounts \ ownMarked : x \in Back \/ GivenUp(transfer)
  /\ ownLease = NoLease /\ transfer # NoTransfer => ownPoll.at = "mark"

(* As long as no slip has happened that loses a credential: who has the last      *)
(* one, the owner before the share and after the return of each account, the    *)
(* borrower and the packages between the two.                                 *)
AllKept ==
  leaseSlips \cap {"renewedInReturn", "renewedInShare", "shareLost", "ackLost",
                   "returnedUnacknowledged", "returnForgotten", "takenBack", "removedExpired"} = {}
OwnRestored(x) == x \in transfer.confirmed \/ (ownLease # NoLease /\ x \in ownLease.toConfirm)
Lent ==
  /\ transfer # NoTransfer
  /\ transfer.state = "delivered" \/ (transfer.state = "returned" /\ Back # {})
First == [a \in LentAccounts |-> 1]
Borrowed(x) ==
  /\ x \in Held \/ x \in Back
  /\ ownLease # NoLease => x \in ownMarked
  /\ x \in Held => borCred[x] = newest[x]
  /\ ret.at # "off" /\ x \in ret.ids => ret.cred[x] = newest[x]
  /\ \A i \in DOMAIN transfer.back : x \in transfer.back[i].ids => transfer.back[i].cred[x] = newest[x]
CredsKept ==
  /\ transfer # NoTransfer => transfer.cred = First
  /\ borPoll.at = "import" => borPoll.ans.cred = First
  /\ ret.at # "off" => Lent /\ borPoll.at = "idle"
  /\ transfer # NoTransfer /\ Back # {} => Lent /\ borPoll.at = "idle"
  /\ ~Lent => ownCred = newest
  /\ transfer = NoTransfer /\ ownPoll.at = "post" => newest = First
  /\ transfer # NoTransfer /\ transfer.state = "pending" =>
       newest = First /\ (borLease # NoLease => borCred = newest)
  /\ Lent => \A x \in LentAccounts : IF OwnRestored(x) THEN ownCred[x] = newest[x] ELSE Borrowed(x)

LeaseInv ==
  /\ LendTypes /\ OwnKnows /\ OwnTerms /\ BorKnows /\ RetKnows
  /\ NoAnswerLost => AcksArrive
  /\ AllKept => CredsKept

-----------------------------------------------------------------------------
(* Transfers, and changes to them.                                           *)

LEMMA NoneIs ==
  NoTransfer \notin Transfers /\ NoLease \notin OwnLeases /\ NoLease \notin BorLeases
BY SharingLeaseAssumption
   DEF Transfers, TransferStates, Creds, Packages, OwnLeases, BorLeases

LEMMA TransferFields ==
  ASSUME NEW t \in Transfers
  PROVE  /\ t # NoTransfer /\ t.state \in TransferStates /\ t.cred \in Creds
         /\ t.back \in Seq(Packages) /\ t.confirmed \subseteq LentAccounts
BY NoneIs DEF Transfers

LEMMA ReturnedIs ==
  ASSUME NEW s, NEW x
  PROVE  x \in Returned(s) <=> \E i \in DOMAIN s : x \in s[i].ids
BY DEF Returned

LEMMA BackTyped ==
  ASSUME NEW s \in Seq(Packages)
  PROVE  Returned(s) \in SUBSET LentAccounts
<1>1. ASSUME NEW x \in Returned(s)
      PROVE  x \in LentAccounts
  <2>1. PICK i \in DOMAIN s : x \in s[i].ids
    BY ReturnedIs
  <2>2. s[i] \in Packages
    OBVIOUS
  <2>3. QED
    BY <2>1, <2>2 DEF Packages
<1>2. QED
  BY <1>1

(* Another package after those there are.                                    *)
LEMMA OneMore ==
  ASSUME NEW s \in Seq(Packages), NEW e \in Packages, HasLast(s)
  PROVE  /\ Append(s, e) \in Seq(Packages)
         /\ \A i \in DOMAIN s : i \in DOMAIN Append(s, e) /\ Append(s, e)[i] = s[i]
         /\ \A i \in DOMAIN Append(s, e) : i \in DOMAIN s \/ Append(s, e)[i] = e
         /\ \A x : x \in Returned(Append(s, e)) <=> x \in Returned(s) \/ x \in e.ids
         /\ HasLast(Append(s, e))
<1>1. PICK q : q = Append(s, e)
  OBVIOUS
<1>2. PICK n \in Nat : n = Len(s) /\ DOMAIN s = 1..n
  OBVIOUS
<1>3. /\ q \in Seq(Packages) /\ DOMAIN q = 1..(n + 1) /\ q[n + 1] = e
      /\ \A i \in 1..n : q[i] = s[i]
  BY <1>1, <1>2
<1>4. \A i \in 1..(n + 1) : i \in 1..n \/ i = n + 1
  OBVIOUS
<1>5. \A i \in 1..n : i \in 1..(n + 1) /\ i <= n + 1
  OBVIOUS
<1>6. n + 1 \in 1..(n + 1)
  OBVIOUS
<1>7. ASSUME NEW x
      PROVE  x \in Returned(q) <=> x \in Returned(s) \/ x \in e.ids
  <2>1. x \in Returned(q) <=> \E i \in 1..(n + 1) : x \in q[i].ids
    BY <1>3, ReturnedIs
  <2>2. x \in Returned(s) <=> \E i \in 1..n : x \in s[i].ids
    BY <1>2, ReturnedIs
  <2>3. QED
    BY <1>3, <1>4, <1>5, <1>6, <2>1, <2>2
<1>8. ASSUME NEW x \in Returned(q)
      PROVE  \E i \in DOMAIN q : x \in q[i].ids /\ \A j \in DOMAIN q : x \in q[j].ids => j <= i
  <2>1. CASE x \in e.ids
    <3>1. \A j \in 1..(n + 1) : j <= n + 1
      OBVIOUS
    <3>2. QED
      BY <1>3, <1>6, <2>1, <3>1
  <2>2. CASE x \notin e.ids
    <3>1. PICK i \in 1..n : x \in s[i].ids /\ \A j \in 1..n : x \in s[j].ids => j <= i
      BY <1>2, <1>7, <2>2 DEF HasLast
    <3>2. QED
      BY <1>3, <1>4, <1>5, <2>2, <3>1
  <2>3. QED
    BY <2>1, <2>2
<1>9. HasLast(q)
  BY <1>8 DEF HasLast
<1>10. QED
  BY <1>1, <1>2, <1>3, <1>4, <1>5, <1>7, <1>9

(* The operations of the relay on a transfer.                                *)
LEMMA StateChanged ==
  ASSUME NEW t \in Transfers, NEW state \in TransferStates
  PROVE  /\ [t EXCEPT !.state = state] \in Transfers /\ [t EXCEPT !.state = state].state = state
         /\ [t EXCEPT !.state = state].cred = t.cred /\ [t EXCEPT !.state = state].back = t.back
         /\ [t EXCEPT !.state = state].confirmed = t.confirmed
BY DEF Transfers

LEMMA AckedIs ==
  ASSUME NEW t \in Transfers, NEW outcome \in {"delivered", "failed"}
  PROVE  /\ AckedTransfer(t, outcome) \in Transfers
         /\ AckedTransfer(t, outcome).state = IF t.state = "pending" THEN outcome ELSE t.state
         /\ AckedTransfer(t, outcome).cred = t.cred /\ AckedTransfer(t, outcome).back = t.back
         /\ AckedTransfer(t, outcome).confirmed = t.confirmed
<1>1. PICK s \in TransferStates : s = IF t.state = "pending" THEN outcome ELSE t.state
  BY TransferFields DEF TransferStates
<1>2. AckedTransfer(t, outcome) = [t EXCEPT !.state = s]
  BY <1>1 DEF AckedTransfer
<1>3. QED
  BY <1>1, <1>2, StateChanged

LEMMA CancelledIs ==
  ASSUME NEW t \in Transfers
  PROVE  /\ Cancelled(t) \in Transfers
         /\ Cancelled(t).state = IF t.state = "pending" THEN "cancelled" ELSE t.state
         /\ Cancelled(t).cred = t.cred /\ Cancelled(t).back = t.back
         /\ Cancelled(t).confirmed = t.confirmed
<1>1. PICK s \in TransferStates : s = IF t.state = "pending" THEN "cancelled" ELSE t.state
  BY TransferFields DEF TransferStates
<1>2. Cancelled(t) = [t EXCEPT !.state = s]
  BY <1>1 DEF Cancelled
<1>3. QED
  BY <1>1, <1>2, StateChanged

LEMMA ConfirmedIs ==
  ASSUME NEW t \in Transfers, NEW ids \in SUBSET LentAccounts
  PROVE  /\ Confirmed(t, ids) \in Transfers /\ Confirmed(t, ids).state = t.state
         /\ Confirmed(t, ids).cred = t.cred /\ Confirmed(t, ids).back = t.back
         /\ Confirmed(t, ids).confirmed = t.confirmed \cup ids
<1>1. PICK c \in SUBSET LentAccounts : c = t.confirmed \cup ids
  BY TransferFields
<1>2. PICK q : q = [t EXCEPT !.confirmed = c]
  OBVIOUS
<1>3. Confirmed(t, ids) = q
  BY <1>1, <1>2 DEF Confirmed
<1>4. q \in Transfers /\ q.state = t.state /\ q.cred = t.cred /\ q.back = t.back /\ q.confirmed = c
  BY <1>2 DEF Transfers
<1>5. QED
  BY <1>1, <1>3, <1>4

LEMMA WithReturnIs ==
  ASSUME NEW t \in Transfers, NEW ids \in SUBSET LentAccounts, NEW cred \in Creds, NEW complete
  PROVE  /\ WithReturn(t, ids, cred, complete) \in Transfers
         /\ WithReturn(t, ids, cred, complete).cred = t.cred
         /\ WithReturn(t, ids, cred, complete).confirmed = t.confirmed
         /\ WithReturn(t, ids, cred, complete).back = Append(t.back, [ids |-> ids, cred |-> cred])
         /\ WithReturn(t, ids, cred, complete).state =
              IF complete /\ t.state \in {"delivered", "pending"} THEN "returned" ELSE t.state
<1>1. PICK s \in TransferStates :
        s = IF complete /\ t.state \in {"delivered", "pending"} THEN "returned" ELSE t.state
  BY TransferFields DEF TransferStates
<1>2. PICK e \in Packages : e = [ids |-> ids, cred |-> cred]
  BY DEF Packages
<1>3. PICK o \in Seq(Packages) : o = t.back
  BY TransferFields
<1>4. PICK b : b = Append(o, e)
  OBVIOUS
<1>5. b \in Seq(Packages)
  BY <1>4
<1>6. PICK q : q = [t EXCEPT !.back = b, !.state = s]
  OBVIOUS
<1>7. WithReturn(t, ids, cred, complete) = q
  BY <1>1, <1>2, <1>3, <1>4, <1>6 DEF WithReturn
<1>8. q \in Transfers /\ q.state = s /\ q.cred = t.cred /\ q.back = b /\ q.confirmed = t.confirmed
  BY <1>5, <1>6 DEF Transfers
<1>9. QED
  BY <1>1, <1>2, <1>3, <1>4, <1>7, <1>8

LEMMA CreatedIs ==
  /\ First \in Creds
  /\ CreatedTransfer(First) \in Transfers /\ CreatedTransfer(First).state = "pending"
  /\ CreatedTransfer(First).cred = First /\ CreatedTransfer(First).back = <<>>
  /\ CreatedTransfer(First).confirmed = {}
<1>1. PICK c \in Creds : c = First
  BY DEF Creds, First
<1>2. PICK q : q = [state |-> "pending", cred |-> c, back |-> <<>>, confirmed |-> {}]
  OBVIOUS
<1>3. <<>> \in Seq(Packages)
  OBVIOUS
<1>4. q \in Transfers
  BY <1>2, <1>3 DEF Transfers, TransferStates
<1>5. QED
  BY <1>1, <1>2, <1>4 DEF CreatedTransfer

(* Nothing comes back with no package.                                       *)
LEMMA NothingBack == Returned(<<>>) = {} /\ HasLast(<<>>)
BY DEF Returned, HasLast

-----------------------------------------------------------------------------
(* Polls and leases.                                                         *)

LEMMA PollIs ==
  ASSUME NEW places, NEW poll \in LeasePolls(places)
  PROVE  poll.at \in places /\ poll.ans \in Transfers \cup {NoTransfer}
BY DEF LeasePolls

LEMMA PollMoved ==
  ASSUME NEW places, NEW poll \in LeasePolls(places), NEW at \in places
  PROVE  /\ poll.at \in places /\ poll.ans \in Transfers \cup {NoTransfer}
         /\ [poll EXCEPT !.at = at] \in LeasePolls(places) /\ [poll EXCEPT !.at = at].at = at
         /\ [poll EXCEPT !.at = at].ans = poll.ans
BY DEF LeasePolls

LEMMA PollStarts ==
  ASSUME NEW places, NEW at \in places, NEW t \in Transfers
  PROVE  /\ [at |-> at, ans |-> t] \in LeasePolls(places)
         /\ [at |-> at, ans |-> t].at = at /\ [at |-> at, ans |-> t].ans = t
BY DEF LeasePolls

LEMMA PollEnds ==
  /\ Idle \in LeasePolls(OwnPlaces) /\ Idle \in LeasePolls(BorPlaces)
  /\ Idle.at = "idle" /\ Idle.ans = NoTransfer
BY DEF Idle, LeasePolls, OwnPlaces, BorPlaces

LEMMA LeaseFields ==
  /\ \A l \in OwnLeases : /\ l # NoLease
                          /\ l.state \in {"shared", "returned", "failed", "expired"}
                          /\ l.ids \subseteq LentAccounts /\ l.toConfirm \subseteq LentAccounts
  /\ \A l \in BorLeases : /\ l # NoLease
                          /\ l.state \in {"received", "return_pending", "returned", "expired"}
                          /\ l.ids \subseteq LentAccounts
BY NoneIs DEF OwnLeases, BorLeases

-----------------------------------------------------------------------------

(* What is not nothing.                                                      *)
LEMMA LeaseIs ==
  ASSUME LeaseInv
  PROVE  /\ transfer # NoTransfer => transfer \in Transfers
         /\ borLease # NoLease => borLease \in BorLeases
         /\ ownLease # NoLease => ownLease \in OwnLeases
         /\ ownPoll \in LeasePolls(OwnPlaces) /\ borPoll \in LeasePolls(BorPlaces)
BY DEF LeaseInv, LendTypes

(* What is given up stays so while no account comes back.                      *)
LEMMA GivenUpIs ==
  ASSUME NEW t, NEW u, u.back = t.back, GivenUp(t),
         u.state = t.state \/ u.state \in {"cancelled", "failed"}
  PROVE  GivenUp(u)
BY DEF GivenUp

(* A step of the borrower or of the relay leaves the owner's lease as it is.     *)
LEMMA TermsStay ==
  ASSUME LeaseInv, UNCHANGED ownVars,
         GivenUp(transfer) => GivenUp(transfer'), Back \subseteq Back'
  PROVE  OwnTerms'
<1>1. OwnTerms /\ UNCHANGED <<ownLease, ownMarked, ownPoll, ownSaved>>
  BY DEF LeaseInv, ownVars
<1>2. QED
  BY <1>1 DEF OwnTerms, LeaseKnown
LEMMA TermsRest ==
  ASSUME LeaseInv, UNCHANGED <<ownVars, transfer>>
  PROVE  OwnTerms'
BY TermsStay DEF Back

(* What has gone wrong stays so.                                             *)
LEMMA SlipsStay ==
  ASSUME leaseSlips \subseteq leaseSlips'
  PROVE  /\ NoAnswerLost' => NoAnswerLost
         /\ AllKept' => AllKept /\ NoAnswerLost'
BY DEF NoAnswerLost, AllKept
LEMMA KeptIsMore == AllKept => NoAnswerLost
BY DEF NoAnswerLost, AllKept

-----------------------------------------------------------------------------
(* The owner.                                                                *)

LEMMA PostTransferKeeps ==
  ASSUME LeaseInv, PostTransfer
  PROVE  LeaseInv'
<1>1. LendTypes /\ OwnKnows /\ OwnTerms /\ BorKnows /\ RetKnows
  BY DEF LeaseInv
<1>2. /\ ownPoll.at = "post" /\ transfer = NoTransfer /\ ownLease = NoLease /\ ownMarked = {}
      /\ ~processed /\ borPoll.at = "idle" /\ borLease = NoLease /\ ret.at = "off"
  BY <1>1 DEF PostTransfer, OwnKnows, BorKnows, RetKnows
<1>3. PICK fate \in LeaseFates :
        /\ transfer' = IF fate = "lost" THEN NoTransfer ELSE CreatedTransfer(First)
        /\ ownPoll' = [ownPoll EXCEPT !.at = IF fate = "answered" THEN "mark" ELSE "idle"]
        /\ LeaseSlip("shareLost", fate = "unanswered")
  BY DEF PostTransfer, First
<1>4. UNCHANGED <<borLease, processed, borPoll, borCred, newest, ret, ownLease, ownMarked, ownSaved, ownCred>>
  BY DEF PostTransfer, OwnUnchanged, borVars
<1>5. PICK at \in {"mark", "idle"} : at = IF fate = "answered" THEN "mark" ELSE "idle"
  OBVIOUS
<1>6. ownPoll' \in LeasePolls(OwnPlaces) /\ ownPoll'.at = at
  BY <1>1, <1>3, <1>5, PollMoved DEF LendTypes, OwnPlaces
<1>7. /\ transfer' \in Transfers \cup {NoTransfer}
      /\ transfer' # NoTransfer => /\ fate # "lost" /\ transfer'.state = "pending"
                                   /\ transfer'.cred = First /\ transfer'.back = <<>>
                                   /\ transfer'.confirmed = {}
      /\ fate # "lost" => transfer' # NoTransfer
  BY <1>3, CreatedIs, NoneIs
<1>8. transfer' # NoTransfer => Back' = {} /\ HasLast(transfer.back)'
  BY <1>7, NothingBack DEF Back
<1>9. LendTypes'
  BY <1>1, <1>4, <1>6, <1>7 DEF LendTypes
<1>10. OwnKnows'
  BY <1>2, <1>4, <1>5, <1>6, <1>7 DEF OwnKnows
<1>17. OwnTerms'
  BY <1>2, <1>4, <1>5, <1>6 DEF OwnTerms
<1>11. BorKnows'
  BY <1>1, <1>2, <1>4 DEF BorKnows, Held
<1>12. RetKnows'
  BY <1>2, <1>4, <1>7, <1>8 DEF RetKnows, BackKnown
<1>13. /\ leaseSlips \subseteq leaseSlips'
       /\ NoAnswerLost' => fate # "unanswered"
  BY <1>3 DEF LeaseSlip, NoAnswerLost
<1>14. NoAnswerLost' => AcksArrive'
  BY <1>2, <1>4, <1>5, <1>6, <1>7, <1>13 DEF AcksArrive, LeaseFates
<1>15. ASSUME AllKept'
       PROVE  CredsKept'
  <2>1. CredsKept /\ fate # "unanswered"
    BY <1>13, <1>15, SlipsStay DEF LeaseInv
  <2>2. newest = First /\ ownCred = newest
    BY <1>2, <2>1 DEF CredsKept, Lent
  <2>3. QED
    BY <1>2, <1>4, <1>5, <1>6, <1>7, <1>8, <2>1, <2>2 DEF CredsKept, Lent, LeaseFates
<1>16. QED
  BY <1>9, <1>10, <1>11, <1>12, <1>14, <1>15, <1>17 DEF LeaseInv

LEMMA MarkLentKeeps ==
  ASSUME LeaseInv, MarkLent
  PROVE  LeaseInv'
<1>1. LendTypes /\ OwnKnows /\ OwnTerms /\ BorKnows /\ RetKnows
  BY DEF LeaseInv
<1>2. /\ ownPoll.at = "mark" /\ transfer # NoTransfer /\ ownLease = NoLease
      /\ transfer.confirmed = {}
  BY <1>1 DEF MarkLent, OwnKnows, RetKnows, BackKnown
<1>3. /\ UNCHANGED <<borLease, processed, borPoll, borCred, newest, ret, ownSaved, ownCred, transfer, leaseSlips>>
      /\ ownLease' = [state |-> "shared", ids |-> LentAccounts, toConfirm |-> {}]
      /\ ownMarked' = LentAccounts /\ ownPoll' = Idle
  BY DEF MarkLent, OwnUnchanged, borVars
<1>4. ownLease' \in OwnLeases /\ ownLease' # NoLease /\ ownLease'.toConfirm = {}
      /\ ownLease'.ids = LentAccounts /\ ownLease'.state = "shared"
  BY <1>3, LeaseFields DEF OwnLeases
<1>5. LendTypes'
  BY <1>1, <1>3, <1>4, PollEnds DEF LendTypes
<1>6. OwnKnows'
  BY <1>2, <1>3, <1>4, PollEnds DEF OwnKnows
<1>12. OwnTerms'
  BY <1>3, <1>4, PollEnds DEF OwnTerms, LeaseKnown
<1>7. BorKnows'
  BY <1>1, <1>3 DEF BorKnows, Held
<1>8. RetKnows'
  BY <1>1, <1>2, <1>3, <1>4 DEF RetKnows, BackKnown, Back
<1>9. NoAnswerLost' => AcksArrive'
  BY <1>2, <1>3, <1>4 DEF AcksArrive, LeaseInv, NoAnswerLost, Back
<1>10. ASSUME AllKept'
       PROVE  CredsKept'
  <2>1. CredsKept
    BY <1>3, <1>10 DEF LeaseInv, AllKept
  <2>2. \A x \in LentAccounts : OwnRestored(x)' = OwnRestored(x)
    BY <1>2, <1>3, <1>4 DEF OwnRestored
  <2>3. Lent' = Lent /\ Back' = Back
    BY <1>3 DEF Lent, Back
  <2>4. Lent => \A x \in LentAccounts : ~OwnRestored(x)' => Borrowed(x)'
    BY <1>3, <2>1, <2>2, <2>3 DEF CredsKept, Borrowed, Held
  <2>5. QED
    BY <1>2, <1>3, <2>1, <2>2, <2>3, <2>4, PollEnds DEF CredsKept
<1>11. QED
  BY <1>5, <1>6, <1>7, <1>8, <1>9, <1>10, <1>12 DEF LeaseInv

LEMMA OwnPollsKeeps ==
  ASSUME LeaseInv, OwnPolls
  PROVE  LeaseInv'
<1>1. LendTypes /\ OwnKnows /\ OwnTerms /\ BorKnows /\ RetKnows
  BY DEF LeaseInv
<1>2. /\ ownPoll.at = "idle" /\ ownLease # NoLease /\ transfer # NoTransfer /\ transfer \in Transfers
      /\ ownPoll' = [at |-> "sent", ans |-> transfer] /\ ownSaved' = ownLease
      /\ UNCHANGED <<borLease, processed, borPoll, borCred, newest, ret, ownLease, ownMarked, ownCred,
                     transfer, leaseSlips>>
  BY <1>1 DEF OwnPolls, OwnUnchanged, borVars, LendTypes
<1>3. ownPoll' \in LeasePolls(OwnPlaces) /\ ownPoll'.at = "sent" /\ ownPoll'.ans = transfer
  BY <1>2, PollStarts DEF OwnPlaces
<1>4. LendTypes'
  BY <1>1, <1>2, <1>3 DEF LendTypes
<1>5. OwnKnows'
  <2>1. StillSo(ownPoll.ans)'
    BY <1>1, <1>2, <1>3 DEF StillSo, RetKnows, BackKnown, Back
  <2>2. QED
    BY <1>1, <1>2, <1>3, <2>1 DEF OwnKnows
<1>10. OwnTerms'
  BY <1>1, <1>2 DEF OwnTerms, LeaseKnown, RetKnows, BackKnown, Back
<1>6. BorKnows' /\ RetKnows'
  BY <1>1, <1>2 DEF BorKnows, Held, RetKnows, BackKnown, Back
<1>7. NoAnswerLost' => AcksArrive'
  BY <1>2, <1>3 DEF AcksArrive, LeaseInv, NoAnswerLost, Back
<1>8. ASSUME AllKept'
      PROVE  CredsKept'
  <2>1. CredsKept
    BY <1>2, <1>8 DEF LeaseInv, AllKept
  <2>2. \A x \in LentAccounts : OwnRestored(x)' = OwnRestored(x) /\ (Borrowed(x) => Borrowed(x)')
    BY <1>2 DEF OwnRestored, Borrowed, Held, Back
  <2>3. Lent' = Lent /\ Back' = Back
    BY <1>2 DEF Lent, Back
  <2>4. QED
    BY <1>2, <1>3, <2>1, <2>2, <2>3 DEF CredsKept
<1>9. QED
  BY <1>4, <1>5, <1>6, <1>7, <1>8, <1>10 DEF LeaseInv

(* What becomes of a lease when accounts are back.                            *)
LEMMA FinalizedIs ==
  ASSUME NEW l \in OwnLeases, NEW ids \in SUBSET LentAccounts, NEW outcome \in {"returned", "failed"}
  PROVE  /\ Finalized(l, ids, outcome) \in OwnLeases
         /\ Finalized(l, ids, outcome).toConfirm = l.toConfirm
         /\ Finalized(l, ids, outcome).ids = l.ids \ (ids \cap ownMarked)
         /\ Finalized(l, ids, outcome).state = "returned" => Finalized(l, ids, outcome).ids = {}
         /\ Finalized(l, ids, outcome).state = "failed" => outcome = "failed"
<1>1. PICK left \in SUBSET LentAccounts : left = l.ids \ (ids \cap ownMarked)
  BY LeaseFields
<1>2. PICK s \in {"shared", "returned", "failed"} :
        s = IF outcome = "failed" THEN "failed" ELSE IF left = {} THEN "returned" ELSE "shared"
  OBVIOUS
<1>3. PICK q : q = [l EXCEPT !.ids = left, !.state = s]
  OBVIOUS
<1>4. Finalized(l, ids, outcome) = q
  BY <1>1, <1>2, <1>3 DEF Finalized
<1>5. q \in OwnLeases /\ q.toConfirm = l.toConfirm /\ q.ids = left /\ q.state = s
  BY <1>3 DEF OwnLeases
<1>6. QED
  BY <1>1, <1>2, <1>4, <1>5

(* Of an account that came back the last credential is one that came back.       *)
LEMMA LastBackIs ==
  ASSUME NEW s \in Seq(Packages), HasLast(s), NEW x \in LentAccounts, x \in Returned(s)
  PROVE  \E i \in DOMAIN s :
           x \in s[i].ids /\ LastBack(s, x) = s[i].cred[x] /\ s[i].cred[x] \in Nat
<1>1. \E i \in DOMAIN s : x \in s[i].ids /\ \A j \in DOMAIN s : x \in s[j].ids => j <= i
  BY DEF HasLast
<1>2. PICK i \in DOMAIN s : i = CHOOSE k \in DOMAIN s :
                                  x \in s[k].ids /\ \A j \in DOMAIN s : x \in s[j].ids => j <= k
  BY <1>1
<1>3. x \in s[i].ids
  BY <1>1, <1>2
<1>4. LastBack(s, x) = s[i].cred[x]
  BY <1>2 DEF LastBack
<1>5. s[i] \in Packages
  OBVIOUS
<1>6. s[i].cred[x] \in Nat
  BY <1>5 DEF Packages, Creds
<1>7. QED
  BY <1>3, <1>4, <1>6

LEMMA ReadSentTransferKeeps ==
  ASSUME LeaseInv, ReadSentTransfer
  PROVE  LeaseInv'
<1>1. LendTypes /\ OwnKnows /\ OwnTerms /\ BorKnows /\ RetKnows
  BY DEF LeaseInv
<1>2. /\ ownPoll.at = "sent" /\ ownLease # NoLease /\ StillSo(ownPoll.ans)
      /\ ownPoll.ans.confirmed = transfer.confirmed
      /\ UNCHANGED <<borLease, processed, borPoll, borCred, newest, ret, ownSaved, transfer, leaseSlips>>
  BY <1>1 DEF ReadSentTransfer, OwnKnows, OwnUnchanged, borVars
<1>3. PICK t \in Transfers : t = ownPoll.ans
  BY <1>2, LeaseIs, PollIs DEF StillSo
<1>4. PICK l \in OwnLeases : l = ownLease
  BY <1>2, LeaseIs
<1>5. t.back \in Seq(Packages) /\ HasLast(t.back) /\ transfer # NoTransfer
  BY <1>2, <1>3, TransferFields DEF StillSo
<1>6. PICK back \in SUBSET LentAccounts : back = Returned(t.back)
  BY <1>5, BackTyped
<1>7. back \subseteq Back
  BY <1>2, <1>3, <1>6, ReturnedIs DEF StillSo, Back
<1>8. PICK over : over = (t.state \in {"cancelled", "failed"})
  OBVIOUS
<1>9. over \/ (t.state = "returned" /\ back = {}) => GivenUp(transfer)
  BY <1>2, <1>3, <1>6, <1>8 DEF StillSo, GivenUp
<1>25. LeaseKnown(l)
  BY <1>1, <1>2, <1>4 DEF OwnTerms
<1>10. PICK c \in SUBSET LentAccounts : c = l.toConfirm \cup back
  BY LeaseFields
<1>11. PICK applied \in OwnLeases :
         /\ applied = IF back = {} THEN l
                      ELSE [Finalized(l, back, "returned") EXCEPT !.toConfirm = @ \cup back]
         /\ applied.toConfirm = c /\ ownMarked \ back \subseteq applied.ids
         /\ applied.state = "returned" => applied.ids = {}
         /\ applied.state = "failed" => GivenUp(transfer)
  <2>1. PICK f \in OwnLeases :
          /\ f = Finalized(l, back, "returned") /\ f.toConfirm = l.toConfirm
          /\ f.ids = l.ids \ (back \cap ownMarked)
          /\ f.state = "returned" => f.ids = {}
          /\ f.state # "failed"
    BY FinalizedIs
  <2>2. PICK g : g = [f EXCEPT !.toConfirm = c]
    OBVIOUS
  <2>3. g \in OwnLeases /\ g.toConfirm = c /\ g.ids = f.ids /\ g.state = f.state
    BY <2>2 DEF OwnLeases
  <2>4. [Finalized(l, back, "returned") EXCEPT !.toConfirm = @ \cup back] = g
    BY <1>10, <2>1, <2>2
  <2>5. ownMarked \ back \subseteq g.ids
    BY <1>25, <2>1, <2>3 DEF LeaseKnown
  <2>6. CASE back = {}
    <3>1. l.toConfirm = c
      BY <1>10, <2>6
    <3>2. QED
      BY <1>25, <2>6, <3>1 DEF LeaseKnown
  <2>7. CASE back # {}
    BY <2>1, <2>3, <2>4, <2>5, <2>7
  <2>8. QED
    BY <2>6, <2>7
<1>12. /\ ownMarked' = IF back # {} THEN ownMarked \ back
                       ELSE IF over \/ t.state = "returned" THEN {} ELSE ownMarked
       /\ ownLease' = IF applied.toConfirm # {} THEN applied
                      ELSE IF back # {} /\ over THEN [applied EXCEPT !.state = "failed"]
                      ELSE IF back # {} THEN applied
                      ELSE IF over THEN Finalized(l, LentAccounts, "failed")
                      ELSE IF t.state = "returned" THEN Finalized(l, LentAccounts, "returned")
                      ELSE l
       /\ ownPoll' = [ownPoll EXCEPT !.at = IF applied.toConfirm # {} THEN "confirm" ELSE "conditions"]
       /\ ownCred' = [a \in LentAccounts |->
                        IF a \in back \ Restored(t) THEN LastBack(t.back, a) ELSE ownCred[a]]
  BY <1>3, <1>4, <1>6, <1>8, <1>11 DEF ReadSentTransfer
<1>13. ownLease' \in OwnLeases /\ ownLease'.toConfirm = c /\ ownLease' # NoLease
  <2>1. ownLease' \in OwnLeases /\ ownLease'.toConfirm = c
    <3>1. CASE c # {}
      BY <1>11, <1>12, <3>1
    <3>2. CASE c = {}
      <4>1. back = {} /\ l.toConfirm = {}
        BY <1>10, <3>2
      <4>2. \/ ownLease' = Finalized(l, LentAccounts, "failed")
            \/ ownLease' = Finalized(l, LentAccounts, "returned")
            \/ ownLease' = l
        BY <1>11, <1>12, <3>2, <4>1
      <4>3. QED
        BY <3>2, <4>1, <4>2, FinalizedIs
    <3>3. QED
      BY <3>1, <3>2
  <2>2. QED
    BY <2>1, LeaseFields
<1>14. PICK at \in {"confirm", "conditions"} :
         at = IF applied.toConfirm # {} THEN "confirm" ELSE "conditions"
  OBVIOUS
<1>15. ownPoll' \in LeasePolls(OwnPlaces) /\ ownPoll'.at = at /\ ownPoll'.ans = t
  BY <1>1, <1>3, <1>12, <1>14, PollMoved DEF LendTypes, OwnPlaces
<1>16. /\ ownMarked' \subseteq ownMarked
       /\ \A x \in ownMarked : x \notin ownMarked' => x \in back \/ GivenUp(transfer)
  BY <1>9, <1>12
<1>17. ownCred' \in Creds
  <2>1. \A a \in LentAccounts : a \in back => LastBack(t.back, a) \in Nat
    BY <1>5, <1>6, LastBackIs
  <2>2. QED
    BY <1>1, <1>12, <2>1 DEF LendTypes, Creds
<1>18. LendTypes'
  BY <1>1, <1>2, <1>13, <1>15, <1>16, <1>17 DEF LendTypes
<1>19. OwnKnows'
  BY <1>1, <1>2, <1>3, <1>13, <1>14, <1>15 DEF OwnKnows, StillSo
<1>26. OwnTerms'
  <2>1. LeaseKnown(ownLease)'
    <3>1. CASE ownLease' = applied /\ c # {}
      <4>1. ownMarked' \subseteq applied.ids
        BY <1>11, <1>12, <1>16
      <4>2. QED
        BY <1>2, <1>11, <3>1, <4>1 DEF LeaseKnown
    <3>2. CASE c = {} /\ (over \/ t.state = "returned")
      <4>1. back = {} /\ ownMarked' = {} /\ GivenUp(transfer)
        BY <1>9, <1>10, <1>12, <3>2
      <4>2. ownLease' = Finalized(l, LentAccounts, "failed") \/ ownLease' = Finalized(l, LentAccounts, "returned")
        BY <1>11, <1>12, <3>2, <4>1
      <4>3. ownLease'.state = "returned" => ownLease'.ids = {}
        BY <4>2, FinalizedIs
      <4>4. QED
        BY <1>2, <4>1, <4>3 DEF LeaseKnown
    <3>3. CASE c = {} /\ ~over /\ t.state # "returned"
      <4>1. back = {} /\ ownMarked' = ownMarked
        BY <1>10, <1>12, <3>3
      <4>2. ownLease' = l
        BY <1>11, <1>12, <3>3, <4>1
      <4>3. QED
        BY <1>2, <1>25, <4>1, <4>2 DEF LeaseKnown
    <3>4. QED
      BY <1>11, <1>12, <3>1, <3>2, <3>3
  <2>2. ownSaved # NoLease /\ LeaseKnown(ownSaved)' /\ ownSaved.toConfirm \subseteq Back'
    BY <1>1, <1>2, <1>16 DEF OwnTerms, LeaseKnown, Back
  <2>3. QED
    BY <1>2, <2>1, <2>2 DEF OwnTerms
<1>20. BorKnows'
  BY <1>1, <1>2 DEF BorKnows, Held
<1>21. RetKnows'
  <2>1. ownLease'.toConfirm \subseteq Back
    BY <1>1, <1>2, <1>4, <1>5, <1>7, <1>10, <1>13 DEF RetKnows, BackKnown
  <2>2. QED
    BY <1>1, <1>2, <1>13, <2>1 DEF RetKnows, BackKnown, Back
<1>22. ASSUME NoAnswerLost'
       PROVE  AcksArrive'
  <2>1. AcksArrive
    BY <1>2, <1>22 DEF LeaseInv, NoAnswerLost
  <2>2. \A x \in LentAccounts \ ownMarked' : x \in Back \/ GivenUp(transfer)
    BY <1>2, <1>7, <1>16, <2>1 DEF AcksArrive
  <2>3. QED
    BY <1>2, <1>13, <2>1, <2>2 DEF AcksArrive, Back
<1>23. ASSUME AllKept'
       PROVE  CredsKept'
  <2>1. CredsKept
    BY <1>2, <1>23 DEF LeaseInv, AllKept
  <2>2. Lent' = Lent /\ Back' = Back
    BY <1>2 DEF Lent, Back
  <2>3. ~Lent => ownCred' = ownCred
    <3>1. ~Lent => back = {}
      BY <1>5, <1>7, <2>1 DEF CredsKept
    <3>2. QED
      BY <1>1, <1>12, <3>1 DEF LendTypes, Creds
  <2>4. ASSUME Lent, NEW x \in LentAccounts
        PROVE  IF OwnRestored(x)' THEN ownCred'[x] = newest[x] ELSE Borrowed(x)'
    <3>1. IF OwnRestored(x) THEN ownCred[x] = newest[x] ELSE Borrowed(x)
      BY <2>1, <2>4 DEF CredsKept
    <3>2. OwnRestored(x) <=> x \in Restored(t)
      BY <1>2, <1>3 DEF OwnRestored, Restored
    <3>3. OwnRestored(x)' <=> OwnRestored(x) \/ x \in back
      BY <1>2, <1>4, <1>10, <1>13 DEF OwnRestored
    <3>4. ownCred'[x] = IF x \in back \ Restored(t) THEN LastBack(t.back, x) ELSE ownCred[x]
      BY <1>12
    <3>5. CASE x \in back /\ ~OwnRestored(x)
      <4>1. PICK i \in DOMAIN t.back : x \in t.back[i].ids /\ LastBack(t.back, x) = t.back[i].cred[x]
        BY <1>5, <1>6, <3>5, LastBackIs
      <4>2. i \in DOMAIN transfer.back /\ t.back[i] = transfer.back[i]
        BY <1>2, <1>3 DEF StillSo
      <4>3. LastBack(t.back, x) = newest[x]
        BY <3>1, <3>5, <4>1, <4>2 DEF Borrowed
      <4>4. QED
        BY <3>2, <3>3, <3>4, <3>5, <4>3
    <3>6. CASE OwnRestored(x)
      BY <3>1, <3>2, <3>3, <3>4, <3>6
    <3>7. CASE x \notin back /\ ~OwnRestored(x)
      <4>1. Borrowed(x) /\ ~OwnRestored(x)'
        BY <3>1, <3>3, <3>7
      <4>2. ~GivenUp(transfer)
        BY <2>4 DEF Lent, GivenUp, Back
      <4>3. x \in ownMarked'
        BY <1>2, <1>16, <3>7, <4>1, <4>2 DEF Borrowed
      <4>4. QED
        BY <1>2, <4>1, <4>3 DEF Borrowed, Held, Back
    <3>8. QED
      BY <3>5, <3>6, <3>7
  <2>5. Lent' => \A x \in LentAccounts : IF OwnRestored(x)' THEN ownCred'[x] = newest'[x] ELSE Borrowed(x)'
    BY <1>2, <2>2, <2>4
  <2>6. QED
    BY <1>2, <1>14, <1>15, <2>1, <2>2, <2>3, <2>5 DEF CredsKept
<1>24. QED
  BY <1>18, <1>19, <1>20, <1>21, <1>22, <1>23, <1>26 DEF LeaseInv

LEMMA ConfirmReturnKeeps ==
  ASSUME LeaseInv, ConfirmReturn
  PROVE  LeaseInv'
<1>1. LendTypes /\ OwnKnows /\ OwnTerms /\ BorKnows /\ RetKnows
  BY DEF LeaseInv
<1>2. /\ ownPoll.at = "confirm" /\ ownLease # NoLease /\ StillSo(ownPoll.ans) /\ transfer # NoTransfer
      /\ UNCHANGED <<borLease, processed, borPoll, borCred, newest, ret, ownMarked, ownSaved, ownCred,
                     leaseSlips>>
      /\ ownPoll' = [ownPoll EXCEPT !.at = "conditions"]
  BY <1>1 DEF ConfirmReturn, OwnKnows, StillSo, OwnUnchanged, borVars
<1>3. PICK l \in OwnLeases : l = ownLease
  BY <1>2, LeaseIs
<1>4. PICK t \in Transfers : t = transfer
  BY <1>2, LeaseIs
<1>5. PICK c \in SUBSET LentAccounts : c = l.toConfirm
  BY LeaseFields
<1>6. PICK fate \in LeaseFates :
        /\ transfer' = IF fate = "lost" THEN t ELSE Confirmed(t, c)
        /\ ownLease' = IF fate # "answered" THEN l
                       ELSE [l EXCEPT !.toConfirm = {},
                               !.state = IF ownPoll.ans.state \in {"cancelled", "failed"} THEN "failed" ELSE @]
  BY <1>3, <1>4, <1>5 DEF ConfirmReturn
<1>7. /\ ownPoll' \in LeasePolls(OwnPlaces) /\ ownPoll'.at = "conditions" /\ ownPoll'.ans = ownPoll.ans
  BY <1>1, <1>2, PollMoved DEF LendTypes, OwnPlaces
<1>8. /\ ownLease' \in OwnLeases /\ ownLease' # NoLease
      /\ ownLease'.toConfirm = IF fate = "answered" THEN {} ELSE c
      /\ ownLease'.ids = l.ids
      /\ ownLease'.state = l.state \/ (ownLease'.state = "failed" /\ GivenUp(ownPoll.ans))
  <2>1. PICK s \in {"shared", "returned", "failed", "expired"} :
          s = IF ownPoll.ans.state \in {"cancelled", "failed"} THEN "failed" ELSE l.state
    BY LeaseFields
  <2>2. PICK e \in SUBSET LentAccounts : e = {}
    OBVIOUS
  <2>3. PICK g : g = [l EXCEPT !.toConfirm = e, !.state = s]
    OBVIOUS
  <2>4. g \in OwnLeases /\ g.toConfirm = {} /\ g.ids = l.ids /\ g.state = s
    BY <2>2, <2>3 DEF OwnLeases
  <2>5. fate = "answered" => ownLease' = g
    BY <1>6, <2>1, <2>2, <2>3
  <2>6. fate # "answered" => ownLease' = l
    BY <1>6
  <2>7. QED
    BY <1>5, <2>1, <2>4, <2>5, <2>6, LeaseFields DEF GivenUp
<1>9. /\ transfer' \in Transfers /\ transfer' # NoTransfer /\ transfer'.state = transfer.state
      /\ transfer'.cred = transfer.cred /\ transfer'.back = transfer.back
      /\ transfer'.confirmed = IF fate = "lost" THEN transfer.confirmed ELSE transfer.confirmed \cup c
  BY <1>4, <1>6, ConfirmedIs, NoneIs
<1>10. LendTypes'
  BY <1>1, <1>2, <1>7, <1>8, <1>9 DEF LendTypes
<1>11. Back' = Back /\ Lent' = Lent
  BY <1>2, <1>9 DEF Back, Lent
<1>18. GivenUp(transfer') <=> GivenUp(transfer)
  BY <1>9 DEF GivenUp
<1>19. OwnTerms'
  <2>1. LeaseKnown(l) /\ (GivenUp(ownPoll.ans) => GivenUp(transfer))
    BY <1>1, <1>2, <1>3 DEF OwnTerms, StillSo
  <2>2. LeaseKnown(ownLease)'
    BY <1>2, <1>8, <1>18, <2>1 DEF LeaseKnown
  <2>3. QED
    BY <1>7, <2>2 DEF OwnTerms
<1>12. OwnKnows'
  BY <1>1, <1>2, <1>7, <1>8, <1>9, <1>18 DEF OwnKnows, StillSo
<1>13. BorKnows'
  BY <1>1, <1>2, <1>9 DEF BorKnows, Held
<1>14. RetKnows'
  BY <1>1, <1>2, <1>3, <1>5, <1>8, <1>9, <1>11 DEF RetKnows, BackKnown
<1>15. NoAnswerLost' => AcksArrive'
  BY <1>2, <1>8, <1>9, <1>11, <1>18 DEF LeaseInv, NoAnswerLost, AcksArrive
<1>16. ASSUME AllKept'
       PROVE  CredsKept'
  <2>1. CredsKept
    BY <1>2, <1>16 DEF LeaseInv, AllKept
  <2>2. \A x \in LentAccounts : OwnRestored(x)' = OwnRestored(x)
    BY <1>2, <1>3, <1>5, <1>8, <1>9 DEF OwnRestored, LeaseFates
  <2>3. \A x \in LentAccounts : Borrowed(x) => Borrowed(x)'
    BY <1>2, <1>8, <1>9, <1>11 DEF Borrowed, Held
  <2>4. QED
    BY <1>2, <1>7, <1>9, <1>11, <2>1, <2>2, <2>3 DEF CredsKept
<1>17. QED
  BY <1>10, <1>12, <1>13, <1>14, <1>15, <1>16, <1>19 DEF LeaseInv

(* A share that nobody has acknowledged is over, whoever says so, and a lease    *)
(* that is over has no account marked.                                       *)
LEMMA OverKeeps ==
  ASSUME LeaseInv, transfer # NoTransfer, ownLease # NoLease \/ UNCHANGED ownPoll,
         transfer' = transfer \/ transfer' = Cancelled(transfer),
         UNCHANGED <<ownPoll, ownSaved>> \/ (ownPoll' = Idle /\ ownSaved' = NoLease),
         \/ UNCHANGED <<ownLease, ownMarked>>
         \/ /\ ownLease # NoLease /\ ownMarked' = {} /\ (GivenUp(transfer') \/ ownMarked = {})
            /\ \E ids \in SUBSET LentAccounts, outcome \in {"returned", "failed"} :
                 /\ ownLease' = Finalized(ownLease, ids, outcome)
                 /\ outcome = "failed" => GivenUp(transfer'),
         UNCHANGED <<borLease, processed, borPoll, borCred, newest, ret, ownCred, leaseSlips>>
  PROVE  LeaseInv'
<1>1. LendTypes /\ OwnKnows /\ OwnTerms /\ BorKnows /\ RetKnows
  BY DEF LeaseInv
<1>2. PICK t \in Transfers : t = transfer
  BY LeaseIs
<1>3. /\ transfer' \in Transfers /\ transfer' # NoTransfer
      /\ transfer'.state = transfer.state \/ (transfer.state = "pending" /\ transfer'.state = "cancelled")
      /\ transfer'.cred = transfer.cred /\ transfer'.back = transfer.back
      /\ transfer'.confirmed = transfer.confirmed
  BY <1>2, CancelledIs, NoneIs
<1>4. /\ ownLease' \in OwnLeases \cup {NoLease} /\ (ownLease' = NoLease) = (ownLease = NoLease)
      /\ ownLease # NoLease => ownLease'.toConfirm = ownLease.toConfirm
  <2>1. CASE UNCHANGED ownLease
    BY <1>1, <2>1 DEF LendTypes
  <2>2. CASE /\ ownLease # NoLease
             /\ \E ids \in SUBSET LentAccounts, outcome \in {"returned", "failed"} :
                  ownLease' = Finalized(ownLease, ids, outcome)
    <3>1. PICK l \in OwnLeases : l = ownLease
      BY <2>2, LeaseIs
    <3>2. ownLease' \in OwnLeases /\ ownLease'.toConfirm = l.toConfirm
      BY <2>2, <3>1, FinalizedIs
    <3>3. QED
      BY <2>2, <3>1, <3>2, LeaseFields
  <2>3. QED
    BY <2>1, <2>2
<1>5. /\ ownMarked' \subseteq ownMarked
      /\ UNCHANGED ownMarked \/ GivenUp(transfer')
  OBVIOUS
<1>7. Back' = Back
  BY <1>3 DEF Back
<1>14. GivenUp(transfer) => GivenUp(transfer')
  BY <1>3 DEF GivenUp
<1>15. OwnTerms'
  <2>1. ownLease' # NoLease => LeaseKnown(ownLease)
    BY <1>1, <1>4 DEF OwnTerms
  <2>2. CASE UNCHANGED <<ownLease, ownMarked>>
    BY <1>1, <1>4, <1>7, <1>14, <2>1, <2>2, PollEnds DEF OwnTerms, LeaseKnown
  <2>3. CASE /\ ownLease # NoLease /\ ownMarked' = {}
             /\ \E ids \in SUBSET LentAccounts, outcome \in {"returned", "failed"} :
                  /\ ownLease' = Finalized(ownLease, ids, outcome)
                  /\ outcome = "failed" => GivenUp(transfer')
    <3>1. PICK l \in OwnLeases : l = ownLease
      BY <2>3, LeaseIs
    <3>2. /\ ownLease'.state = "returned" => ownLease'.ids = {}
          /\ ownLease'.state = "failed" => GivenUp(transfer')
      BY <2>3, <3>1, FinalizedIs
    <3>3. LeaseKnown(ownLease)'
      BY <2>3, <3>2 DEF LeaseKnown
    <3>4. QED
      BY <1>1, <1>7, <1>14, <2>3, <3>3, PollEnds DEF OwnTerms, LeaseKnown
  <2>4. QED
    BY <2>2, <2>3
<1>6. LendTypes'
  BY <1>1, <1>3, <1>4, <1>5, PollEnds DEF LendTypes
<1>8. OwnKnows'
  <2>1. StillSo(ownPoll.ans) => StillSo(ownPoll.ans)' \/ ownPoll' # ownPoll
    BY <1>3, <1>14 DEF StillSo
  <2>2. QED
    BY <1>1, <1>3, <1>4, <1>5, <2>1, PollEnds DEF OwnKnows
<1>9. BorKnows'
  BY <1>1, <1>3 DEF BorKnows, Held
<1>10. RetKnows'
  BY <1>1, <1>3, <1>4, <1>7 DEF RetKnows, BackKnown
<1>11. ASSUME NoAnswerLost'
       PROVE  AcksArrive'
  <2>1. AcksArrive
    BY <1>11 DEF LeaseInv, NoAnswerLost
  <2>2. transfer'.state = "cancelled" => borLease = NoLease \/ borPoll.at = "ack"
    <3>1. CASE transfer.state = "pending"
      <4>1. borPoll.at \in BorPlaces
        BY <1>1 DEF LendTypes, LeasePolls
      <4>2. QED
        BY <1>1, <2>1, <3>1, <4>1 DEF AcksArrive, BorKnows, BorPlaces
    <3>2. CASE transfer'.state = transfer.state
      BY <2>1, <3>2 DEF AcksArrive
    <3>3. QED
      BY <1>3, <3>1, <3>2
  <2>3. ownLease' # NoLease =>
          \A x \in LentAccounts \ ownMarked' : x \in Back' \/ GivenUp(transfer')
    BY <1>4, <1>5, <1>7, <1>14, <2>1 DEF AcksArrive
  <2>4. ownLease' = NoLease => ownPoll'.at = "mark"
    BY <1>4, <2>1 DEF AcksArrive
  <2>5. QED
    BY <1>3, <2>1, <2>2, <2>3, <2>4 DEF AcksArrive
<1>12. ASSUME AllKept'
       PROVE  CredsKept'
  <2>1. CredsKept
    BY <1>12 DEF LeaseInv, AllKept
  <2>2. Lent' = Lent
    BY <1>3, <1>7 DEF Lent
  <2>3. \A x \in LentAccounts : OwnRestored(x)' = OwnRestored(x)
    BY <1>3, <1>4 DEF OwnRestored
  <2>4. Lent' => UNCHANGED ownMarked
    BY <1>5 DEF Lent, GivenUp, Back
  <2>5. Lent' => \A x \in LentAccounts : Borrowed(x) => Borrowed(x)'
    BY <1>3, <1>4, <1>7, <2>4 DEF Borrowed, Held
  <2>6. QED
    BY <1>3, <1>7, <2>1, <2>2, <2>3, <2>5, PollEnds DEF CredsKept
<1>13. QED
  BY <1>6, <1>8, <1>9, <1>10, <1>11, <1>12, <1>15 DEF LeaseInv

(* reconcileTerminalOutgoingLeases only finds what is known already: a lease     *)
(* that failed is given up, and one that is over has no account left.           *)
LEMMA ReconciledIs ==
  ASSUME NEW l \in OwnLeases, LeaseKnown(l)
  PROVE  /\ Reconciled(l) \in OwnLeases /\ Reconciled(l).toConfirm = l.toConfirm
         /\ Reconciled(l).state = "returned" => Reconciled(l).ids = {}
         /\ Reconciled(l).state = "failed" => GivenUp(transfer)
         /\ Terminal(l) => /\ GivenUp(transfer) \/ ownMarked = {}
                           /\ \E outcome \in {"returned", "failed"} :
                                /\ Reconciled(l) = Finalized(l, ownMarked, outcome)
                                /\ outcome = "failed" => GivenUp(transfer)
         /\ ~Terminal(l) => Reconciled(l) = l
<1>1. CASE Terminal(l)
  <2>1. PICK outcome \in {"returned", "failed"} : outcome = l.state
    BY <1>1 DEF Terminal
  <2>2. /\ Reconciled(l) = Finalized(l, ownMarked, outcome)
        /\ outcome = "failed" => GivenUp(transfer)
        /\ GivenUp(transfer) \/ ownMarked = {}
    BY <1>1, <2>1 DEF Reconciled, LeaseKnown
  <2>3. ownMarked \in SUBSET LentAccounts
    BY LeaseFields DEF LeaseKnown
  <2>4. QED
    BY <1>1, <2>2, <2>3, FinalizedIs
<1>2. CASE ~Terminal(l)
  BY <1>2 DEF Reconciled, LeaseKnown
<1>3. QED
  BY <1>1, <1>2

LEMMA CancelShareKeeps ==
  ASSUME LeaseInv, CancelShare
  PROVE  LeaseInv'
<1>1. /\ transfer # NoTransfer /\ ownLease # NoLease
      /\ ownPoll' = Idle /\ ownSaved' = NoLease
  BY DEF CancelShare, LeaseInv, OwnKnows, StillSo
<1>2. UNCHANGED <<borLease, processed, borPoll, borCred, newest, ret, ownCred, leaseSlips>>
  BY DEF CancelShare, OwnUnchanged, borVars
<1>3. transfer' = transfer \/ transfer' = Cancelled(transfer)
  BY DEF CancelShare
<1>4. \/ UNCHANGED <<ownLease, ownMarked>>
      \/ /\ ownMarked' = {} /\ (GivenUp(transfer') \/ ownMarked = {})
         /\ \E ids \in SUBSET LentAccounts, outcome \in {"returned", "failed"} :
              /\ ownLease' = Finalized(ownLease, ids, outcome)
              /\ outcome = "failed" => GivenUp(transfer')
  <2>1. CASE /\ ownLease' = Reconciled(ownLease) /\ UNCHANGED transfer
             /\ ownMarked' = IF Terminal(ownLease) THEN {} ELSE ownMarked
    <3>1. PICK l \in OwnLeases : l = ownLease /\ LeaseKnown(l)
      BY <1>1, LeaseIs DEF LeaseInv, OwnTerms
    <3>2. ownMarked \in SUBSET LentAccounts
      BY DEF LeaseInv, LendTypes
    <3>3. /\ Terminal(l) => /\ GivenUp(transfer) \/ ownMarked = {}
                            /\ \E outcome \in {"returned", "failed"} :
                                 /\ Reconciled(l) = Finalized(l, ownMarked, outcome)
                                 /\ outcome = "failed" => GivenUp(transfer)
          /\ ~Terminal(l) => Reconciled(l) = l
      BY <3>1, ReconciledIs
    <3>4. QED
      BY <2>1, <3>1, <3>2, <3>3
  <2>2. CASE /\ transfer'.state \in {"cancelled", "failed"} /\ ownMarked' = {}
             /\ ownLease' = Finalized(ownLease, LentAccounts, "failed")
    BY <2>2 DEF GivenUp
  <2>3. CASE UNCHANGED <<ownLease, ownMarked>>
    BY <2>3
  <2>4. QED
    BY <2>1, <2>2, <2>3 DEF CancelShare
<1>5. QED
  BY <1>1, <1>2, <1>3, <1>4, OverKeeps

(* A restart brings back the lease as it was persisted.  It takes back accounts   *)
(* that are lent only past the lease's time, and forgets what has come back only *)
(* before that is confirmed.                                                 *)
LEMMA OwnRestartsKeeps ==
  ASSUME LeaseInv, OwnRestarts
  PROVE  LeaseInv'
<1>1. LendTypes /\ OwnKnows /\ OwnTerms /\ BorKnows /\ RetKnows
  BY DEF LeaseInv
<1>2. PICK lease, recovered :
        /\ lease = IF ownPoll.at = "confirm" THEN ownSaved ELSE ownLease
        /\ recovered = (leaseExpired /\ ownMarked # {})
  OBVIOUS
<1>3. /\ UNCHANGED <<borLease, processed, borPoll, borCred, newest, ret, ownCred, transfer>>
      /\ ownPoll' = Idle /\ ownSaved' = NoLease
      /\ ownLease' = IF lease = NoLease THEN NoLease
                     ELSE IF recovered THEN [lease EXCEPT !.ids = @ \ ownMarked, !.state = "expired"]
                     ELSE Reconciled(lease)
      /\ ownMarked' = IF recovered \/ (lease # NoLease /\ Terminal(lease)) THEN {} ELSE ownMarked
      /\ leaseSlips' = leaseSlips
           \cup (IF ownPoll.at = "mark" THEN {"shareLost"} ELSE {})
           \cup (IF ownPoll.at = "confirm" THEN {"returnForgotten"} ELSE {})
           \cup (IF recovered THEN {"takenBack"} ELSE {})
  BY <1>2 DEF OwnRestarts, OwnUnchanged, borVars
<1>4. ownPoll.at \in OwnPlaces
  BY LeaseIs, PollIs
<1>5. /\ (lease = NoLease) = (ownLease = NoLease) /\ lease \in OwnLeases \cup {NoLease}
      /\ lease # NoLease => LeaseKnown(lease) /\ lease.toConfirm \subseteq Back
  <2>1. ownPoll.at = "confirm" => ownLease # NoLease
    BY <1>1 DEF OwnKnows
  <2>2. CASE ownPoll.at = "confirm"
    BY <1>1, <1>2, <2>1, <2>2 DEF LendTypes, OwnTerms
  <2>3. CASE ownPoll.at # "confirm"
    BY <1>1, <1>2, <2>3 DEF LendTypes, OwnTerms, OwnKnows, RetKnows, BackKnown
  <2>4. QED
    BY <2>2, <2>3
<1>6. /\ ownLease' \in OwnLeases \cup {NoLease} /\ (ownLease' = NoLease) = (ownLease = NoLease)
      /\ ownLease' # NoLease =>
           /\ ownLease'.toConfirm \subseteq Back
           /\ ownLease'.state = "returned" => ownLease'.ids = {}
           /\ ownLease'.state = "failed" => GivenUp(transfer)
           /\ ownMarked' \subseteq ownLease'.ids
      /\ ownMarked' \subseteq ownMarked
      /\ ~recovered => ownMarked' = ownMarked \/ GivenUp(transfer)
  <2>1. CASE lease = NoLease
    <3>1. ownMarked = {} /\ ownMarked' = {}
      BY <1>1, <1>3, <1>5, <2>1 DEF OwnKnows
    <3>2. QED
      BY <1>3, <1>5, <2>1, <3>1
  <2>2. CASE lease # NoLease /\ recovered
    <3>1. PICK l \in OwnLeases : l = lease
      BY <1>5, <2>2
    <3>2. PICK left \in SUBSET LentAccounts : left = l.ids \ ownMarked
      BY LeaseFields
    <3>3. PICK q : q = [l EXCEPT !.ids = left, !.state = "expired"]
      OBVIOUS
    <3>4. q \in OwnLeases /\ q.toConfirm = l.toConfirm /\ q.state = "expired"
      BY <3>3 DEF OwnLeases
    <3>5. ownLease' = q /\ ownMarked' = {}
      BY <1>3, <2>2, <3>1, <3>2, <3>3
    <3>6. QED
      BY <1>5, <2>2, <3>1, <3>4, <3>5, LeaseFields
  <2>3. CASE lease # NoLease /\ ~recovered
    <3>1. PICK l \in OwnLeases : l = lease /\ LeaseKnown(l) /\ l.toConfirm \subseteq Back
      BY <1>5, <2>3
    <3>2. ownLease' = Reconciled(l) /\ ownMarked' = IF Terminal(l) THEN {} ELSE ownMarked
      BY <1>3, <2>3, <3>1
    <3>3. /\ Reconciled(l) \in OwnLeases /\ Reconciled(l).toConfirm = l.toConfirm
          /\ Reconciled(l).state = "returned" => Reconciled(l).ids = {}
          /\ Reconciled(l).state = "failed" => GivenUp(transfer)
          /\ Terminal(l) => GivenUp(transfer) \/ ownMarked = {}
          /\ ~Terminal(l) => Reconciled(l) = l
      BY <3>1, ReconciledIs
    <3>4. ownMarked' \subseteq ownLease'.ids
      BY <3>1, <3>2, <3>3 DEF LeaseKnown
    <3>5. QED
      BY <1>5, <2>3, <3>1, <3>2, <3>3, <3>4, LeaseFields
  <2>4. QED
    BY <2>1, <2>2, <2>3
<1>7. LendTypes'
  BY <1>1, <1>3, <1>6, PollEnds DEF LendTypes
<1>8. OwnKnows'
  BY <1>1, <1>3, <1>6, PollEnds DEF OwnKnows
<1>9. OwnTerms'
  <2>1. ownLease' # NoLease => LeaseKnown(ownLease)'
    BY <1>3, <1>6 DEF LeaseKnown
  <2>2. QED
    BY <1>3, <2>1, PollEnds DEF OwnTerms
<1>10. BorKnows'
  BY <1>1, <1>3 DEF BorKnows, Held
<1>11. Back' = Back
  BY <1>3 DEF Back
<1>12. RetKnows'
  BY <1>1, <1>3, <1>6, <1>11 DEF RetKnows, BackKnown
<1>13. leaseSlips \subseteq leaseSlips'
  BY <1>3
<1>14. ASSUME NoAnswerLost'
       PROVE  AcksArrive' /\ ~recovered /\ ownPoll.at # "mark"
  <2>1. AcksArrive /\ ~recovered /\ ownPoll.at # "mark"
    BY <1>3, <1>13, <1>14, SlipsStay DEF LeaseInv, NoAnswerLost
  <2>2. ownLease' # NoLease =>
          \A x \in LentAccounts \ ownMarked' : x \in Back \/ GivenUp(transfer)
    BY <1>6, <2>1 DEF AcksArrive
  <2>3. QED
    BY <1>3, <1>6, <1>11, <2>1, <2>2 DEF AcksArrive
<1>15. ASSUME AllKept'
       PROVE  CredsKept'
  <2>1. CredsKept /\ ~recovered /\ ownPoll.at # "confirm"
    BY <1>3, <1>13, <1>15, SlipsStay DEF LeaseInv, AllKept
  <2>2. Lent' = Lent
    BY <1>3, <1>11 DEF Lent
  <2>3. \A x \in LentAccounts : OwnRestored(x)' = OwnRestored(x)
    <3>1. CASE ownLease = NoLease
      BY <1>3, <1>6, <3>1 DEF OwnRestored
    <3>2. CASE ownLease # NoLease
      <4>1. PICK l \in OwnLeases : l = ownLease /\ LeaseKnown(l)
        BY <1>1, <3>2, LeaseIs DEF OwnTerms
      <4>2. ownLease' = Reconciled(l)
        BY <1>2, <1>3, <2>1, <3>2, <4>1
      <4>3. ownLease'.toConfirm = ownLease.toConfirm
        BY <4>1, <4>2, ReconciledIs
      <4>4. QED
        BY <1>3, <1>6, <3>2, <4>3 DEF OwnRestored
    <3>3. QED
      BY <3>1, <3>2
  <2>4. Lent' => ownMarked' = ownMarked
    BY <1>6, <2>1, <2>2 DEF Lent, GivenUp, Back
  <2>5. Lent' => \A x \in LentAccounts : Borrowed(x) => Borrowed(x)'
    BY <1>3, <1>6, <1>11, <2>4 DEF Borrowed, Held
  <2>6. QED
    BY <1>3, <1>11, <2>1, <2>2, <2>3, <2>5, PollEnds DEF CredsKept
<1>16. QED
  BY <1>7, <1>8, <1>9, <1>10, <1>12, <1>14, <1>15 DEF LeaseInv

LEMMA RelayExpiresKeeps ==
  ASSUME LeaseInv, RelayExpires
  PROVE  LeaseInv'
BY OverKeeps DEF RelayExpires, Expired, ownVars, borVars, credVars

-----------------------------------------------------------------------------
(* The borrower.                                                             *)

LEMMA BorPollsKeeps ==
  ASSUME LeaseInv, BorPolls
  PROVE  LeaseInv'
<1>1. LendTypes /\ OwnKnows /\ BorKnows /\ RetKnows
  BY DEF LeaseInv
<1>2. /\ borPoll.at = "idle" /\ transfer # NoTransfer /\ transfer.state = "pending"
      /\ UNCHANGED <<ownVars, ownCred, newest, borLease, processed, borCred, ret, transfer, leaseSlips>>
  BY DEF BorPolls, BorUnchanged
<1>3. PICK t \in Transfers : t = transfer
  BY <1>2, LeaseIs
<1>4. PICK at \in {"again", "import"} : at = IF processed THEN "again" ELSE "import"
  OBVIOUS
<1>5. borPoll' \in LeasePolls(BorPlaces) /\ borPoll'.at = at /\ borPoll'.ans = transfer
  BY <1>3, <1>4, PollStarts DEF BorPolls, BorPlaces
<1>6. LendTypes' /\ OwnKnows'
  BY <1>1, <1>2, <1>5 DEF LendTypes, OwnKnows, StillSo, ownVars
<1>7. BorKnows'
  BY <1>1, <1>2, <1>4, <1>5 DEF BorKnows, Held
<1>8. RetKnows'
  BY <1>1, <1>2 DEF RetKnows, BackKnown, Back, ownVars
<1>9. ASSUME NoAnswerLost'
      PROVE  AcksArrive'
  <2>1. AcksArrive
    BY <1>2, <1>9 DEF LeaseInv, NoAnswerLost
  <2>2. at = "import"
    BY <1>2, <1>4, <2>1 DEF AcksArrive
  <2>3. QED
    BY <1>2, <1>5, <2>1, <2>2 DEF AcksArrive, Back, ownVars
<1>10. ASSUME AllKept'
       PROVE  CredsKept'
  <2>1. CredsKept
    BY <1>2, <1>10 DEF LeaseInv, AllKept
  <2>2. ret.at = "off" /\ Back = {} /\ ~Lent
    BY <1>2, <2>1 DEF CredsKept, Lent
  <2>3. QED
    BY <1>2, <1>5, <2>1, <2>2 DEF CredsKept, Lent, Back, ownVars
<1>12. OwnTerms'
  BY <1>2, TermsRest
<1>11. QED
  BY <1>6, <1>7, <1>8, <1>9, <1>10, <1>12 DEF LeaseInv

LEMMA ImportSharedKeeps ==
  ASSUME LeaseInv, ImportShared
  PROVE  LeaseInv'
<1>1. LendTypes /\ OwnKnows /\ BorKnows /\ RetKnows
  BY DEF LeaseInv
<1>2. /\ borPoll.at = "import" /\ transfer # NoTransfer /\ ~processed /\ processed' = TRUE
      /\ borLease = NoLease /\ Held = {} /\ Back = {} /\ ret.at = "off" /\ borPoll.ans # NoTransfer
      /\ transfer.state \in {"pending", "cancelled"}
      /\ UNCHANGED <<ownVars, ownCred, newest, ret, transfer, leaseSlips>>
  BY <1>1 DEF ImportShared, BorUnchanged, BorKnows, RetKnows, BackKnown
<1>3. PICK t \in Transfers : t = borPoll.ans
  BY <1>2, LeaseIs, PollIs
<1>4. PICK at \in {"ack", "refuse"} :
        /\ borPoll' = [borPoll EXCEPT !.at = at]
        /\ at = "ack" => /\ borCred' = t.cred
                         /\ borLease' = [state |-> "received", ids |-> LentAccounts]
        /\ at = "refuse" => UNCHANGED <<borCred, borLease>>
  BY <1>3 DEF ImportShared
<1>5. borPoll' \in LeasePolls(BorPlaces) /\ borPoll'.at = at /\ borPoll'.ans = borPoll.ans
  BY <1>1, <1>4, PollMoved DEF LendTypes, BorPlaces
<1>6. /\ borCred' \in Creds
      /\ at = "ack" => borLease' \in BorLeases /\ borLease' # NoLease /\ borLease'.state = "received"
                       /\ borLease'.ids = LentAccounts
      /\ at = "refuse" => borLease' = NoLease /\ Held' = {}
  <2>1. CASE at = "ack"
    <3>1. borLease' \in BorLeases
      BY <1>4, <2>1 DEF BorLeases
    <3>2. QED
      BY <1>4, <2>1, <3>1, TransferFields, LeaseFields
  <2>2. CASE at = "refuse"
    BY <1>1, <1>2, <1>4, <2>2 DEF LendTypes, Held
  <2>3. QED
    BY <2>1, <2>2
<1>7. processed' \in BOOLEAN
  BY <1>2
<1>8. LendTypes' /\ OwnKnows'
  BY <1>1, <1>2, <1>4, <1>5, <1>6, <1>7 DEF LendTypes, OwnKnows, StillSo, ownVars
<1>9. BorKnows'
  BY <1>1, <1>2, <1>4, <1>5, <1>6 DEF BorKnows, Held
<1>10. RetKnows'
  BY <1>1, <1>2 DEF RetKnows, BackKnown, Back, ownVars
<1>11. NoAnswerLost' => AcksArrive'
  BY <1>2, <1>4, <1>5, <1>6 DEF AcksArrive, LeaseInv, NoAnswerLost, Back, ownVars
<1>12. ASSUME AllKept'
       PROVE  CredsKept'
  <2>1. CredsKept
    BY <1>2, <1>12 DEF LeaseInv, AllKept
  <2>2. Lent' = Lent /\ Back' = {}
    BY <1>2 DEF Lent, Back
  <2>3. ~Lent
    BY <1>2 DEF Lent
  <2>4. at = "ack" => borCred' = First
    BY <1>2, <1>3, <1>4, <2>1 DEF CredsKept
  <2>5. QED
    BY <1>2, <1>4, <1>5, <1>6, <2>1, <2>2, <2>3, <2>4 DEF CredsKept, ownVars
<1>14. OwnTerms'
  BY <1>2, TermsRest
<1>13. QED
  BY <1>8, <1>9, <1>10, <1>11, <1>12, <1>14 DEF LeaseInv

LEMMA DeclinedIs ==
  ASSUME NEW t \in Transfers
  PROVE  /\ Declined(t) \in Transfers
         /\ Declined(t).state = IF t.state \in {"delivered", "pending"} THEN "returned" ELSE t.state
         /\ Declined(t).cred = t.cred /\ Declined(t).back = t.back
         /\ Declined(t).confirmed = t.confirmed
<1>1. PICK s \in TransferStates : s = IF t.state \in {"delivered", "pending"} THEN "returned" ELSE t.state
  BY TransferFields DEF TransferStates
<1>2. Declined(t) = [t EXCEPT !.state = s]
  BY <1>1 DEF Declined
<1>3. QED
  BY <1>1, <1>2, StateChanged

(* What is declined was not imported, so nothing can come back of it.           *)
LEMMA DeclineLateKeeps ==
  ASSUME LeaseInv, DeclineLate
  PROVE  LeaseInv'
<1>1. LendTypes /\ OwnKnows /\ BorKnows /\ RetKnows
  BY DEF LeaseInv
<1>2. /\ borPoll.at = "import" /\ transfer # NoTransfer /\ ~processed /\ processed' = TRUE
      /\ borLease = NoLease /\ Held = {} /\ Back = {} /\ ret.at = "off" /\ borPoll.ans # NoTransfer
      /\ transfer.state \in {"pending", "cancelled"}
      /\ borPoll' = [borPoll EXCEPT !.at = "refuse"]
      /\ UNCHANGED <<ownVars, ownCred, newest, borLease, borCred, ret, leaseSlips>>
  BY <1>1 DEF DeclineLate, BorUnchanged, BorKnows, RetKnows, BackKnown
<1>3. PICK t \in Transfers : t = transfer
  BY <1>2, LeaseIs
<1>4. /\ transfer' \in Transfers /\ transfer' # NoTransfer
      /\ transfer'.state = transfer.state \/ (transfer.state = "pending" /\ transfer'.state = "returned")
      /\ transfer'.cred = transfer.cred /\ transfer'.back = transfer.back
      /\ transfer'.confirmed = transfer.confirmed
  <2>1. transfer' = t \/ transfer' = Declined(t)
    BY <1>3 DEF DeclineLate
  <2>2. QED
    BY <1>2, <1>3, <2>1, DeclinedIs, NoneIs
<1>5. borPoll' \in LeasePolls(BorPlaces) /\ borPoll'.at = "refuse" /\ borPoll'.ans = borPoll.ans
  BY <1>1, <1>2, PollMoved DEF LendTypes, BorPlaces
<1>6. Back' = Back /\ (GivenUp(transfer) => GivenUp(transfer'))
  BY <1>4 DEF Back, GivenUp
<1>7. processed' \in BOOLEAN
  BY <1>2
<1>8. LendTypes'
  BY <1>1, <1>2, <1>4, <1>5, <1>7 DEF LendTypes, ownVars
<1>9. OwnKnows'
  BY <1>1, <1>2, <1>4, <1>6 DEF OwnKnows, StillSo, ownVars
<1>10. OwnTerms'
  BY <1>2, <1>6, TermsStay
<1>11. BorKnows'
  BY <1>2, <1>4, <1>5 DEF BorKnows, Held
<1>12. RetKnows'
  BY <1>1, <1>2, <1>4, <1>6 DEF RetKnows, BackKnown, ownVars
<1>13. ASSUME NoAnswerLost'
       PROVE  AcksArrive'
  <2>1. AcksArrive
    BY <1>2, <1>13 DEF LeaseInv, NoAnswerLost
  <2>2. QED
    BY <1>2, <1>4, <1>5, <1>6, <2>1 DEF AcksArrive, ownVars
<1>14. ASSUME AllKept'
       PROVE  CredsKept'
  <2>1. CredsKept
    BY <1>2, <1>14 DEF LeaseInv, AllKept
  <2>2. ~Lent /\ ~Lent'
    BY <1>2, <1>4, <1>6 DEF Lent
  <2>3. QED
    BY <1>2, <1>4, <1>5, <1>6, <2>1, <2>2 DEF CredsKept, ownVars
<1>15. QED
  BY <1>8, <1>9, <1>10, <1>11, <1>12, <1>13, <1>14 DEF LeaseInv

LEMMA AckTransferKeeps ==
  ASSUME LeaseInv, AckTransfer
  PROVE  LeaseInv'
<1>1. LendTypes /\ OwnKnows /\ BorKnows /\ RetKnows
  BY DEF LeaseInv
<1>2. /\ borPoll.at \in {"ack", "refuse", "again"} /\ transfer # NoTransfer /\ processed
      /\ UNCHANGED <<ownVars, ownCred, newest, ret, processed>>
  BY <1>1 DEF AckTransfer, BorUnchanged, BorKnows
<1>3. PICK t \in Transfers : t = transfer
  BY <1>2, LeaseIs
<1>4. PICK outcome \in {"delivered", "failed"} :
        outcome = IF borPoll.at = "refuse" THEN "failed" ELSE "delivered"
  OBVIOUS
<1>5. PICK taken \in Transfers : /\ taken = AckedTransfer(t, outcome)
                                 /\ taken.state = IF t.state = "pending" THEN outcome ELSE t.state
                                 /\ taken.cred = t.cred /\ taken.back = t.back
                                 /\ taken.confirmed = t.confirmed
  BY AckedIs
<1>6. PICK over : over = (taken.state \in {"cancelled", "returned", "failed"})
  OBVIOUS
<1>7. PICK fate \in LeaseFates :
        /\ transfer' = IF fate = "lost" THEN t ELSE taken
        /\ IF fate = "answered" /\ borPoll.at = "ack" /\ over
             THEN borCred' = [a \in LentAccounts |-> 0] /\ borLease' = NoLease
             ELSE UNCHANGED <<borCred, borLease>>
        /\ LeaseSlip("ackLost", fate = "lost" \/ (fate = "unanswered" /\ over))
        /\ borPoll' = IF fate # "answered" /\ borPoll.at = "ack"
                        THEN [borPoll EXCEPT !.at = "refuse"] ELSE Idle
  BY <1>3, <1>4, <1>5, <1>6 DEF AckTransfer
<1>8. /\ transfer' \in Transfers /\ transfer' # NoTransfer /\ transfer'.back = transfer.back
      /\ transfer'.cred = transfer.cred /\ transfer'.confirmed = transfer.confirmed
      /\ transfer'.state \in {transfer.state, taken.state}
  BY <1>3, <1>5, <1>7, NoneIs
<1>9. /\ borPoll' \in LeasePolls(BorPlaces)
      /\ IF fate # "answered" /\ borPoll.at = "ack"
           THEN borPoll'.at = "refuse" /\ borPoll'.ans = borPoll.ans ELSE borPoll'.at = "idle"
  BY <1>1, <1>7, PollMoved, PollEnds DEF LendTypes, BorPlaces
<1>10. PICK dropped : dropped = (fate = "answered" /\ borPoll.at = "ack" /\ over)
  OBVIOUS
<1>11. /\ borCred' \in Creds
       /\ IF dropped THEN borLease' = NoLease /\ Held' = {}
          ELSE UNCHANGED <<borCred, borLease>> /\ Held' = Held
  <2>1. CASE dropped
    <3>1. borCred' = [a \in LentAccounts |-> 0] /\ borLease' = NoLease
      BY <1>7, <1>10, <2>1
    <3>2. QED
      BY <2>1, <3>1 DEF Creds, Held
  <2>2. CASE ~dropped
    <3>1. UNCHANGED <<borCred, borLease>>
      BY <1>7, <1>10, <2>2
    <3>2. QED
      BY <1>1, <2>2, <3>1 DEF LendTypes, Held
  <2>3. QED
    BY <2>1, <2>2
<1>12. LendTypes'
  BY <1>1, <1>2, <1>8, <1>9, <1>11 DEF LendTypes, ownVars
<1>15. Back' = Back /\ (GivenUp(transfer) => GivenUp(transfer'))
  BY <1>3, <1>5, <1>8 DEF Back, GivenUp
<1>13. OwnKnows'
  BY <1>1, <1>2, <1>8, <1>15 DEF OwnKnows, StillSo, ownVars
<1>14. BorKnows'
  BY <1>1, <1>2, <1>8, <1>9, <1>11 DEF BorKnows
<1>16. RetKnows'
  <2>1. transfer'.state = "pending" => transfer.state = "pending" /\ ~dropped
    BY <1>3, <1>4, <1>5, <1>6, <1>7, <1>8, <1>10
  <2>2. transfer'.state = "returned" => transfer.state = "returned"
    BY <1>3, <1>4, <1>5, <1>8
  <2>3. borLease' \in {borLease, NoLease} /\ (borLease' = borLease \/ dropped)
    BY <1>11
  <2>4. QED
    BY <1>1, <1>2, <1>8, <1>15, <2>1, <2>2, <2>3 DEF RetKnows, BackKnown, ownVars
<1>17. /\ leaseSlips \subseteq leaseSlips'
       /\ NoAnswerLost' => fate # "lost" /\ (fate = "unanswered" => ~over)
  BY <1>7 DEF LeaseSlip, NoAnswerLost
<1>18. ASSUME NoAnswerLost'
       PROVE  AcksArrive' /\ AcksArrive
  <2>1. AcksArrive
    BY <1>17, <1>18, SlipsStay DEF LeaseInv
  <2>2. transfer' = taken /\ taken.state \in TransferStates /\ t.state \in TransferStates
    BY <1>7, <1>17, <1>18, TransferFields
  <2>3. taken.state # "pending"
    BY <1>4, <1>5
  <2>4. borPoll'.at = "refuse" => taken.state = "delivered"
    BY <1>6, <1>7, <1>9, <1>17, <1>18, <2>2, <2>3 DEF LeaseFates, TransferStates
  <2>5. taken.state = "failed" => borLease' = NoLease /\ borPoll'.at = "idle"
    BY <1>2, <1>3, <1>4, <1>5, <1>9, <1>11, <2>1, <2>4 DEF AcksArrive
  <2>6. taken.state = "cancelled" => borLease' = NoLease
    BY <1>2, <1>3, <1>4, <1>5, <1>6, <1>10, <1>11, <1>17, <1>18, <2>1 DEF AcksArrive, LeaseFates
  <2>7. ownLease' # NoLease =>
          \A x \in LentAccounts \ ownMarked' : x \in Back' \/ GivenUp(transfer')
    BY <1>2, <1>15, <2>1 DEF AcksArrive, ownVars
  <2>8. QED
    BY <1>2, <1>8, <1>9, <2>1, <2>2, <2>3, <2>4, <2>5, <2>6, <2>7 DEF AcksArrive, ownVars
<1>19. ASSUME AllKept'
       PROVE  CredsKept'
  <2>1. CredsKept /\ AcksArrive /\ fate # "lost"
    BY <1>17, <1>18, <1>19, SlipsStay DEF LeaseInv
  <2>2. ret.at = "off" /\ Back = {} /\ transfer' = taken
    BY <1>2, <1>7, <2>1 DEF CredsKept
  <2>3. taken.state # "pending"
    BY <1>4, <1>5
  <2>4. ASSUME Lent', NEW x \in LentAccounts
        PROVE  ~OwnRestored(x)' /\ Borrowed(x)'
    <3>1. ~OwnRestored(x) /\ ~OwnRestored(x)'
      BY <1>1, <1>2, <1>8, <2>2 DEF OwnRestored, RetKnows, BackKnown, ownVars
    <3>2. taken.state = "delivered"
      BY <1>15, <2>2, <2>4 DEF Lent
    <3>3. UNCHANGED <<borCred, borLease>> /\ Held' = Held
      BY <1>6, <1>10, <1>11, <3>2
    <3>4. /\ x \in Held /\ borCred[x] = newest[x]
          /\ ownLease # NoLease => x \in ownMarked
      <4>1. CASE transfer.state = "delivered"
        <5>1. Borrowed(x)
          BY <1>2, <2>1, <3>1, <4>1 DEF CredsKept, Lent
        <5>2. QED
          BY <2>2, <5>1 DEF Borrowed
      <4>2. CASE transfer.state # "delivered"
        <5>1. transfer.state = "pending" /\ borPoll.at = "ack"
          BY <1>2, <1>3, <1>4, <1>5, <2>1, <3>2, <4>2 DEF AcksArrive
        <5>2. borLease # NoLease
          BY <1>1, <5>1 DEF BorKnows
        <5>3. newest = First /\ borCred = First
          BY <1>2, <2>1, <5>1, <5>2 DEF CredsKept
        <5>4. x \in Held
          BY <5>3 DEF Held, First
        <5>5. ownLease # NoLease => x \in ownMarked
          BY <2>1, <2>2, <5>1 DEF AcksArrive, GivenUp
        <5>6. QED
          BY <5>3, <5>4, <5>5
      <4>3. QED
        BY <4>1, <4>2
    <3>5. \A i \in DOMAIN transfer.back : x \notin transfer.back[i].ids
      BY <2>2, ReturnedIs DEF Back
    <3>6. QED
      BY <1>2, <1>8, <2>2, <3>1, <3>3, <3>4, <3>5 DEF Borrowed, ownVars
  <2>5. ~Lent' => ~Lent
    BY <1>2, <1>3, <1>5, <1>8, <2>2 DEF Lent
  <2>6. QED
    BY <1>2, <1>8, <1>9, <1>15, <2>1, <2>2, <2>3, <2>4, <2>5 DEF CredsKept, ownVars
<1>21. OwnTerms'
  BY <1>2, <1>15, TermsStay
<1>20. QED
  BY <1>12, <1>13, <1>14, <1>16, <1>18, <1>19, <1>21 DEF LeaseInv

(* A return whose confirmation has come is a return the owner has restored.    *)
LEMMA WithoutIs ==
  ASSUME LendTypes, NEW ids
  PROVE  /\ Without(ids) \in Creds
         /\ \A x \in LentAccounts : Without(ids)[x] = IF x \in ids THEN 0 ELSE borCred[x]
BY DEF LendTypes, Without, Creds

LEMMA ReadConfirmationsKeeps ==
  ASSUME LeaseInv, ReadConfirmations
  PROVE  LeaseInv'
<1>1. LendTypes /\ OwnKnows /\ BorKnows /\ RetKnows
  BY DEF LeaseInv
<1>2. PICK l \in BorLeases : l = borLease /\ l.state = "return_pending"
  BY LeaseIs DEF ReadConfirmations
<1>3. transfer # NoTransfer /\ processed /\ Held \subseteq l.ids /\ transfer.confirmed \subseteq Back
  BY <1>1, <1>2, LeaseFields DEF BorKnows, RetKnows, BackKnown
<1>4. PICK ids : ids = l.ids \cap transfer.confirmed
  OBVIOUS
<1>5. /\ ids # {} /\ borCred' = Without(ids)
      /\ borLease' = [ids |-> l.ids \ ids,
                      state |-> IF l.ids \ ids = {} THEN "returned" ELSE "return_pending"]
      /\ UNCHANGED <<ownVars, ownCred, newest, processed, borPoll, ret, transfer, leaseSlips>>
  BY <1>2, <1>4 DEF ReadConfirmations, BorUnchanged
<1>6. PICK s \in {"returned", "return_pending"} :
        s = IF l.ids \ ids = {} THEN "returned" ELSE "return_pending"
  OBVIOUS
<1>7. /\ borLease' \in BorLeases /\ borLease' # NoLease /\ borLease'.ids = l.ids \ ids
      /\ borLease'.state = s
  <2>1. PICK left \in SUBSET LentAccounts : left = l.ids \ ids
    BY LeaseFields
  <2>2. borLease' = [ids |-> left, state |-> s]
    BY <1>5, <1>6, <2>1
  <2>3. borLease' \in BorLeases /\ borLease'.ids = left /\ borLease'.state = s
    BY <2>2 DEF BorLeases
  <2>4. QED
    BY <2>1, <2>3, LeaseFields
<1>8. /\ borCred' \in Creds
      /\ \A x \in LentAccounts : borCred'[x] = IF x \in ids THEN 0 ELSE borCred[x]
  BY <1>1, <1>5, WithoutIs
<1>9. Held' = Held \ ids
  BY <1>8 DEF Held
<1>10. LendTypes' /\ OwnKnows'
  BY <1>1, <1>5, <1>7, <1>8 DEF LendTypes, OwnKnows, StillSo, ownVars
<1>11. BorKnows'
  BY <1>1, <1>3, <1>5, <1>6, <1>7, <1>9 DEF BorKnows
<1>12. RetKnows'
  BY <1>1, <1>2, <1>3, <1>5, <1>6, <1>7, LeaseFields DEF RetKnows, BackKnown, Back, ownVars
<1>13. NoAnswerLost' => AcksArrive'
  BY <1>2, <1>5, <1>7, LeaseFields DEF AcksArrive, LeaseInv, NoAnswerLost, Back, ownVars
<1>14. ASSUME AllKept'
       PROVE  CredsKept'
  <2>1. CredsKept
    BY <1>5, <1>14 DEF LeaseInv, AllKept
  <2>2. Lent' = Lent /\ Back' = Back /\ Lent
    BY <1>3, <1>4, <1>5, <2>1 DEF Lent, Back, CredsKept
  <2>3. \A x \in LentAccounts : OwnRestored(x)' = OwnRestored(x)
    BY <1>5 DEF OwnRestored, ownVars
  <2>4. ASSUME NEW x \in LentAccounts, ~OwnRestored(x)
        PROVE  Borrowed(x)'
    <3>1. Borrowed(x)
      BY <2>1, <2>2, <2>4 DEF CredsKept
    <3>2. x \notin ids
      BY <1>4, <2>4 DEF OwnRestored
    <3>3. QED
      BY <1>5, <1>8, <1>9, <2>2, <3>1, <3>2 DEF Borrowed, ownVars
  <2>5. transfer.state # "pending"
    BY <2>2 DEF Lent
  <2>6. QED
    BY <1>5, <2>1, <2>2, <2>3, <2>4, <2>5 DEF CredsKept, ownVars
<1>16. OwnTerms'
  BY <1>5, TermsRest
<1>15. QED
  BY <1>10, <1>11, <1>12, <1>13, <1>14, <1>16 DEF LeaseInv

(* An account is packed only when its lease is the borrower's, and it is.      *)
LEMMA ReturnLeaseKeeps ==
  ASSUME LeaseInv, NEW ids, ReturnLease(ids)
  PROVE  LeaseInv'
<1>1. LendTypes /\ OwnKnows /\ BorKnows /\ RetKnows
  BY DEF LeaseInv
<1>2. PICK l \in BorLeases : l = borLease
  BY LeaseIs DEF ReturnLease
<1>3. /\ ret.at = "off" /\ l.state # "returned" /\ ids # {} /\ ids \subseteq LentAccounts
      /\ ids \subseteq Held /\ processed /\ transfer # NoTransfer
      /\ borLease' = [l EXCEPT !.state = "return_pending"]
      /\ UNCHANGED <<ownVars, ownCred, newest, borCred, processed, borPoll, transfer>>
  BY <1>1, <1>2, LeaseFields DEF ReturnLease, credVars, BorKnows
<1>4. PICK r : r = [at |-> "post", ids |-> ids, all |-> ids = l.ids, cred |-> borCred]
  OBVIOUS
<1>5. /\ DOMAIN r = {"at", "ids", "all", "cred"} /\ r.at = "post" /\ r.ids = ids /\ r.cred = borCred
  BY <1>4
<1>6. \/ ret' = r /\ LeaseSlip("returnedUnacknowledged", borPoll.at # "idle")
      \/ UNCHANGED ret /\ LeaseSlip("inUse", TRUE)
  BY <1>2, <1>4 DEF ReturnLease
<1>7. borLease' \in BorLeases /\ borLease' # NoLease /\ borLease'.ids = l.ids
      /\ borLease'.state = "return_pending"
  <2>1. borLease' \in BorLeases /\ borLease'.ids = l.ids /\ borLease'.state = "return_pending"
    BY <1>3 DEF BorLeases
  <2>2. QED
    BY <2>1, LeaseFields
<1>8. LendTypes'
  BY <1>1, <1>3, <1>5, <1>6, <1>7 DEF LendTypes, ownVars
<1>9. OwnKnows' /\ BorKnows'
  BY <1>1, <1>2, <1>3, <1>7, LeaseFields DEF OwnKnows, StillSo, BorKnows, Held, ownVars
<1>10. RetKnows'
  BY <1>1, <1>2, <1>3, <1>5, <1>6, <1>7, LeaseFields DEF RetKnows, BackKnown, Back, ownVars
<1>11. leaseSlips \subseteq leaseSlips'
  BY <1>6 DEF LeaseSlip
<1>12. NoAnswerLost' => AcksArrive' /\ AcksArrive
  BY <1>2, <1>3, <1>7, <1>11, SlipsStay, LeaseFields DEF AcksArrive, LeaseInv, Back, ownVars
<1>13. ASSUME AllKept'
       PROVE  CredsKept'
  <2>1. CredsKept /\ AcksArrive
    BY <1>11, <1>12, <1>13, SlipsStay DEF LeaseInv
  <2>2. ret' = r => borPoll.at = "idle"
    BY <1>3, <1>5, <1>6, <1>13 DEF LeaseSlip, AllKept
  <2>3. Lent' = Lent /\ Back' = Back /\ Held' = Held
    BY <1>3 DEF Lent, Back, Held
  <2>4. ret' = r => Lent
    <3>1. transfer.state \in TransferStates
      BY <1>3, LeaseIs, TransferFields
    <3>2. QED
      BY <1>1, <1>2, <1>3, <2>1, <2>2, <3>1, LeaseFields
         DEF AcksArrive, Lent, TransferStates, RetKnows, BackKnown
  <2>5. \A x \in LentAccounts : OwnRestored(x)' = OwnRestored(x)
    BY <1>3 DEF OwnRestored, ownVars
  <2>6. \A x \in LentAccounts : Borrowed(x) => Borrowed(x)'
    BY <1>3, <1>5, <1>6, <2>3 DEF Borrowed, ownVars
  <2>7. borLease # NoLease
    BY <1>2, LeaseFields
  <2>8. QED
    BY <1>3, <1>5, <1>6, <2>1, <2>2, <2>3, <2>4, <2>5, <2>6, <2>7 DEF CredsKept, ownVars
<1>15. OwnTerms'
  BY <1>3, TermsRest
<1>14. QED
  BY <1>8, <1>9, <1>10, <1>12, <1>13, <1>15 DEF LeaseInv

LEMMA NoReturnIs ==
  /\ DOMAIN NoReturn = {"at", "ids", "all", "cred"} /\ NoReturn.at = "off" /\ NoReturn.ids = {}
  /\ NoReturn.cred \in Creds
BY DEF NoReturn, Creds

LEMMA PostReturnKeeps ==
  ASSUME LeaseInv, PostReturn
  PROVE  LeaseInv'
<1>1. LendTypes /\ OwnKnows /\ BorKnows /\ RetKnows
  BY DEF LeaseInv
<1>2. /\ ret.at = "post" /\ processed /\ ret.ids # {} /\ transfer # NoTransfer
      /\ borLease # NoLease => borLease.state # "received"
      /\ UNCHANGED <<ownVars, ownCred, newest, borLease, processed, borPoll, borCred>>
  BY <1>1 DEF PostReturn, RetKnows, BorKnows, BorUnchanged, borVars
<1>3. PICK t \in Transfers : t = transfer
  BY <1>2, LeaseIs
<1>4. PICK ids, cred, all :
        /\ ids = ret.ids /\ cred = ret.cred /\ all = ret.all
        /\ ids \in SUBSET LentAccounts /\ cred \in Creds
  BY <1>1 DEF LendTypes
<1>5. PICK e \in Packages : e = [ids |-> ids, cred |-> cred] /\ e.ids = ids /\ e.cred = cred
  <2>1. PICK e : e = [ids |-> ids, cred |-> cred]
    OBVIOUS
  <2>2. e \in Packages /\ e.ids = ids /\ e.cred = cred
    BY <1>4, <2>1 DEF Packages
  <2>3. QED
    BY <2>1, <2>2
<1>6. PICK w :
        /\ w \in Transfers
        /\ w = WithReturn(t, ids, cred, all) /\ w.cred = t.cred /\ w.confirmed = t.confirmed
        /\ w.back = Append(t.back, e)
        /\ w.state = IF all /\ t.state \in {"delivered", "pending"} THEN "returned" ELSE t.state
  <2>1. PICK w : w = WithReturn(t, ids, cred, all)
    OBVIOUS
  <2>2. /\ w \in Transfers /\ w.cred = t.cred /\ w.confirmed = t.confirmed
        /\ w.back = Append(t.back, [ids |-> ids, cred |-> cred])
        /\ w.state = IF all /\ t.state \in {"delivered", "pending"} THEN "returned" ELSE t.state
    BY <1>4, <2>1, WithReturnIs
  <2>3. w.back = Append(t.back, e)
    BY <1>5, <2>2
  <2>4. QED
    BY <2>1, <2>2, <2>3
<1>7. PICK fate \in LeaseFates :
        /\ transfer' = IF fate = "lost" THEN t ELSE w
        /\ ret' = IF fate = "answered" THEN [ret EXCEPT !.at = "remove"] ELSE NoReturn
  BY <1>3, <1>4, <1>6 DEF PostReturn
<1>8. t.back \in Seq(Packages) /\ HasLast(t.back)
  BY <1>1, <1>2, <1>3, TransferFields DEF RetKnows, BackKnown
<1>9. PICK b : b = Append(t.back, e)
  OBVIOUS
<1>10. /\ \A i \in DOMAIN t.back : i \in DOMAIN b /\ b[i] = t.back[i]
       /\ \A i \in DOMAIN b : i \in DOMAIN t.back \/ b[i] = e
       /\ \A x : x \in Returned(b) <=> x \in Returned(t.back) \/ x \in ids
       /\ HasLast(b)
  BY <1>5, <1>8, <1>9, OneMore
<1>11. /\ transfer' \in Transfers /\ transfer' # NoTransfer
       /\ transfer'.cred = transfer.cred /\ transfer'.confirmed = transfer.confirmed
       /\ transfer'.back = IF fate = "lost" THEN t.back ELSE b
       /\ \/ transfer'.state = transfer.state
          \/ fate # "lost" /\ transfer.state \in {"delivered", "pending"} /\ transfer'.state = "returned"
  BY <1>3, <1>6, <1>7, <1>9, NoneIs
<1>12. /\ \A x : x \in Back => x \in Back'
       /\ \A x : x \in Back' => x \in Back \/ x \in ids
       /\ fate # "lost" => ids \subseteq Back'
  BY <1>3, <1>10, <1>11 DEF Back
<1>13. /\ DOMAIN ret' = {"at", "ids", "all", "cred"} /\ ret'.at \in {"off", "remove"}
       /\ ret'.at = "remove" => fate = "answered" /\ ret'.ids = ids /\ ret'.cred = cred
       /\ ret'.ids \subseteq LentAccounts /\ ret'.cred \in Creds
  <2>1. CASE fate = "answered"
    <3>1. ret' = [ret EXCEPT !.at = "remove"] /\ DOMAIN ret = {"at", "ids", "all", "cred"}
      BY <1>1, <1>7, <2>1 DEF LendTypes
    <3>2. QED
      BY <1>4, <2>1, <3>1
  <2>2. CASE fate # "answered"
    BY <1>7, <2>2, NoReturnIs
  <2>3. QED
    BY <2>1, <2>2
<1>14. LendTypes'
  BY <1>1, <1>2, <1>11, <1>13 DEF LendTypes, ownVars
<1>22. ~GivenUp(transfer) \/ transfer'.state = transfer.state
  BY <1>11 DEF GivenUp
<1>23. GivenUp(transfer) => GivenUp(transfer')
  <2>1. ~(transfer.state = "returned" /\ Back = {})
    BY <1>1, <1>2 DEF RetKnows, BackKnown
  <2>2. QED
    BY <1>22, <2>1 DEF GivenUp, Back
<1>15. OwnKnows'
  <2>1. StillSo(ownPoll.ans) => StillSo(ownPoll.ans)'
    BY <1>2, <1>3, <1>10, <1>11, <1>23 DEF StillSo, ownVars
  <2>2. QED
    BY <1>1, <1>2, <1>11, <2>1 DEF OwnKnows, ownVars
<1>16. BorKnows'
  BY <1>1, <1>2, <1>11 DEF BorKnows, Held
<1>17. RetKnows'
  <2>1. HasLast(transfer.back)'
    BY <1>8, <1>10, <1>11
  <2>2. /\ transfer'.state = "returned" => Back' # {}
        /\ transfer'.state = "pending" => borLease # NoLease
    BY <1>1, <1>2, <1>4, <1>11, <1>12 DEF RetKnows, BackKnown
  <2>3. QED
    BY <1>1, <1>2, <1>4, <1>11, <1>12, <1>13, <2>1, <2>2 DEF RetKnows, BackKnown, ownVars
<1>18. leaseSlips \subseteq leaseSlips'
  BY DEF PostReturn
<1>19. NoAnswerLost' => AcksArrive'
  BY <1>2, <1>11, <1>12, <1>18, <1>23, SlipsStay DEF AcksArrive, LeaseInv, ownVars
<1>20. ASSUME AllKept'
       PROVE  CredsKept'
  <2>1. CredsKept
    BY <1>18, <1>20, SlipsStay DEF LeaseInv
  <2>2. Lent /\ Lent' /\ borPoll.at = "idle"
    BY <1>2, <1>4, <1>11, <1>12, <2>1 DEF Lent, CredsKept
  <2>3. \A x \in LentAccounts : OwnRestored(x)' = OwnRestored(x)
    BY <1>2, <1>11 DEF OwnRestored, ownVars
  <2>4. ASSUME NEW x \in LentAccounts, Borrowed(x)
        PROVE  Borrowed(x)'
    <3>1. x \in ids => cred[x] = newest[x]
      BY <1>2, <1>4, <2>4 DEF Borrowed
    <3>2. ASSUME NEW i \in DOMAIN transfer'.back, x \in transfer'.back[i].ids
          PROVE  transfer'.back[i].cred[x] = newest[x]
      BY <1>3, <1>5, <1>10, <1>11, <2>4, <3>1, <3>2 DEF Borrowed
    <3>3. QED
      BY <1>2, <1>12, <1>13, <2>4, <3>1, <3>2 DEF Borrowed, Held, ownVars
  <2>5. transfer'.state # "pending"
    BY <2>2 DEF Lent
  <2>6. QED
    BY <1>2, <1>11, <2>1, <2>2, <2>3, <2>4, <2>5 DEF CredsKept, ownVars
<1>24. OwnTerms'
  BY <1>2, <1>12, <1>23, TermsStay
<1>21. QED
  BY <1>14, <1>15, <1>16, <1>17, <1>19, <1>20, <1>24 DEF LeaseInv

LEMMA RemoveReturnedKeeps ==
  ASSUME LeaseInv, RemoveReturned
  PROVE  LeaseInv'
<1>1. LendTypes /\ OwnKnows /\ BorKnows /\ RetKnows
  BY DEF LeaseInv
<1>2. /\ ret.at = "remove" /\ processed /\ transfer # NoTransfer /\ ret.ids \subseteq Back
      /\ borCred' = Without(ret.ids) /\ ret' = NoReturn
      /\ UNCHANGED <<ownVars, ownCred, newest, borLease, processed, borPoll, transfer, leaseSlips>>
  BY <1>1 DEF RemoveReturned, RetKnows, BorKnows, BorUnchanged, borVars
<1>3. /\ borCred' \in Creds
      /\ \A x \in LentAccounts : borCred'[x] = IF x \in ret.ids THEN 0 ELSE borCred[x]
  BY <1>1, <1>2, WithoutIs
<1>4. Held' = Held \ ret.ids
  BY <1>3 DEF Held
<1>5. LendTypes' /\ OwnKnows' /\ BorKnows' /\ RetKnows'
  BY <1>1, <1>2, <1>3, <1>4, NoReturnIs
     DEF LendTypes, OwnKnows, StillSo, BorKnows, RetKnows, BackKnown, Back, ownVars
<1>6. NoAnswerLost' => AcksArrive'
  BY <1>2 DEF AcksArrive, LeaseInv, NoAnswerLost, Back, ownVars
<1>7. ASSUME AllKept'
      PROVE  CredsKept'
  <2>1. CredsKept
    BY <1>2, <1>7 DEF LeaseInv, AllKept
  <2>2. Lent' = Lent /\ Back' = Back /\ Lent
    BY <1>2, <2>1 DEF Lent, Back, CredsKept
  <2>3. \A x \in LentAccounts : OwnRestored(x)' = OwnRestored(x)
    BY <1>2 DEF OwnRestored, ownVars
  <2>4. \A x \in LentAccounts : Borrowed(x) => Borrowed(x)'
    BY <1>2, <1>3, <1>4, <2>2, NoReturnIs DEF Borrowed, ownVars
  <2>5. transfer.state # "pending"
    BY <2>2 DEF Lent
  <2>6. QED
    BY <1>2, <2>1, <2>2, <2>3, <2>4, <2>5, NoReturnIs DEF CredsKept, ownVars
<1>9. OwnTerms'
  BY <1>2, TermsRest
<1>8. QED
  BY <1>5, <1>6, <1>7, <1>9 DEF LeaseInv

(* A restart forgets an acknowledgement or a return under way.  Accounts removed  *)
(* past the lease's time are with the relay, unless this is what went wrong.     *)
LEMMA BorRestartsKeeps ==
  ASSUME LeaseInv, BorRestarts
  PROVE  LeaseInv'
<1>1. LendTypes /\ OwnKnows /\ BorKnows /\ RetKnows
  BY DEF LeaseInv
<1>2. PICK recovered : recovered = (leaseExpired /\ Held # {})
  OBVIOUS
<1>3. /\ UNCHANGED <<ownVars, ownCred, newest, transfer>>
      /\ borPoll' = Idle /\ ret' = NoReturn
      /\ \/ processed' = processed
         \/ /\ processed' = FALSE /\ borLease = NoLease /\ transfer # NoTransfer
            /\ transfer.state = "pending"
      /\ IF recovered
           THEN borCred' = Without(Held)
                /\ borLease' = [borLease EXCEPT !.ids = @ \ Held, !.state = "expired"]
           ELSE UNCHANGED <<borCred, borLease>>
      /\ leaseSlips' = leaseSlips
           \cup (IF borPoll.at \in {"ack", "refuse"} THEN {"ackLost"} ELSE {})
           \cup (IF ret.at = "post" THEN {"notSent"} ELSE {})
           \cup (IF recovered /\ ~(Held \subseteq Back) THEN {"removedExpired"} ELSE {})
  BY <1>2 DEF BorRestarts, BorUnchanged, Back
<1>4. recovered => borLease # NoLease /\ processed /\ transfer # NoTransfer
  BY <1>1, <1>2 DEF BorKnows
<1>5. /\ borLease' \in BorLeases \cup {NoLease} /\ (borLease' = NoLease) = (borLease = NoLease)
      /\ IF recovered THEN borLease'.state = "expired" ELSE UNCHANGED borLease
  <2>1. CASE recovered
    <3>1. PICK l \in BorLeases : l = borLease
      BY <1>4, <2>1, LeaseIs
    <3>2. PICK left \in SUBSET LentAccounts : left = l.ids \ Held
      BY LeaseFields
    <3>3. PICK q : q = [l EXCEPT !.ids = left, !.state = "expired"]
      OBVIOUS
    <3>4. q \in BorLeases /\ q.state = "expired"
      BY <3>3 DEF BorLeases
    <3>5. borLease' = q
      BY <1>3, <2>1, <3>1, <3>2, <3>3
    <3>6. QED
      BY <2>1, <3>1, <3>4, <3>5, LeaseFields
  <2>2. CASE ~recovered
    BY <1>1, <1>3, <2>2 DEF LendTypes
  <2>3. QED
    BY <2>1, <2>2
<1>6. /\ borCred' \in Creds
      /\ IF recovered THEN Held' = {} ELSE UNCHANGED borCred /\ Held' = Held
  <2>1. CASE recovered
    <3>1. /\ borCred' \in Creds
          /\ \A x \in LentAccounts : borCred'[x] = IF x \in Held THEN 0 ELSE borCred[x]
      BY <1>1, <1>3, <2>1, WithoutIs
    <3>2. QED
      BY <2>1, <3>1 DEF Held
  <2>2. CASE ~recovered
    BY <1>1, <1>3, <2>2 DEF LendTypes, Held
  <2>3. QED
    BY <2>1, <2>2
<1>7. processed' \in BOOLEAN
  BY <1>1, <1>3 DEF LendTypes
<1>8. LendTypes'
  BY <1>1, <1>3, <1>5, <1>6, <1>7, PollEnds, NoReturnIs DEF LendTypes, ownVars
<1>9. OwnKnows'
  BY <1>1, <1>3 DEF OwnKnows, StillSo, ownVars
<1>10. OwnTerms'
  BY <1>3, TermsRest
<1>11. BorKnows'
  BY <1>1, <1>3, <1>4, <1>5, <1>6, PollEnds DEF BorKnows
<1>12. RetKnows'
  BY <1>1, <1>3, <1>4, <1>5, NoReturnIs DEF RetKnows, BackKnown, Back, ownVars
<1>13. leaseSlips \subseteq leaseSlips'
  BY <1>3
<1>14. ASSUME NoAnswerLost'
       PROVE  AcksArrive' /\ AcksArrive /\ borPoll.at \in {"idle", "import"}
  <2>1. AcksArrive
    BY <1>13, <1>14, SlipsStay DEF LeaseInv
  <2>2. borPoll.at \in {"idle", "import"}
    <3>1. borPoll.at \in BorPlaces
      BY LeaseIs, PollIs
    <3>2. QED
      BY <1>3, <1>14, <2>1, <3>1 DEF NoAnswerLost, AcksArrive, BorPlaces
  <2>3. processed' => transfer.state # "pending"
    BY <1>1, <1>3, <2>1, <2>2 DEF AcksArrive, BorKnows
  <2>4. borPoll.at # "ack"
    BY <2>2
  <2>5. QED
    BY <1>3, <1>5, <2>1, <2>2, <2>3, <2>4, PollEnds DEF AcksArrive, Back, ownVars
<1>15. ASSUME AllKept'
       PROVE  CredsKept'
  <2>1. CredsKept /\ AcksArrive /\ borPoll.at \in {"idle", "import"} /\ (recovered => Held \subseteq Back)
    BY <1>3, <1>13, <1>14, <1>15, SlipsStay DEF LeaseInv, AllKept
  <2>2. Lent' = Lent /\ Back' = Back
    BY <1>3 DEF Lent, Back
  <2>3. \A x \in LentAccounts : OwnRestored(x)' = OwnRestored(x)
    BY <1>3 DEF OwnRestored, ownVars
  <2>4. \A x \in LentAccounts : Borrowed(x) => Borrowed(x)'
    BY <1>3, <1>6, <2>1, <2>2, NoReturnIs DEF Borrowed, ownVars
  <2>5. transfer # NoTransfer /\ transfer.state = "pending" => ~recovered
    BY <1>1, <1>4, <2>1 DEF AcksArrive, BorKnows
  <2>6. QED
    BY <1>3, <1>5, <1>6, <2>1, <2>2, <2>3, <2>4, <2>5, PollEnds, NoReturnIs DEF CredsKept, ownVars
<1>16. QED
  BY <1>8, <1>9, <1>10, <1>11, <1>12, <1>14, <1>15 DEF LeaseInv

-----------------------------------------------------------------------------
(* Renewals.                                                                *)

(* While the owner is not packing a share, what it may renew is not lent.      *)
LEMMA OwnRenewsKeeps ==
  ASSUME LeaseInv, NEW a \in LentAccounts, OwnRenews(a)
  PROVE  LeaseInv'
<1>1. LendTypes /\ OwnKnows /\ BorKnows /\ RetKnows
  BY DEF LeaseInv
<1>2. /\ a \notin ownMarked /\ ownCred[a] = newest[a]
      /\ newest' = [newest EXCEPT ![a] = @ + 1] /\ ownCred' = [ownCred EXCEPT ![a] = @ + 1]
      /\ LeaseSlip("renewedInShare", ownPoll.at \in {"post", "mark"})
      /\ UNCHANGED <<ownVars, borLease, processed, borPoll, borCred, ret, transfer>>
  BY DEF OwnRenews, borVars
<1>3. PICK n \in Creds, o \in Creds : n = newest /\ o = ownCred
  BY <1>1 DEF LendTypes
<1>4. /\ newest' \in Creds /\ ownCred' \in Creds /\ newest'[a] = newest[a] + 1
      /\ ownCred'[a] = newest'[a]
      /\ \A x \in LentAccounts : x # a => newest'[x] = newest[x] /\ ownCred'[x] = ownCred[x]
  <2>1. newest' = [n EXCEPT ![a] = @ + 1] /\ ownCred' = [o EXCEPT ![a] = @ + 1] /\ o[a] = n[a]
    BY <1>2, <1>3
  <2>2. /\ newest' \in Creds /\ newest'[a] = n[a] + 1 /\ newest'[a] # 0
        /\ \A x \in LentAccounts : x # a => newest'[x] = n[x]
    BY <2>1 DEF Creds
  <2>3. /\ ownCred' \in Creds /\ ownCred'[a] = o[a] + 1
        /\ \A x \in LentAccounts : x # a => ownCred'[x] = o[x]
    BY <2>1 DEF Creds
  <2>4. QED
    BY <1>3, <2>1, <2>2, <2>3
<1>5. LendTypes' /\ OwnKnows' /\ BorKnows' /\ RetKnows'
  BY <1>1, <1>2, <1>4
     DEF LendTypes, OwnKnows, StillSo, BorKnows, Held, RetKnows, BackKnown, Back, ownVars
<1>6. /\ leaseSlips \subseteq leaseSlips'
      /\ ownPoll.at \in {"post", "mark"} => "renewedInShare" \in leaseSlips'
  BY <1>2 DEF LeaseSlip
<1>7. NoAnswerLost' => AcksArrive' /\ AcksArrive
  BY <1>2, <1>6, SlipsStay DEF AcksArrive, LeaseInv, Back, ownVars
<1>8. ASSUME AllKept'
      PROVE  CredsKept'
  <2>1. CredsKept /\ AcksArrive
    BY <1>6, <1>7, <1>8, SlipsStay DEF LeaseInv
  <2>2. ownPoll.at \notin {"post", "mark"}
    BY <1>6, <1>8 DEF AllKept
  <2>3. transfer # NoTransfer => ownLease # NoLease /\ (a \in Back \/ GivenUp(transfer))
    BY <1>2, <2>1, <2>2 DEF AcksArrive
  <2>4. transfer # NoTransfer => transfer.state # "pending"
    BY <2>1, <2>3 DEF CredsKept, Lent, GivenUp
  <2>5. Lent' = Lent /\ Back' = Back /\ Held' = Held
    BY <1>2 DEF Lent, Back, Held
  <2>6. ~Lent => ownCred' = newest'
    BY <1>2, <2>1 DEF CredsKept
  <2>7. ASSUME Lent, NEW x \in LentAccounts
        PROVE  IF OwnRestored(x)' THEN ownCred'[x] = newest'[x] ELSE Borrowed(x)'
    <3>1. OwnRestored(x)' = OwnRestored(x)
      BY <1>2 DEF OwnRestored, ownVars
    <3>2. CASE x = a
      <4>1. ~Borrowed(a)
        BY <1>2, <2>3, <2>7 DEF Borrowed, Lent
      <4>2. QED
        BY <1>4, <2>1, <2>7, <3>1, <3>2, <4>1 DEF CredsKept
    <3>3. CASE x # a
      <4>1. newest'[x] = newest[x] /\ ownCred'[x] = ownCred[x]
        BY <1>4, <3>3
      <4>2. Borrowed(x) => Borrowed(x)'
        BY <1>2, <2>5, <4>1 DEF Borrowed, ownVars
      <4>3. QED
        BY <2>1, <2>7, <3>1, <4>1, <4>2 DEF CredsKept
    <3>4. QED
      BY <3>2, <3>3
  <2>8. QED
    BY <1>2, <2>1, <2>2, <2>4, <2>5, <2>6, <2>7 DEF CredsKept, ownVars
<1>10. OwnTerms'
  BY <1>2, TermsRest
<1>9. QED
  BY <1>5, <1>7, <1>8, <1>10 DEF LeaseInv

(* What the borrower may renew is lent, and has not been packed.              *)
LEMMA BorRenewsKeeps ==
  ASSUME LeaseInv, NEW a \in LentAccounts, BorRenews(a)
  PROVE  LeaseInv'
<1>1. LendTypes /\ OwnKnows /\ BorKnows /\ RetKnows
  BY DEF LeaseInv
<1>2. /\ borCred[a] # 0 /\ borCred[a] = newest[a]
      /\ newest' = [newest EXCEPT ![a] = @ + 1] /\ borCred' = [borCred EXCEPT ![a] = @ + 1]
      /\ LeaseSlip("renewedInReturn", GoesBack(a))
      /\ UNCHANGED <<ownVars, borLease, processed, borPoll, ownCred, ret, transfer>>
  BY DEF BorRenews, borVars
<1>3. PICK n \in Creds, o \in Creds : n = newest /\ o = borCred
  BY <1>1 DEF LendTypes
<1>4. /\ newest' \in Creds /\ borCred' \in Creds /\ borCred'[a] # 0 /\ borCred'[a] = newest'[a]
      /\ \A x \in LentAccounts : x # a => newest'[x] = newest[x] /\ borCred'[x] = borCred[x]
  <2>1. newest' = [n EXCEPT ![a] = @ + 1] /\ borCred' = [o EXCEPT ![a] = @ + 1] /\ o[a] = n[a]
    BY <1>2, <1>3
  <2>2. /\ newest' \in Creds /\ newest'[a] = n[a] + 1 /\ newest'[a] # 0
        /\ \A x \in LentAccounts : x # a => newest'[x] = n[x]
    BY <2>1 DEF Creds
  <2>3. /\ borCred' \in Creds /\ borCred'[a] = o[a] + 1
        /\ \A x \in LentAccounts : x # a => borCred'[x] = o[x]
    BY <2>1 DEF Creds
  <2>4. QED
    BY <1>3, <2>1, <2>2, <2>3
<1>5. Held' = Held /\ a \in Held
  BY <1>2, <1>4 DEF Held
<1>6. LendTypes' /\ OwnKnows' /\ BorKnows' /\ RetKnows'
  BY <1>1, <1>2, <1>4, <1>5
     DEF LendTypes, OwnKnows, StillSo, BorKnows, RetKnows, BackKnown, Back, ownVars
<1>7. /\ leaseSlips \subseteq leaseSlips'
      /\ GoesBack(a) => "renewedInReturn" \in leaseSlips'
  BY <1>2 DEF LeaseSlip
<1>8. NoAnswerLost' => AcksArrive' /\ AcksArrive
  BY <1>2, <1>7, SlipsStay DEF AcksArrive, LeaseInv, Back, ownVars
<1>9. ASSUME AllKept'
      PROVE  CredsKept'
  <2>1. CredsKept /\ AcksArrive
    BY <1>7, <1>8, <1>9, SlipsStay DEF LeaseInv
  <2>2. borLease # NoLease /\ processed /\ transfer # NoTransfer
    BY <1>1, <1>5 DEF BorKnows
  <2>3. /\ borPoll.at = "idle" /\ a \notin Back
        /\ ret.at # "off" => a \notin ret.ids
    BY <1>7, <1>9, <2>2 DEF AllKept, GoesBack, Back
  <2>4. Lent
    <3>1. transfer.state \in TransferStates
      BY <2>2, LeaseIs, TransferFields
    <3>2. QED
      BY <1>1, <2>1, <2>2, <2>3, <3>1 DEF AcksArrive, Lent, TransferStates, RetKnows, BackKnown
  <2>5. Lent' = Lent /\ Back' = Back
    BY <1>2 DEF Lent, Back
  <2>6. ASSUME NEW x \in LentAccounts
        PROVE  IF OwnRestored(x)' THEN ownCred'[x] = newest'[x] ELSE Borrowed(x)'
    <3>1. OwnRestored(x)' = OwnRestored(x)
      BY <1>2 DEF OwnRestored, ownVars
    <3>2. CASE x = a
      <4>1. ~OwnRestored(a)
        BY <1>1, <2>2, <2>3 DEF OwnRestored, RetKnows, BackKnown
      <4>2. Borrowed(a)
        BY <2>1, <2>4, <4>1 DEF CredsKept
      <4>3. \A i \in DOMAIN transfer.back : a \notin transfer.back[i].ids
        BY <2>3, ReturnedIs DEF Back
      <4>4. Borrowed(a)'
        BY <1>2, <1>4, <1>5, <2>3, <4>2, <4>3 DEF Borrowed, ownVars
      <4>5. QED
        BY <3>1, <3>2, <4>1, <4>4
    <3>3. CASE x # a
      <4>1. newest'[x] = newest[x] /\ borCred'[x] = borCred[x] /\ ownCred'[x] = ownCred[x]
        BY <1>2, <1>4, <3>3
      <4>2. Borrowed(x) => Borrowed(x)'
        BY <1>2, <1>5, <2>5, <4>1 DEF Borrowed, ownVars
      <4>3. QED
        BY <2>1, <2>4, <3>1, <4>1, <4>2 DEF CredsKept
    <3>4. QED
      BY <3>2, <3>3
  <2>7. transfer.state # "pending"
    BY <2>4 DEF Lent
  <2>8. QED
    BY <1>2, <2>1, <2>2, <2>4, <2>5, <2>6, <2>7 DEF CredsKept, ownVars
<1>11. OwnTerms'
  BY <1>2, TermsRest
<1>10. QED
  BY <1>6, <1>8, <1>9, <1>11 DEF LeaseInv

-----------------------------------------------------------------------------
(* The whole.                                                               *)

LEMMA LendStutters ==
  ASSUME LeaseInv, UNCHANGED <<ownVars, borVars, credVars, ret, transfer, leaseSlips>>
  PROVE  LeaseInv'
<1>1. /\ UNCHANGED <<newest, ownCred, borCred, ret, transfer, leaseSlips>>
      /\ UNCHANGED <<ownLease, ownMarked, ownPoll, ownSaved, borLease, processed, borPoll>>
  BY DEF ownVars, borVars, credVars
<1>2. LendTypes' /\ OwnKnows' /\ BorKnows' /\ RetKnows'
  BY <1>1 DEF LeaseInv, LendTypes, OwnKnows, StillSo, BorKnows, Held, RetKnows, BackKnown, Back
<1>3. NoAnswerLost' => AcksArrive'
  BY <1>1 DEF LeaseInv, NoAnswerLost, AcksArrive, Back
<1>4. AllKept' => CredsKept'
  BY <1>1 DEF LeaseInv, AllKept, CredsKept, Lent, OwnRestored, Borrowed, Held, Back
<1>6. OwnTerms'
  BY TermsRest
<1>5. QED
  BY <1>2, <1>3, <1>4, <1>6 DEF LeaseInv

LEMMA LendInitHolds == LendInit => LeaseInv
<1> SUFFICES ASSUME LendInit
             PROVE  LeaseInv
  OBVIOUS
<1>1. newest \in Creds /\ newest = First /\ ownCred = newest /\ borCred \in Creds /\ Held = {}
  BY DEF LendInit, Creds, First, Held
<1>2. /\ ownPoll = [Idle EXCEPT !.at = "post"] /\ ownPoll \in LeasePolls(OwnPlaces)
      /\ ownPoll.at = "post" /\ borPoll = Idle
  BY PollMoved, PollEnds DEF LendInit, OwnPlaces
<1>3. /\ ownLease = NoLease /\ ownSaved = NoLease /\ ownMarked = {} /\ transfer = NoTransfer
      /\ borLease = NoLease /\ processed = FALSE /\ ret = NoReturn
  BY DEF LendInit
<1>4. LendTypes
  BY <1>1, <1>2, <1>3, PollEnds, NoReturnIs DEF LendTypes
<1>5. OwnKnows /\ OwnTerms /\ BorKnows /\ RetKnows
  BY <1>1, <1>2, <1>3, PollEnds, NoReturnIs DEF OwnKnows, OwnTerms, BorKnows, RetKnows
<1>6. AcksArrive
  BY <1>2, <1>3, PollEnds DEF AcksArrive
<1>7. CredsKept
  BY <1>1, <1>2, <1>3, PollEnds, NoReturnIs DEF CredsKept, Lent
<1>8. QED
  BY <1>4, <1>5, <1>6, <1>7 DEF LeaseInv

LEMMA LendNextKeeps ==
  ASSUME LeaseInv, [LendNext]_lendVars
  PROVE  LeaseInv'
<1>1. CASE OwnStep
  BY <1>1, PostTransferKeeps, MarkLentKeeps, OwnPollsKeeps, ReadSentTransferKeeps,
     ConfirmReturnKeeps, CancelShareKeeps DEF OwnStep
<1>2. CASE BorStep
  BY <1>2, BorPollsKeeps, ImportSharedKeeps, DeclineLateKeeps, AckTransferKeeps DEF BorStep
<1>3. CASE ReadConfirmations
  BY <1>3, ReadConfirmationsKeeps
<1>4. CASE ReturnOnTime \/ ReturnByUser
  BY <1>4, ReturnLeaseKeeps DEF ReturnOnTime, ReturnByUser
<1>5. CASE PostReturn
  BY <1>5, PostReturnKeeps
<1>6. CASE RemoveReturned
  BY <1>6, RemoveReturnedKeeps
<1>7. CASE LeaseExpires \/ UNCHANGED lendVars
  BY <1>7, LendStutters DEF LeaseExpires, lendVars
<1>8. CASE RelayExpires
  BY <1>8, RelayExpiresKeeps
<1>9. ASSUME NEW a \in LentAccounts, OwnRenews(a) \/ BorRenews(a)
      PROVE  LeaseInv'
  BY <1>9, OwnRenewsKeeps, BorRenewsKeeps
<1>11. CASE OwnRestarts \/ BorRestarts
  BY <1>11, OwnRestartsKeeps, BorRestartsKeeps
<1>10. QED
  BY <1>1, <1>2, <1>3, <1>4, <1>5, <1>6, <1>7, <1>8, <1>9, <1>11 DEF LendNext

(* What each side knows of the loan, and who has the last credentials, in every   *)
(* state of the loan, for any number of accounts, renewals, returns and faults.  *)
THEOREM LoanIsKnown == LendSpec => []LeaseInv
<1>1. LendInit => LeaseInv
  BY LendInitHolds
<1>2. LeaseInv /\ [LendNext]_lendVars => LeaseInv'
  BY LendNextKeeps
<1>3. QED
  BY <1>1, <1>2, PTL DEF LendSpec

(* The owner uses an account again only when the borrower has given it back, or  *)
(* is about to find its share cancelled (pollSentTransfers, acknowledgeTransfer), *)
(* unless an answer to the share or to an acknowledgement was lost, or forgotten  *)
(* in a restart, or the owner has taken the account back in a restart past the    *)
(* lease's time (recoverExpiredAccountSharing).                                *)
THEOREM OneSideUsesAlways == LendSpec => []OneSideUses
<1>1. ASSUME LeaseInv
      PROVE  OneSideUses
  <2>1. SUFFICES ASSUME NoAnswerLost, ownLease # NoLease, NEW x \in Held \ ownMarked
                 PROVE  borLease.state = "return_pending" \/ borPoll.at \in {"ack", "refuse"}
    BY DEF OneSideUses, NoAnswerLost
  <2>2. OwnKnows /\ BorKnows /\ RetKnows /\ AcksArrive
    BY <1>1, <2>1 DEF LeaseInv
  <2>3. x \in LentAccounts /\ transfer # NoTransfer /\ borLease # NoLease /\ x \in borLease.ids
    BY <2>1, <2>2 DEF OwnKnows, BorKnows, Held
  <2>4. CASE x \in Back
    <3>1. borLease.state # "received"
      BY <2>2, <2>3, <2>4 DEF RetKnows, BackKnown
    <3>2. borLease.state # "returned"
      BY <2>2, <2>3 DEF BorKnows
    <3>3. borLease.state # "expired"
      BY <2>1, <2>2, <2>3 DEF BorKnows
    <3>4. borLease.state \in {"received", "return_pending", "returned", "expired"}
      BY <1>1, <2>3, LeaseIs, LeaseFields
    <3>5. QED
      BY <3>1, <3>2, <3>3, <3>4
  <2>5. CASE x \notin Back
    BY <2>1, <2>2, <2>3, <2>5 DEF AcksArrive, GivenUp, RetKnows, BackKnown, Back
  <2>6. QED
    BY <2>4, <2>5
<1>2. QED
  BY <1>1, LoanIsKnown, PTL

(* No renewal of a lent account is ever lost, restarts of both sides included,    *)
(* unless one of the slips CredentialKept names has happened: the owner has the   *)
(* last credential, the borrower has it, or it waits at the relay for the owner   *)
(* to store it (finalizeOutgoingAccounts, applyReturnedCredentials,             *)
(* returnTransfer).  The slips are a renewal while the account is packed on       *)
(* either side, a share or acknowledgement whose answer is lost or forgotten, a   *)
(* return before the acknowledgement, a return the owner stores and forgets in a  *)
(* restart, and a restart past the lease's time that takes the account back or    *)
(* removes it unreturned.                                                    *)
THEOREM CredentialsKept == LendSpec => []CredentialKept
<1>1. ASSUME LeaseInv
      PROVE  CredentialKept
  <2>1. SUFFICES ASSUME AllKept, NEW x \in LentAccounts
                 PROVE  ownCred[x] = newest[x] \/ borCred[x] = newest[x] \/ Waiting(x)
    BY DEF CredentialKept, AllKept
  <2>2. RetKnows /\ AcksArrive /\ CredsKept
    BY <1>1, <2>1, KeptIsMore DEF LeaseInv
  <2>3. CASE ~Lent \/ OwnRestored(x)
    BY <2>2, <2>3 DEF CredsKept
  <2>4. CASE Lent /\ ~OwnRestored(x)
    <3>1. Borrowed(x) /\ transfer # NoTransfer
      BY <2>2, <2>4 DEF CredsKept, Lent
    <3>2. CASE x \in Held
      BY <3>1, <3>2 DEF Borrowed
    <3>3. CASE x \in Back
      <4>1. HasLast(transfer.back)
        BY <2>2, <3>1 DEF RetKnows, BackKnown
      <4>2. LastBack(transfer.back, x) = newest[x]
        <5>1. PICK s \in Seq(Packages) : s = transfer.back
          BY <1>1, <3>1, LeaseIs, TransferFields
        <5>2. PICK i \in DOMAIN s : x \in s[i].ids /\ LastBack(s, x) = s[i].cred[x]
          BY <3>3, <4>1, <5>1, LastBackIs DEF Back
        <5>3. QED
          BY <3>1, <5>1, <5>2 DEF Borrowed
      <4>3. IF ownLease = NoLease THEN ownPoll.at = "mark"
            ELSE x \notin transfer.confirmed \cup ownLease.toConfirm
        BY <2>2, <2>4, <3>1 DEF AcksArrive, OwnRestored
      <4>4. QED
        BY <3>1, <3>3, <4>2, <4>3 DEF Waiting, Back
    <3>4. QED
      BY <3>1, <3>2, <3>3 DEF Borrowed
  <2>5. QED
    BY <2>3, <2>4
<1>2. QED
  BY <1>1, LoanIsKnown, PTL
=============================================================================
