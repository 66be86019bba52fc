--------------------------- MODULE CredentialSync ---------------------------
(***************************************************************************)
(* The credential sync of one account between two Managers                  *)
(* (src/sharing/accountSharingService.ts) by way of the relay               *)
(* (integrations/manager-gateway/src/sharing-relay.mjs).  The primary renews *)
(* the credential and publishes each one as a new version; the follower      *)
(* stores it and acknowledges the version; either may stop the sync, which    *)
(* both then forget.  One Manager of each side polls.  Every credential is a *)
(* number, the event of a version is its number.                             *)
(***************************************************************************)
EXTENDS Naturals, Sequences

CONSTANTS
  NoSync, NoRecord, NoUpdate,
  MaxRenewals,  \* bound: credentials after the first one
  MaxFaults     \* bound: requests lost, answers lost, restarts

(* The three stand for what is not there: they are no records of those kinds.  *)
ASSUME CredentialSyncAssumption ==
  /\ MaxRenewals \in Nat /\ MaxFaults \in Nat
  /\ NoSync \notin [version: Nat, cred: Nat, state: {"active", "stopped"}, ack: Nat,
                    acks: SUBSET {"primary", "follower"}]
  /\ NoUpdate \notin [version: Nat, cred: Nat, wait: BOOLEAN]
  /\ NoRecord \notin [version: Nat, ack: Nat]
  /\ NoRecord \notin [state: {"pending", "active"}, version: Nat, cred: Nat,
                      update: [version: Nat, cred: Nat, wait: BOOLEAN] \cup {NoUpdate}]

VARIABLES
  credential,   \* the primary's credential
  relaySync,    \* the relay's record
  published,    \* the credential of each version the relay has had
  priRecord,    \* the primary's record: state, version, cred, update still to publish
  priPoll,      \* where the primary's poll stands, with what it remembers
  folRecord,    \* the follower's record: version, ack
  folFile,      \* the same in its state file
  folAccount,   \* the credential of the follower's account, 0 without one
  folPoll,
  stopping,     \* each side's stop by its user: "off", "answered", "wipe"
  stopAsked,    \* a stop has reached the relay
  faults,
  recreated     \* the relay has made the sync anew after it was stopped and pruned

priVars == <<credential, priRecord, priPoll>>
folVars == <<folRecord, folFile, folAccount, folPoll>>
relayVars == <<relaySync, published>>
stopVars == <<stopping, stopAsked>>
syncVars == <<priVars, folVars, relayVars, stopVars, faults, recreated>>

Sides == {"primary", "follower"}
Update(version, cred) == [version |-> version, cred |-> cred, wait |-> FALSE]
PollIdle == [at |-> "idle", ans |-> NoSync, export |-> 0]

(* startCredentialSyncWithPeer has kept its record, and has not published yet. *)
SyncInit ==
  /\ credential = 1 /\ relaySync = NoSync /\ published = <<>>
  /\ priRecord = [state |-> "pending", version |-> 0, cred |-> 0, update |-> Update(1, 1)]
  /\ priPoll = PollIdle /\ folPoll = PollIdle
  /\ folRecord = NoRecord /\ folFile = NoRecord /\ folAccount = 0
  /\ stopping = [s \in Sides |-> "off"] /\ stopAsked = FALSE
  /\ faults = 0 /\ recreated = FALSE

-----------------------------------------------------------------------------
(* The relay, and the requests to it: a request is carried out and answered,  *)
(* or carried out in vain, or does not arrive.                               *)

Fates == {"answered", "unanswered", "lost"}
Fate(fate) ==
  IF fate = "answered" THEN UNCHANGED faults ELSE faults < MaxFaults /\ faults' = faults + 1

Listed(side) == relaySync # NoSync /\ (relaySync.state = "active" \/ side \notin relaySync.acks)
Answer(side) == IF Listed(side) THEN relaySync ELSE NoSync

(* createCredentialSync is idempotent.                                        *)
Created(u) ==
  /\ relaySync = NoSync
  /\ relaySync' = [version |-> u.version, cred |-> u.cred, state |-> "active", ack |-> 0, acks |-> {}]
  /\ published' = <<u.cred>>

Putable(u) == relaySync # NoSync /\ relaySync.state = "active" /\ u.version > relaySync.version
Put(u) ==
  /\ relaySync' = [relaySync EXCEPT !.version = u.version, !.cred = u.cred]
  /\ published' = [v \in 1..u.version |-> IF v \in DOMAIN published THEN published[v] ELSE u.cred]

(* acknowledgeCredentialSync, with pruneStoppedCredentialSyncs.               *)
Acknowledged(side, version) ==
  LET acks == relaySync.acks \cup {side}
      ack == IF side = "follower" /\ version > relaySync.ack THEN version ELSE relaySync.ack
  IN relaySync' =
       IF relaySync = NoSync \/ (side = "follower" /\ version > relaySync.version)
            \/ (side = "primary" /\ relaySync.state = "active") THEN relaySync
       ELSE IF relaySync.state = "active" THEN [relaySync EXCEPT !.ack = ack]
       ELSE IF acks = Sides THEN NoSync
       ELSE [relaySync EXCEPT !.ack = ack, !.acks = acks]

(* stopCredentialSync of the relay.                                          *)
Stopped(side) ==
  IF relaySync.state = "stopped" THEN relaySync
  ELSE [relaySync EXCEPT !.state = "stopped", !.acks = {side}]

-----------------------------------------------------------------------------
(* The primary.                                                              *)

Renewal ==
  /\ credential <= MaxRenewals
  /\ credential' = credential + 1
  /\ UNCHANGED <<priRecord, priPoll, folVars, relayVars, stopVars, faults, recreated>>

PriAt(at) == priPoll.at = at
PriGoto(at) == priPoll' = [priPoll EXCEPT !.at = at]
Pending == priRecord # NoRecord /\ priRecord.state = "pending"
PriUnchanged == UNCHANGED <<credential, folVars, stopVars>>

(* pollCredentialSyncs; the first version is published before anything else.  *)
PriPolls ==
  /\ PriAt("idle")
  /\ priPoll' = [PollIdle EXCEPT !.at = IF Pending /\ ~priRecord.update.wait THEN "create" ELSE "sent",
                                 !.export = IF Pending THEN priRecord.update ELSE NoUpdate]
  /\ PriUnchanged /\ UNCHANGED <<priRecord, relayVars, faults, recreated>>

CreateSync ==
  /\ PriAt("create")
  /\ \E fate \in Fates :
       /\ Fate(fate)
       /\ IF fate # "lost" /\ relaySync = NoSync THEN Created(priPoll.export) ELSE UNCHANGED relayVars
       /\ priPoll' = [priPoll EXCEPT !.at = "created",
                        !.ans = IF fate = "answered" THEN relaySync' ELSE NoSync]
       /\ recreated' = (recreated \/ (fate # "lost" /\ relaySync = NoSync /\ stopAsked))
  /\ PriUnchanged /\ UNCHANGED priRecord

(* What becomes of an update whose request was answered, or was not.          *)
Published(version, u) ==
  priRecord' = IF priRecord = NoRecord THEN NoRecord
               ELSE [state |-> "active", version |-> version, cred |-> u.cred, update |-> NoUpdate]
NotPublished ==
  priRecord' = IF priRecord = NoRecord THEN NoRecord ELSE [priRecord EXCEPT !.update.wait = TRUE]

ReadCreated ==
  /\ PriAt("created")
  /\ IF priPoll.ans # NoSync THEN Published(priPoll.ans.version, priPoll.export) ELSE NotPublished
  /\ PriGoto("sent")
  /\ PriUnchanged /\ UNCHANGED <<relayVars, faults, recreated>>

(* The list of what one has sent; it is asked for again when lost.            *)
ListSent ==
  /\ PriAt("sent")
  /\ priPoll' = [priPoll EXCEPT !.at = "listed", !.ans = Answer("primary")]
  /\ PriUnchanged /\ UNCHANGED <<priRecord, relayVars, faults, recreated>>

UpToDate == priRecord.update = NoUpdate /\ priRecord.cred = credential

ReadSent ==
  /\ PriAt("listed")
  /\ IF priPoll.ans = NoSync \/ (priRecord = NoRecord /\ priPoll.ans.state = "active")
       THEN priPoll' = PollIdle /\ UNCHANGED priRecord
     ELSE IF priPoll.ans.state = "stopped"
       THEN priRecord' = NoRecord /\ PriGoto("ackStop")
     ELSE IF Pending \/ (UpToDate /\ priPoll.ans.version >= priRecord.version)
       THEN /\ priRecord' = IF Pending THEN priRecord ELSE [priRecord EXCEPT !.version = priPoll.ans.version]
            /\ priPoll' = PollIdle
     ELSE priPoll' = [priPoll EXCEPT !.at = "get", !.export = credential] /\ UNCHANGED priRecord
  /\ PriUnchanged /\ UNCHANGED <<relayVars, faults, recreated>>

GetRemote ==
  /\ PriAt("get")
  /\ priPoll' = IF relaySync = NoSync THEN PollIdle
                ELSE [priPoll EXCEPT !.at = "got", !.ans = relaySync]
  /\ PriUnchanged /\ UNCHANGED <<priRecord, relayVars, faults, recreated>>

Higher(m, n) == IF m > n THEN m ELSE n

(* The record after a look at the relay's: an update whose answer was lost is *)
(* recognised, and one that another credential has overtaken is replaced.     *)
Adopted(r, remote) ==
  IF r.update # NoUpdate /\ r.update.version = remote.version
    THEN [r EXCEPT !.version = remote.version, !.cred = r.update.cred, !.update = NoUpdate]
  ELSE IF remote.version > r.version
    THEN [r EXCEPT !.version = remote.version,
                   !.update = IF @ # NoUpdate /\ @.version <= remote.version THEN NoUpdate ELSE @]
  ELSE r
Queued(r, export) ==
  IF r.update # NoUpdate
    THEN IF r.update.cred = export THEN r
         ELSE [r EXCEPT !.update = Update(Higher(r.version, r.update.version) + 1, export)]
    ELSE IF r.cred = export THEN r ELSE [r EXCEPT !.update = Update(r.version + 1, export)]

ReadRemote ==
  /\ PriAt("got")
  /\ IF priPoll.ans.state = "stopped"
       THEN priRecord' = NoRecord /\ PriGoto("ackStop")
     ELSE IF priRecord = NoRecord THEN priPoll' = PollIdle /\ UNCHANGED priRecord
     ELSE LET r == Queued(Adopted(priRecord, priPoll.ans), priPoll.export) IN
          /\ priRecord' = r
          /\ priPoll' = IF r.update = NoUpdate \/ r.update.wait THEN PollIdle
                        ELSE [priPoll EXCEPT !.at = "put", !.export = r.update]
  /\ PriUnchanged /\ UNCHANGED <<relayVars, faults, recreated>>

PutSnapshot ==
  /\ PriAt("put")
  /\ \E fate \in Fates :
       /\ Fate(fate)
       /\ IF fate # "lost" /\ Putable(priPoll.export) THEN Put(priPoll.export) ELSE UNCHANGED relayVars
       /\ priPoll' = [priPoll EXCEPT !.at = "answered",
                        !.ans = IF fate = "answered" /\ Putable(priPoll.export) THEN relaySync' ELSE NoSync]
  /\ PriUnchanged /\ UNCHANGED <<priRecord, recreated>>

(* Faulty: a request that failed is taken for one that was carried out.        *)
FaultyReadPut ==
  /\ PriAt("answered")
  /\ Published(priPoll.export.version, priPoll.export)
  /\ priPoll' = PollIdle
  /\ PriUnchanged /\ UNCHANGED <<relayVars, faults, recreated>>

ReadPut ==
  /\ PriAt("answered")
  /\ IF priPoll.ans # NoSync THEN Published(priPoll.ans.version, priPoll.export) ELSE NotPublished
  /\ priPoll' = PollIdle
  /\ PriUnchanged /\ UNCHANGED <<relayVars, faults, recreated>>

PriAcksStop ==
  /\ PriAt("ackStop")
  /\ \E fate \in Fates :
       /\ Fate(fate)
       /\ IF fate = "lost" THEN UNCHANGED relaySync ELSE Acknowledged("primary", priPoll.ans.version)
  /\ priPoll' = PollIdle
  /\ PriUnchanged /\ UNCHANGED <<priRecord, published, recreated>>

(* The time of scheduleCredentialSyncRetry.                                   *)
BackoffOver ==
  /\ priRecord # NoRecord /\ priRecord.update # NoUpdate /\ priRecord.update.wait
  /\ priRecord' = [priRecord EXCEPT !.update.wait = FALSE]
  /\ PriUnchanged /\ UNCHANGED <<priPoll, relayVars, faults, recreated>>

PriStep ==
  \/ PriPolls \/ CreateSync \/ ReadCreated \/ ListSent \/ ReadSent \/ GetRemote \/ ReadRemote
  \/ PutSnapshot \/ ReadPut \/ PriAcksStop

-----------------------------------------------------------------------------
(* The follower.                                                             *)

FolAt(at) == folPoll.at = at
FolGoto(at) == folPoll' = [folPoll EXCEPT !.at = at]
FolUnchanged == UNCHANGED <<priVars, stopVars>>

FolPolls ==
  /\ FolAt("idle") /\ Listed("follower")
  /\ folPoll' = [PollIdle EXCEPT !.at = "inbox", !.ans = relaySync]
  /\ FolUnchanged /\ UNCHANGED <<folRecord, folFile, folAccount, relayVars, faults, recreated>>

(* A record is gone from memory before its accounts are, and then the file.   *)
ReadInbox ==
  LET remote == folPoll.ans IN
  /\ FolAt("inbox")
  /\ IF remote.state = "stopped"
       THEN FolGoto(IF folRecord = NoRecord THEN "ackStop" ELSE "wipe") /\ folRecord' = NoRecord
     ELSE /\ UNCHANGED folRecord
          /\ IF folRecord = NoRecord \/ remote.version > folRecord.version
               THEN folPoll' = [folPoll EXCEPT !.at = "apply", !.export = folRecord # NoRecord]
             ELSE IF folRecord.ack < folRecord.version THEN FolGoto("ack")
             ELSE folPoll' = PollIdle
  /\ FolUnchanged /\ UNCHANGED <<folFile, folAccount, relayVars, faults, recreated>>

WipeStopped ==
  /\ FolAt("wipe")
  /\ folAccount' = 0 /\ folFile' = folRecord
  /\ FolGoto("ackStop")
  /\ FolUnchanged /\ UNCHANGED <<folRecord, relayVars, faults, recreated>>

(* applyCredentialSyncSnapshot: the account is made or its tokens replaced.    *)
ApplySnapshot ==
  /\ FolAt("apply")
  /\ folAccount' = folPoll.ans.cred
  /\ FolGoto("record")
  /\ FolUnchanged /\ UNCHANGED <<folRecord, folFile, relayVars, faults, recreated>>

(* The record found before the snapshot was applied is updated, in the list or *)
(* no longer; without one a new record is made.                               *)
RecordSnapshot ==
  /\ FolAt("record")
  /\ folRecord' = IF folRecord # NoRecord THEN [folRecord EXCEPT !.version = folPoll.ans.version]
                  ELSE IF folPoll.export THEN NoRecord
                  ELSE [version |-> folPoll.ans.version, ack |-> 0]
  /\ folFile' = folRecord'
  /\ FolGoto("ack")
  /\ FolUnchanged /\ UNCHANGED <<folAccount, relayVars, faults, recreated>>

(* Faulty: the relay's newest version is acknowledged.                         *)
FaultyAckVersion ==
  /\ FolAt("ack")
  /\ IF relaySync = NoSync THEN UNCHANGED relaySync ELSE Acknowledged("follower", relaySync.version)
  /\ folPoll' = PollIdle
  /\ FolUnchanged /\ UNCHANGED <<folRecord, folFile, folAccount, published, faults, recreated>>

AckVersion ==
  LET version == IF folRecord # NoRecord THEN folRecord.version ELSE folPoll.ans.version IN
  /\ FolAt("ack")
  /\ \E fate \in Fates :
       /\ Fate(fate)
       /\ IF fate = "lost" THEN UNCHANGED relaySync ELSE Acknowledged("follower", version)
       /\ folRecord' = IF fate = "answered" /\ relaySync # NoSync /\ folRecord # NoRecord
                         THEN [folRecord EXCEPT !.ack = version] ELSE folRecord
       /\ folFile' = IF fate = "answered" THEN folRecord' ELSE folFile
  /\ folPoll' = PollIdle
  /\ FolUnchanged /\ UNCHANGED <<folAccount, published, recreated>>

FolAcksStop ==
  /\ FolAt("ackStop")
  /\ \E fate \in Fates :
       /\ Fate(fate)
       /\ IF fate = "lost" THEN UNCHANGED relaySync ELSE Acknowledged("follower", folPoll.ans.version)
  /\ folPoll' = PollIdle
  /\ FolUnchanged /\ UNCHANGED <<folRecord, folFile, folAccount, published, recreated>>

FolStep ==
  \/ FolPolls \/ ReadInbox \/ WipeStopped \/ ApplySnapshot \/ RecordSnapshot \/ AckVersion
  \/ FolAcksStop

-----------------------------------------------------------------------------
(* Stops by the user, and restarts.                                           *)

(* stopCredentialSyncForAccount: the relay first, and only with its answer the *)
(* record and the follower's account.                                        *)
StopSync(side) ==
  /\ stopping[side] = "off" /\ relaySync # NoSync
  /\ IF side = "primary" THEN priRecord # NoRecord ELSE folRecord # NoRecord
  /\ \E fate \in Fates \ {"lost"} :
       /\ Fate(fate)
       /\ stopping' = [stopping EXCEPT ![side] = IF fate = "answered" THEN "answered" ELSE "off"]
  /\ relaySync' = Stopped(side)
  /\ stopAsked' = TRUE
  /\ UNCHANGED <<priVars, folVars, published, recreated>>

ForgetSync(side) ==
  \/ /\ stopping[side] = "answered"
     /\ stopping' = [stopping EXCEPT ![side] = IF side = "follower" THEN "wipe" ELSE "off"]
     /\ IF side = "primary" THEN priRecord' = NoRecord /\ UNCHANGED folRecord
                            ELSE folRecord' = NoRecord /\ UNCHANGED priRecord
     /\ UNCHANGED <<credential, priPoll, folFile, folAccount, folPoll>>
  \/ /\ stopping[side] = "wipe"
     /\ stopping' = [stopping EXCEPT ![side] = "off"]
     /\ folAccount' = 0 /\ folFile' = folRecord
     /\ UNCHANGED <<priVars, folRecord, folPoll>>

ForgetStopped(side) ==
  /\ ForgetSync(side)
  /\ UNCHANGED <<relayVars, stopAsked, faults, recreated>>

(* A Manager starts again with its file.                                      *)
Restarts(side) ==
  /\ faults < MaxFaults /\ faults' = faults + 1
  /\ IF side = "primary" THEN priPoll' = PollIdle /\ UNCHANGED <<folRecord, folPoll>>
     ELSE folPoll' = PollIdle /\ folRecord' = folFile /\ UNCHANGED priPoll
  /\ stopping' = [stopping EXCEPT ![side] = "off"]
  /\ UNCHANGED <<credential, priRecord, folFile, folAccount, relayVars, stopAsked, recreated>>

SyncNext ==
  \/ Renewal \/ PriStep \/ BackoffOver \/ FolStep
  \/ \E side \in Sides : StopSync(side) \/ ForgetStopped(side) \/ Restarts(side)

SyncSpec == SyncInit /\ [][SyncNext]_syncVars

(* Both sides poll every few seconds, and what is awaited comes or fails.     *)
SyncFairness ==
  /\ WF_syncVars(PriStep) /\ WF_syncVars(BackoffOver) /\ WF_syncVars(FolStep)
  /\ \A side \in Sides : WF_syncVars(ForgetStopped(side))

FairSyncSpec == SyncSpec /\ SyncFairness

-----------------------------------------------------------------------------

SyncTypeOK ==
  /\ relaySync # NoSync =>
       /\ relaySync.version \in DOMAIN published /\ relaySync.cred = published[relaySync.version]
       /\ relaySync.acks \subseteq Sides
  /\ folRecord # NoRecord => folRecord.version \in DOMAIN published
  /\ folAccount \in 0..credential

(* The relay tells the primary no version acknowledged whose credential, or a  *)
(* newer one, the follower does not hold, whatever answers are lost and       *)
(* whoever restarts between storing, recording and acknowledging.  A request   *)
(* of the first version that comes again when the stopped sync is already      *)
(* pruned (line 1055, with the record found before the stop) makes it anew.    *)
AcknowledgedIsStored ==
  relaySync # NoSync /\ relaySync.state = "active" /\ relaySync.ack > 0 /\ ~recreated =>
    folAccount >= published[relaySync.ack]

(* The follower gets each credential, or a later one, unless somebody stops    *)
(* the sync.                                                                 *)
FollowerCatchesUp ==
  \A c \in 1..(MaxRenewals + 1) : (credential >= c) ~> (folAccount >= c \/ stopAsked)

(* What docs/ACCOUNT_SHARING.md:154 says of a stop: the follower deletes the   *)
(* account and its credential.  The relay takes an acknowledgement of a        *)
(* version that arrives after the stop for one of the stop (sharing-relay     *)
(* 517), and mentions it to the follower no more.                             *)
StopRemovesAccount == stopAsked ~> (folAccount = 0)
=============================================================================
