-------------------------- MODULE AccountEvidence --------------------------
(***************************************************************************)
(* What is known of one account's health                                    *)
(* (src/application/accounts/accountState.ts): the last availability a       *)
(* runtime observed, the last time its credential is known to have worked,   *)
(* and their copy in the window's persistent state.  Observations arrive     *)
(* late and out of order, and about credentials that are no longer in use.    *)
(***************************************************************************)
EXTENDS Naturals

CONSTANTS
  NoEvidence,
  ObservedKinds, \* bound: the kinds of observations that are made
  TTL,          \* AVAILABILITY_TTL_MS
  MaxCredentials, \* bound: access tokens the account has, one after the other
  MaxClock,     \* bound: the clock
  MaxRuntimes,  \* bound: runtimes, one after the other
  MaxEvents     \* bound: observations and successes

ASSUME AccountEvidenceAssumption ==
  /\ ObservedKinds \subseteq {"unknown", "usable", "auth_unavailable", "quota_limited"}
  /\ MaxCredentials \in Nat \ {0} /\ TTL \in Nat \ {0}
  /\ MaxClock \in Nat \ {0} /\ MaxRuntimes \in Nat /\ MaxEvents \in Nat
  /\ NoEvidence \notin [cred : 1..MaxCredentials, at : Nat]
  /\ NoEvidence \notin [cred : 1..MaxCredentials, kind : ObservedKinds, at : Nat, run : Nat, seq : Nat]

VARIABLES
  clock,
  inUse,         \* the credential the account has now
  expiredCreds,  \* access tokens whose time is over
  availability, confirmation,  \* the tables' entries of the account
  runtimeId,     \* the runtime observations are taken from
  underWay,      \* observations made and not yet delivered
  sequence,      \* of the last observation or success
  pendingWrite,  \* the tables as they are now have still to be written
  savedEvidence,
  evidenceLost,    \* a window ended before its last write, or recorded a success of an old credential
  workedAt,      \* when each credential last worked, as far as recorded
  rejectedAt     \* when each credential was last rejected, as far as recorded

evidenceVars ==
  <<clock, inUse, expiredCreds, availability, confirmation, runtimeId, underWay, sequence,
    pendingWrite, savedEvidence, evidenceLost, workedAt, rejectedAt>>

Credentials == 1..MaxCredentials

EvidenceInit ==
  /\ clock = 1 /\ sequence = 0 /\ runtimeId = 1
  /\ inUse = 1
  /\ expiredCreds = {} /\ underWay = {}
  /\ availability = NoEvidence /\ confirmation = NoEvidence
  /\ pendingWrite = FALSE
  /\ savedEvidence = [availability |-> NoEvidence, confirmation |-> NoEvidence]
  /\ evidenceLost = FALSE
  /\ workedAt = [c \in Credentials |-> 0] /\ rejectedAt = [c \in Credentials |-> 0]

(* persistAccountState chains a snapshot of the tables; the last one counts.   *)
PersistEvidence == pendingWrite' = TRUE

(* The runtime observes what became of a request made with some credential.   *)
Observe ==
  /\ sequence < MaxEvents
  /\ \E c \in 1..inUse, k \in ObservedKinds :
       underWay' = underWay \cup
         {[cred |-> c, kind |-> k, at |-> clock, run |-> runtimeId, seq |-> sequence + 1]}
  /\ sequence' = sequence + 1
  /\ UNCHANGED <<clock, inUse, expiredCreds, availability, confirmation, runtimeId, pendingWrite,
                 savedEvidence, evidenceLost, workedAt, rejectedAt>>

(* Faulty: an observation is taken though a later one is there already.       *)
FaultyOutdated(o) == o.run # runtimeId \/ clock - o.at >= TTL

(* The reasons for which recordAvailability refuses an observation.           *)
Outdated(o) ==
  \/ o.run # runtimeId \/ clock - o.at >= TTL
  \/ /\ availability # NoEvidence
     /\ \/ availability.at > o.at
        \/ availability.run = o.run /\ availability.seq > o.seq

Contradicts(o) ==
  /\ confirmation # NoEvidence /\ confirmation.cred = o.cred
  /\ o.kind \in {"unknown", "auth_unavailable"}

RecordAvailability ==
  /\ \E o \in underWay :
       /\ underWay' = underWay \ {o}
       /\ IF Outdated(o) \/ (Contradicts(o) /\ o.at < confirmation.at)
            THEN UNCHANGED <<availability, confirmation, pendingWrite, rejectedAt>>
            ELSE /\ availability' = o
                 /\ confirmation' = IF Contradicts(o) THEN NoEvidence ELSE confirmation
                 /\ rejectedAt' = IF o.kind = "auth_unavailable"
                                    THEN [rejectedAt EXCEPT ![o.cred] = o.at] ELSE rejectedAt
                 /\ PersistEvidence
  /\ UNCHANGED <<clock, inUse, expiredCreds, runtimeId, sequence, savedEvidence, evidenceLost, workedAt>>

(* recordAuthenticationSuccess, after a renewal, a login, a quota request or  *)
(* a turn with a credential.                                                  *)
RecordSuccess ==
  /\ sequence < MaxEvents
  /\ sequence' = sequence + 1
  /\ \E c \in 1..inUse :
       /\ confirmation' = [cred |-> c, at |-> clock]
       /\ workedAt' = [workedAt EXCEPT ![c] = clock]
       /\ evidenceLost' = (evidenceLost \/ c # inUse)
  /\ availability' = IF availability # NoEvidence /\ availability.kind # "quota_limited"
                       THEN NoEvidence ELSE availability
  /\ PersistEvidence
  /\ UNCHANGED <<clock, inUse, expiredCreds, runtimeId, underWay, savedEvidence, rejectedAt>>

(* resetAccountHealthEvidenceForCredentialChange.                             *)
ChangeCredential ==
  /\ inUse < MaxCredentials /\ inUse' = inUse + 1
  /\ availability' = NoEvidence /\ confirmation' = NoEvidence
  /\ IF availability # NoEvidence \/ confirmation # NoEvidence
       THEN PersistEvidence ELSE UNCHANGED pendingWrite
  /\ UNCHANGED <<clock, expiredCreds, runtimeId, underWay, sequence, savedEvidence, evidenceLost,
                 workedAt, rejectedAt>>

WriteEvidence ==
  /\ pendingWrite
  /\ savedEvidence' = [availability |-> availability, confirmation |-> confirmation]
  /\ pendingWrite' = FALSE
  /\ UNCHANGED <<clock, inUse, expiredCreds, availability, confirmation, runtimeId, underWay,
                 sequence, evidenceLost, workedAt, rejectedAt>>

(* The window starts again and reads what was written; the runtime is another *)
(* one as well.                                                               *)
Restart ==
  /\ runtimeId < MaxRuntimes
  /\ runtimeId' = runtimeId + 1
  /\ availability' = savedEvidence.availability
  /\ confirmation' = savedEvidence.confirmation
  /\ evidenceLost' = (evidenceLost \/ pendingWrite)
  /\ pendingWrite' = FALSE
  /\ UNCHANGED <<clock, inUse, expiredCreds, underWay, sequence, savedEvidence, workedAt, rejectedAt>>

(* setAvailabilityRuntime, when another runtime has become the owner.         *)
ChangeRuntime ==
  /\ runtimeId < MaxRuntimes
  /\ runtimeId' = runtimeId + 1
  /\ UNCHANGED <<clock, inUse, expiredCreds, availability, confirmation, underWay, sequence,
                 pendingWrite, savedEvidence, evidenceLost, workedAt, rejectedAt>>

ClockTick ==
  /\ clock < MaxClock
  /\ clock' = clock + 1
  /\ \E c \in SUBSET {inUse} : expiredCreds' = expiredCreds \cup c
  /\ UNCHANGED <<inUse, availability, confirmation, runtimeId, underWay, sequence, pendingWrite,
                 savedEvidence, evidenceLost, workedAt, rejectedAt>>

EvidenceNext ==
  \/ Observe \/ RecordAvailability \/ RecordSuccess \/ ChangeCredential \/ WriteEvidence
  \/ Restart \/ ChangeRuntime \/ ClockTick

EvidenceSpec == EvidenceInit /\ [][EvidenceNext]_evidenceVars

-----------------------------------------------------------------------------

(* readRenewalAvailability and readAvailability.                              *)
NothingKnown == [kind |-> "unknown", at |-> 0]
ReadConfirmed ==
  IF confirmation # NoEvidence /\ confirmation.cred = inUse /\ inUse \notin expiredCreds
    THEN [kind |-> "usable", at |-> confirmation.at] ELSE NothingKnown

ReadAvailability ==
  LET a == availability IN
  IF \/ a = NoEvidence
     \/ a.kind # "quota_limited" /\ (a.cred # inUse \/ ReadConfirmed.at >= a.at)
     \/ a.kind = "usable" /\ a.cred \in expiredCreds
    THEN ReadConfirmed
    ELSE [kind |-> a.kind, at |-> a.at]

EvidenceTypeOK ==
  /\ clock \in 1..MaxClock /\ inUse \in Credentials /\ sequence \in 0..MaxEvents
  /\ availability # NoEvidence => availability.kind \in ObservedKinds /\ availability.at <= clock
  /\ confirmation # NoEvidence => confirmation.cred \in Credentials /\ confirmation.at <= clock

(* The verdict shown is about the credential in use and is the newest there   *)
(* is on it: no rejection is shown that a later success has disproved, and no *)
(* success a later rejection has, whatever order they were delivered in and   *)
(* however often the window or the runtime was restarted.  Only a success of   *)
(* a credential already replaced, recorded over the one of its successor, and *)
(* a window that ends before its last write forget what was known.            *)
NewestVerdictShown ==
  ~evidenceLost =>
    /\ ReadAvailability.kind = "auth_unavailable" =>
         availability.cred = inUse /\ ReadAvailability.at >= workedAt[inUse]
    /\ ReadAvailability.kind = "usable" => ReadAvailability.at >= rejectedAt[inUse]
=============================================================================
