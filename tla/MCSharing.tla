----------------------------- MODULE MCSharing -----------------------------
(* The ways in which an account comes from elsewhere, for TLC: the sync of    *)
(* its credentials, its lease, the import of a job.  They share no state, so  *)
(* a behaviour is one of one of them, the others resting.                     *)
EXTENDS CredentialSync, SharingLease, ImportInbox

CONSTANTS a, b, p, q

VARIABLE way

sharingVars == <<syncVars, lendVars, inboxVars, way>>

SharingInit == SyncInit /\ LendInit /\ InboxInit /\ way \in {"sync", "lease", "inbox"}

SharingNext ==
  \/ way = "sync" /\ SyncNext /\ UNCHANGED <<lendVars, inboxVars, way>>
  \/ way = "lease" /\ LendNext /\ UNCHANGED <<syncVars, inboxVars, way>>
  \/ way = "inbox" /\ InboxNext /\ UNCHANGED <<syncVars, lendVars, way>>

(* SyncFairness, LendFairness and InboxFairness, each for its own behaviours. *)
InSync(A) == way = "sync" /\ A
InLease(A) == way = "lease" /\ A
SharingFairness ==
  /\ WF_syncVars(InSync(PriStep)) /\ WF_syncVars(InSync(BackoffOver)) /\ WF_syncVars(InSync(FolStep))
  /\ \A side \in Sides : WF_syncVars(InSync(ForgetStopped(side)))
  /\ WF_lendVars(InLease(OwnStep)) /\ WF_lendVars(InLease(BorStep)) /\ SF_lendVars(InLease(ReturnOnTime))
  /\ WF_lendVars(InLease(ReadConfirmations)) /\ WF_lendVars(InLease(PostReturn))
  /\ WF_lendVars(InLease(RemoveReturned)) /\ WF_lendVars(InLease(LeaseExpires))
  /\ WF_lendVars(InLease(RelayExpires))
  /\ \A h \in InboxHosts :
       WF_inboxVars(way = "inbox" /\ InboxStep(h)) /\ WF_inboxVars(way = "inbox" /\ WindowOpens(h))
  /\ WF_inboxVars(way = "inbox" /\ JobAges)

SharingSpec == SharingInit /\ [][SharingNext]_sharingVars /\ SharingFairness

(* The behaviours of a lease are followed until one of the slips the promises *)
(* about credentials leave out.                                              *)
LeaseHasNotSlipped ==
  leaseSlips \cap {"shareLost", "renewedInShare", "ackLost", "returnedUnacknowledged",
                 "removedExpired"} = {}

(* The types of the three modules.                                            *)
SharingTypesOK == SyncTypeOK /\ LendTypeOK /\ InboxTypeOK

(* The follower of a sync gets each credential (pollCredentialSyncs), as       *)
(* FollowerCatchesUp says.                                                   *)
SyncCatchesUp == (way = "sync") => FollowerCatchesUp

(* A lease whose time is over ends (returnLease, pollSentTransfers), as        *)
(* LeaseEnds says.                                                           *)
LentComesBack == (way = "lease") => LeaseEnds
=============================================================================
