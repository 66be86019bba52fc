----------------------------- MODULE MCStorage -----------------------------
(* The stores the windows of a machine share, for TLC: the lease of a file,   *)
(* the index of the accounts, the tokens and the health of one account, the   *)
(* wakeup task.  The modules share no state, so a behaviour is one of one of   *)
(* them, the others resting in their initial states.                         *)
EXTENDS FileLease, AccountsIndex, TokenRefresh, AccountEvidence, Wakeup

CONSTANTS c1, c2, d1, d2, h1, h2, x, y, r1, r2, q1, w1, w2

LOCAL INSTANCE TLC

WindowOfCall == r1 :> w1 @@ r2 :> w2

VARIABLE store

storageVars == <<leaseVars, indexVars, tokenVars, evidenceVars, wakeVars, store>>

StorageInit ==
  /\ LeaseInit /\ IndexInit /\ TokenInit /\ EvidenceInit /\ WakeInit
  /\ store \in {"lease", "index", "tokens", "evidence", "tasks"}

StorageNext ==
  /\ UNCHANGED store
  /\ \/ /\ store = "lease" /\ LeaseNext
        /\ UNCHANGED <<indexVars, tokenVars, evidenceVars, wakeVars>>
     \/ /\ store = "index" /\ IndexNext
        /\ UNCHANGED <<leaseVars, tokenVars, evidenceVars, wakeVars>>
     \/ /\ store = "tokens" /\ TokenNext
        /\ UNCHANGED <<leaseVars, indexVars, evidenceVars, wakeVars>>
     \/ /\ store = "evidence" /\ EvidenceNext
        /\ UNCHANGED <<leaseVars, indexVars, tokenVars, wakeVars>>
     \/ /\ store = "tasks" /\ WakeNext
        /\ UNCHANGED <<leaseVars, indexVars, tokenVars, evidenceVars>>

(* IndexFairness, for the behaviours of the index.                            *)
StorageFairness == \A h \in IndexHosts : WF_indexVars(store = "index" /\ IndexSaves(h))

StorageSpec == StorageInit /\ [][StorageNext]_storageVars /\ StorageFairness

(* Behaviours are followed until a fault that the promises leave out.         *)
StoresHaveNotSlipped == ~overtaken /\ slips = {} /\ ~evidenceLost

(* The types of the five modules.                                             *)
StorageTypesOK ==
  /\ LeaseTypeOK /\ IndexTypeOK /\ TokenTypeOK /\ EvidenceTypeOK /\ WakeTypeOK

(* What the last host edits comes to the file (flushPending), as              *)
(* EditReachesFile says.                                                     *)
LastEditReachesFile == (store = "index") => EditReachesFile
=============================================================================
