---------------------------- MODULE SharingLease ----------------------------
(***************************************************************************)
(* Accounts lent for a time from one Manager to another                     *)
(* (src/sharing/accountSharingService.ts) by way of the relay's transfers    *)
(* (integrations/manager-gateway/src/sharing-relay.mjs).  While they are lent *)
(* the borrower renews their credentials; the return brings the last ones    *)
(* back.  Either side may be restarted, with what it has persisted.  A         *)
(* credential is the number of the account's renewals, and the provider takes  *)
(* the last one only.  One lease, one window on each side.                    *)
(***************************************************************************)
EXTENDS Naturals, Sequences, FiniteSets

CONSTANTS
  LentAccounts,
  NoLease, NoTransfer,
  MaxRenewed,      \* bound: renewals of an account
  MaxReturns,      \* bound: calls of returnLease
  MaxLeaseFaults   \* bound: requests lost, or carried out and not answered, and restarts

(* NoLease and NoTransfer stand for what is not there: they are no records.    *)
ASSUME SharingLeaseAssumption ==
  /\ IsFiniteSet(LentAccounts)
  /\ MaxRenewed \in Nat /\ MaxReturns \in Nat /\ MaxLeaseFaults \in Nat
  /\ NoLease \notin [state: {"shared", "returned", "failed", "expired"}, ids: SUBSET LentAccounts,
                     toConfirm: SUBSET LentAccounts]
  /\ NoLease \notin [state: {"received", "return_pending", "returned", "expired"},
                     ids: SUBSET LentAccounts]
  /\ NoTransfer \notin
       [state: {"pending", "delivered", "returned", "cancelled", "failed"},
        cred: [LentAccounts -> Nat],
        back: Seq([ids: SUBSET LentAccounts, cred: [LentAccounts -> Nat]]),
        confirmed: SUBSET LentAccounts]

VARIABLES
  newest,      \* the last credential of each account
  ownCred,     \* the one the owner has
  ownLease,    \* the owner's lease: state, accounts, returns to confirm
  ownMarked,   \* accounts the owner has hidden and marked as lent
  ownPoll,     \* where the owner is, and the transfer it has read
  ownSaved,    \* its lease as persisted, during a poll
  transfer,    \* at the relay: state, credentials, returns, returns confirmed
  borCred,     \* the borrower's credential of each account, 0 without the account
  borLease,    \* the borrower's lease: state, accounts
  processed,   \* the transfer is in processedTransferIds
  borPoll,
  ret,         \* a return under way: its accounts and their credentials
  returns, leaseExpired, leaseFaults,
  leaseSlips   \* what went wrong

ownVars == <<ownLease, ownMarked, ownPoll, ownSaved>>
borVars == <<borLease, processed, borPoll>>
credVars == <<newest, ownCred, borCred>>
leaseMisc == <<returns, leaseExpired>>
lendVars == <<ownVars, borVars, credVars, ret, transfer, leaseMisc, leaseFaults, leaseSlips>>

LeaseSlip(kind, happens) == leaseSlips' = IF happens THEN leaseSlips \cup {kind} ELSE leaseSlips
LeaseFate(fate) ==
  IF fate = "answered" THEN UNCHANGED leaseFaults
  ELSE leaseFaults < MaxLeaseFaults /\ leaseFaults' = leaseFaults + 1
LeaseFates == {"answered", "unanswered", "lost"}

Idle == [at |-> "idle", ans |-> NoTransfer]
NoReturn == [at |-> "off", ids |-> {}, all |-> FALSE, cred |-> [a \in LentAccounts |-> 0]]

(* shareAccounts has taken the accounts out of the pool and their credentials  *)
(* into the package.                                                         *)
LendInit ==
  /\ newest = [a \in LentAccounts |-> 1] /\ ownCred = newest
  /\ borCred = [a \in LentAccounts |-> 0]
  /\ ownLease = NoLease /\ ownMarked = {} /\ ownPoll = [Idle EXCEPT !.at = "post"]
  /\ ownSaved = NoLease
  /\ transfer = NoTransfer
  /\ borLease = NoLease /\ processed = FALSE /\ borPoll = Idle /\ ret = NoReturn
  /\ returns = 0 /\ leaseExpired = FALSE /\ leaseFaults = 0 /\ leaseSlips = {}

-----------------------------------------------------------------------------
(* The relay: createTransfer, acknowledgeTransfer, returnTransfer (which keeps *)
(* the credentials in any state of the transfer, and takes a return of nothing *)
(* for one of everything), confirmReturn, cancelTransfer and                  *)
(* expirePendingTransfers.                                                    *)

CreatedTransfer(cred) == [state |-> "pending", cred |-> cred, back |-> <<>>, confirmed |-> {}]
AckedTransfer(t, outcome) == [t EXCEPT !.state = IF @ = "pending" THEN outcome ELSE @]
WithReturn(t, ids, cred, complete) ==
  [t EXCEPT !.back = Append(@, [ids |-> ids, cred |-> cred]),
            !.state = IF complete /\ @ \in {"delivered", "pending"} THEN "returned" ELSE @]
Declined(t) == [t EXCEPT !.state = IF @ \in {"delivered", "pending"} THEN "returned" ELSE @]
Confirmed(t, ids) == [t EXCEPT !.confirmed = @ \cup ids]

(* Faulty: the relay cancels a transfer the borrower has acknowledged.        *)
FaultyCancelled(t) == [t EXCEPT !.state = "cancelled"]

Cancelled(t) == [t EXCEPT !.state = IF @ = "pending" THEN "cancelled" ELSE @]
Expired == transfer # NoTransfer /\ transfer.state = "pending" /\ leaseExpired

-----------------------------------------------------------------------------
(* The owner.                                                                *)

OwnUnchanged == UNCHANGED <<borVars, borCred, newest, ret, leaseMisc>>

(* createTransfer.  When its answer is lost the owner takes the share for      *)
(* failed.                                                                   *)
PostTransfer ==
  /\ ownPoll.at = "post"
  /\ \E fate \in LeaseFates :
       /\ LeaseFate(fate)
       /\ transfer' = IF fate = "lost" THEN NoTransfer
                      ELSE CreatedTransfer([a \in LentAccounts |-> 1])
       /\ ownPoll' = [ownPoll EXCEPT !.at = IF fate = "answered" THEN "mark" ELSE "idle"]
       /\ LeaseSlip("shareLost", fate = "unanswered")
  /\ OwnUnchanged /\ UNCHANGED <<ownLease, ownMarked, ownSaved, ownCred>>

(* The lease is recorded and the accounts are marked and hidden.              *)
MarkLent ==
  /\ ownPoll.at = "mark"
  /\ ownLease' = [state |-> "shared", ids |-> LentAccounts, toConfirm |-> {}]
  /\ ownMarked' = LentAccounts
  /\ ownPoll' = Idle
  /\ OwnUnchanged /\ UNCHANGED <<ownSaved, ownCred, transfer, leaseFaults, leaseSlips>>

OwnPolls ==
  /\ ownPoll.at = "idle" /\ ownLease # NoLease /\ transfer # NoTransfer
  /\ ownPoll' = [at |-> "sent", ans |-> transfer] /\ ownSaved' = ownLease
  /\ OwnUnchanged /\ UNCHANGED <<ownLease, ownMarked, ownCred, transfer, leaseFaults, leaseSlips>>

(* finalizeOutgoingAccounts: only accounts still marked are restored.          *)
Finalized(lease, ids, outcome) ==
  LET left == lease.ids \ (ids \cap ownMarked) IN
  [lease EXCEPT !.ids = left,
                !.state = IF outcome = "failed" THEN "failed" ELSE IF left = {} THEN "returned" ELSE "shared"]

(* applyReturnedCredentials: of an account that came back twice the last       *)
(* credential is stored, unless an earlier poll has done so.                  *)
Returned(back) == UNION {back[i].ids : i \in DOMAIN back}
LastBack(back, a) ==
  LET i == CHOOSE i \in DOMAIN back :
             a \in back[i].ids /\ \A j \in DOMAIN back : a \in back[j].ids => j <= i
  IN back[i].cred[a]

(* Faulty: each poll stores what has come back, be it stored already.         *)
FaultyRestored(t) == {}

Restored(t) == t.confirmed \cup ownLease.toConfirm

(* pollSentTransfers for the one transfer.                                    *)
ReadSentTransfer ==
  LET t == ownPoll.ans
      back == Returned(t.back)
      applied == IF back = {} THEN ownLease
                 ELSE [Finalized(ownLease, back, "returned") EXCEPT !.toConfirm = @ \cup back]
      over == t.state \in {"cancelled", "failed"}
  IN
  /\ ownPoll.at = "sent"
  /\ ownCred' = [a \in LentAccounts |-> IF a \in back \ Restored(t) THEN LastBack(t.back, a) ELSE ownCred[a]]
  /\ ownMarked' = IF back # {} THEN ownMarked \ back
                  ELSE IF over \/ t.state = "returned" THEN {} ELSE ownMarked
  /\ ownLease' = IF applied.toConfirm # {} THEN applied
                 ELSE IF back # {} /\ over THEN [applied EXCEPT !.state = "failed"]
                 ELSE IF back # {} THEN applied
                 ELSE IF over THEN Finalized(ownLease, LentAccounts, "failed")
                 ELSE IF t.state = "returned" THEN Finalized(ownLease, LentAccounts, "returned")
                 ELSE ownLease
  /\ ownPoll' = [ownPoll EXCEPT !.at = IF applied.toConfirm # {} THEN "confirm" ELSE "conditions"]
  /\ OwnUnchanged /\ UNCHANGED <<ownSaved, transfer, leaseFaults, leaseSlips>>

(* confirmReturn; it is sent again with the next poll when it fails.          *)
ConfirmReturn ==
  /\ ownPoll.at = "confirm"
  /\ \E fate \in LeaseFates :
       /\ LeaseFate(fate)
       /\ transfer' = IF fate = "lost" THEN transfer
                      ELSE Confirmed(transfer, ownLease.toConfirm)
       /\ ownLease' = IF fate # "answered" THEN ownLease
                      ELSE [ownLease EXCEPT !.toConfirm = {},
                              !.state = IF ownPoll.ans.state \in {"cancelled", "failed"} THEN "failed" ELSE @]
  /\ ownPoll' = [ownPoll EXCEPT !.at = "conditions"]
  /\ OwnUnchanged /\ UNCHANGED <<ownMarked, ownSaved, ownCred, leaseSlips>>

(* reconcileTerminalOutgoingLeases.                                          *)
Terminal(lease) == lease.state \in {"returned", "failed"}
Reconciled(lease) ==
  IF Terminal(lease) THEN Finalized(lease, ownMarked, lease.state) ELSE lease

(* After the poll of the transfers: a lease that is over has no account marked. *)
(* A minute after the share each poll cancels it, which the relay does only if *)
(* the borrower has not acknowledged it yet.                                  *)
CancelShare ==
  /\ ownPoll.at = "conditions"
  /\ ownPoll' = Idle /\ ownSaved' = NoLease
  /\ \/ /\ ownLease' = Reconciled(ownLease)
        /\ ownMarked' = IF Terminal(ownLease) THEN {} ELSE ownMarked
        /\ UNCHANGED <<transfer, leaseFaults>>
     \/ /\ ownLease.state = "shared"
        /\ \E fate \in LeaseFates :
             /\ LeaseFate(fate)
             /\ transfer' = IF fate = "lost" THEN transfer ELSE Cancelled(transfer)
             /\ IF fate = "answered" /\ transfer'.state \in {"cancelled", "failed"}
                  THEN ownLease' = Finalized(ownLease, LentAccounts, "failed") /\ ownMarked' = {}
                  ELSE UNCHANGED <<ownLease, ownMarked>>
  /\ OwnUnchanged /\ UNCHANGED <<ownCred, leaseSlips>>

(* A restart of the owner: what it has not persisted is gone, which is the       *)
(* lease when it has stored what came back and has not confirmed it yet, or    *)
(* has not marked the accounts.  recoverExpiredAccountSharing: accounts lent     *)
(* for longer than agreed are taken back, whatever the borrower does.          *)
OwnRestarts ==
  LET lease == IF ownPoll.at = "confirm" THEN ownSaved ELSE ownLease
      recovered == leaseExpired /\ ownMarked # {}
  IN
  /\ leaseFaults < MaxLeaseFaults /\ leaseFaults' = leaseFaults + 1
  /\ ownPoll' = Idle /\ ownSaved' = NoLease
  /\ ownLease' = IF lease = NoLease THEN NoLease
                 ELSE IF recovered THEN [lease EXCEPT !.ids = @ \ ownMarked, !.state = "expired"]
                 ELSE Reconciled(lease)
  /\ ownMarked' = IF recovered \/ (lease # NoLease /\ Terminal(lease)) THEN {} ELSE ownMarked
  /\ leaseSlips' = leaseSlips
       \cup (IF ownPoll.at = "mark" THEN {"shareLost"} ELSE {})
       \cup (IF ownPoll.at = "confirm" THEN {"returnForgotten"} ELSE {})
       \cup (IF recovered THEN {"takenBack"} ELSE {})
  /\ OwnUnchanged /\ UNCHANGED <<ownCred, transfer>>

OwnStep ==
  \/ PostTransfer \/ MarkLent \/ OwnPolls \/ ReadSentTransfer \/ ConfirmReturn \/ CancelShare

-----------------------------------------------------------------------------
(* The borrower.                                                             *)

BorUnchanged == UNCHANGED <<ownVars, ownCred, newest, leaseMisc>>
Held == {a \in LentAccounts : borCred[a] # 0}
Without(ids) == [a \in LentAccounts |-> IF a \in ids THEN 0 ELSE borCred[a]]

(* pollIncomingTransfers: what is pending is imported, or refused.            *)
BorPolls ==
  /\ borPoll.at = "idle" /\ transfer # NoTransfer /\ transfer.state = "pending"
  /\ borPoll' = [at |-> IF processed THEN "again" ELSE "import", ans |-> transfer]
  /\ BorUnchanged /\ UNCHANGED <<borLease, processed, borCred, ret, transfer, leaseFaults, leaseSlips>>

ImportShared ==
  /\ borPoll.at = "import" /\ ~leaseExpired
  /\ processed' = TRUE
  /\ \/ /\ borCred' = borPoll.ans.cred
        /\ borLease' = [state |-> "received", ids |-> LentAccounts]
        /\ borPoll' = [borPoll EXCEPT !.at = "ack"]
     \/ borPoll' = [borPoll EXCEPT !.at = "refuse"] /\ UNCHANGED <<borCred, borLease>>
  /\ BorUnchanged /\ UNCHANGED <<ret, transfer, leaseFaults, leaseSlips>>

(* What comes too late is given back, with nothing in it, and refused.         *)
DeclineLate ==
  /\ borPoll.at = "import" /\ leaseExpired
  /\ \E fate \in LeaseFates :
       LeaseFate(fate) /\ transfer' = IF fate = "lost" THEN transfer ELSE Declined(transfer)
  /\ processed' = TRUE /\ borPoll' = [borPoll EXCEPT !.at = "refuse"]
  /\ BorUnchanged /\ UNCHANGED <<borLease, borCred, ret, leaseSlips>>

(* An acknowledgement that fails is followed by one of failure, which the      *)
(* relay takes if the first has not arrived; only the answer to the first is   *)
(* looked at.  A transfer in processedTransferIds that is still pending is      *)
(* acknowledged as imported, also when it was refused.                        *)
AckTransfer ==
  /\ borPoll.at \in {"ack", "refuse", "again"}
  /\ \E fate \in LeaseFates :
       /\ LeaseFate(fate)
       /\ LET taken == AckedTransfer(transfer, IF borPoll.at = "refuse" THEN "failed" ELSE "delivered")
              over == taken.state \in {"cancelled", "returned", "failed"}
          IN /\ transfer' = IF fate = "lost" THEN transfer ELSE taken
             /\ IF fate = "answered" /\ borPoll.at = "ack" /\ over
                  THEN borCred' = [a \in LentAccounts |-> 0] /\ borLease' = NoLease
                  ELSE UNCHANGED <<borCred, borLease>>
             /\ LeaseSlip("ackLost", fate = "lost" \/ (fate = "unanswered" /\ over))
       /\ borPoll' = IF fate # "answered" /\ borPoll.at = "ack"
                       THEN [borPoll EXCEPT !.at = "refuse"] ELSE Idle
  /\ BorUnchanged /\ UNCHANGED <<processed, ret>>

(* Faulty: the accounts are taken to be removed since they were sent.         *)
FaultyReadConfirmations ==
  /\ borLease # NoLease /\ borLease.state = "return_pending"
  /\ LET ids == borLease.ids \cap transfer.confirmed IN
     /\ ids # {}
     /\ borLease' = [ids |-> borLease.ids \ ids,
                     state |-> IF borLease.ids \ ids = {} THEN "returned" ELSE "return_pending"]
  /\ BorUnchanged /\ UNCHANGED <<borCred, processed, borPoll, ret, transfer, leaseFaults, leaseSlips>>

(* pollReturnConfirmations, and its timers.                                   *)
ReadConfirmations ==
  /\ borLease # NoLease /\ borLease.state = "return_pending"
  /\ LET ids == borLease.ids \cap transfer.confirmed IN
     /\ ids # {}
     /\ borCred' = Without(ids)
     /\ borLease' = [ids |-> borLease.ids \ ids,
                     state |-> IF borLease.ids \ ids = {} THEN "returned" ELSE "return_pending"]
  /\ BorUnchanged /\ UNCHANGED <<processed, borPoll, ret, transfer, leaseFaults, leaseSlips>>

(* returnLease, by the poll when the time is over, by the user at any time,    *)
(* with all accounts or one.  An account in use without another to switch to   *)
(* stays.                                                                    *)
Automatic == leaseExpired /\ borLease # NoLease /\ borLease.state = "received" /\ borPoll.at = "idle"
ReturnLease(ids) ==
  /\ ret.at = "off" /\ borLease # NoLease /\ borLease.state # "returned"
  /\ ids # {} /\ ids \subseteq borLease.ids /\ ids \subseteq Held
  /\ borLease' = [borLease EXCEPT !.state = "return_pending"]
  /\ \/ ret' = [at |-> "post", ids |-> ids, all |-> ids = borLease.ids, cred |-> borCred]
        /\ LeaseSlip("returnedUnacknowledged", borPoll.at # "idle")
     \/ LeaseSlip("inUse", TRUE) /\ UNCHANGED ret
  /\ UNCHANGED <<ownVars, credVars, processed, borPoll, transfer, leaseFaults, leaseExpired>>

ReturnOnTime == Automatic /\ ReturnLease(borLease.ids) /\ UNCHANGED returns
ReturnByUser ==
  /\ returns < MaxReturns /\ returns' = returns + 1
  /\ \E ids \in SUBSET LentAccounts : ReturnLease(ids)

(* What is posted is what was packed.                                         *)
PostReturn ==
  /\ ret.at = "post"
  /\ \E fate \in LeaseFates :
       /\ LeaseFate(fate)
       /\ transfer' = IF fate = "lost" THEN transfer
                      ELSE WithReturn(transfer, ret.ids, ret.cred, ret.all)
       /\ ret' = IF fate = "answered" THEN [ret EXCEPT !.at = "remove"] ELSE NoReturn
       /\ leaseSlips' = leaseSlips
            \cup (IF fate = "lost" THEN {"notSent"} ELSE {})
            \cup (IF ~ret.all THEN {"partial"} ELSE {})
  /\ BorUnchanged /\ UNCHANGED <<borVars, borCred>>

(* The accounts go with the answer, and with them what was renewed meanwhile.  *)
RemoveReturned ==
  /\ ret.at = "remove"
  /\ borCred' = Without(ret.ids)
  /\ ret' = NoReturn
  /\ BorUnchanged /\ UNCHANGED <<borVars, transfer, leaseFaults, leaseSlips>>

(* A restart of the borrower: a refusal was to be persisted after it is         *)
(* acknowledged, and a return that was persisted is not sent again.            *)
(* recoverExpiredAccountSharing: accounts kept for longer than agreed are       *)
(* removed, returned or not.                                                 *)
BorRestarts ==
  LET recovered == leaseExpired /\ Held # {} IN
  /\ leaseFaults < MaxLeaseFaults /\ leaseFaults' = leaseFaults + 1
  /\ borPoll' = Idle /\ ret' = NoReturn
  /\ processed' \in IF borLease = NoLease /\ transfer # NoTransfer /\ transfer.state = "pending"
                     THEN {FALSE, processed} ELSE {processed}
  /\ IF recovered
       THEN borCred' = Without(Held)
            /\ borLease' = [borLease EXCEPT !.ids = @ \ Held, !.state = "expired"]
       ELSE UNCHANGED <<borCred, borLease>>
  /\ leaseSlips' = leaseSlips
       \cup (IF borPoll.at \in {"ack", "refuse"} THEN {"ackLost"} ELSE {})
       \cup (IF ret.at = "post" THEN {"notSent"} ELSE {})
       \cup (IF recovered /\ ~(Held \subseteq Returned(transfer.back)) THEN {"removedExpired"} ELSE {})
  /\ BorUnchanged /\ UNCHANGED transfer

BorStep == BorPolls \/ ImportShared \/ DeclineLate \/ AckTransfer

-----------------------------------------------------------------------------
(* Renewals and time.                                                        *)

(* Who has the last credential can renew it; that an account is about to be    *)
(* returned, or was just put into a package, does not keep anybody from it.   *)
OwnRenews(a) ==
  /\ a \notin ownMarked /\ ownCred[a] = newest[a] /\ newest[a] < MaxRenewed
  /\ newest' = [newest EXCEPT ![a] = @ + 1] /\ ownCred' = [ownCred EXCEPT ![a] = @ + 1]
  /\ LeaseSlip("renewedInShare", ownPoll.at \in {"post", "mark"})
  /\ UNCHANGED <<ownVars, borVars, borCred, ret, transfer, leaseMisc, leaseFaults>>

(* The account goes back: its credential is packed, or the share was cancelled  *)
(* and the acknowledgement has not told the borrower yet.                     *)
GoesBack(a) ==
  \/ ret.at # "off" /\ a \in ret.ids
  \/ borPoll.at # "idle"
  \/ transfer # NoTransfer /\ a \in Returned(transfer.back)
BorRenews(a) ==
  /\ borCred[a] # 0 /\ borCred[a] = newest[a] /\ newest[a] < MaxRenewed
  /\ newest' = [newest EXCEPT ![a] = @ + 1] /\ borCred' = [borCred EXCEPT ![a] = @ + 1]
  /\ LeaseSlip("renewedInReturn", GoesBack(a))
  /\ UNCHANGED <<ownVars, borVars, ownCred, ret, transfer, leaseMisc, leaseFaults>>

LeaseExpires ==
  /\ ~leaseExpired
  /\ leaseExpired' = TRUE
  /\ UNCHANGED <<ownVars, borVars, credVars, ret, transfer, returns, leaseFaults, leaseSlips>>

(* The relay does so before it lists or hands out anything.                   *)
RelayExpires ==
  /\ Expired
  /\ transfer' = Cancelled(transfer)
  /\ UNCHANGED <<ownVars, borVars, credVars, ret, leaseMisc, leaseFaults, leaseSlips>>

LendNext ==
  \/ OwnStep \/ BorStep \/ ReadConfirmations \/ ReturnOnTime \/ ReturnByUser \/ PostReturn
  \/ RemoveReturned \/ OwnRestarts \/ BorRestarts \/ LeaseExpires \/ RelayExpires
  \/ \E a \in LentAccounts : OwnRenews(a) \/ BorRenews(a)

LendSpec == LendInit /\ [][LendNext]_lendVars

(* Both sides poll, requests are answered or fail, and time passes.           *)
LendFairness ==
  /\ WF_lendVars(OwnStep) /\ WF_lendVars(BorStep) /\ SF_lendVars(ReturnOnTime)
  /\ WF_lendVars(ReadConfirmations) /\ WF_lendVars(PostReturn) /\ WF_lendVars(RemoveReturned)
  /\ WF_lendVars(LeaseExpires) /\ WF_lendVars(RelayExpires)

-----------------------------------------------------------------------------

LendTypeOK ==
  /\ newest \in [LentAccounts -> 1..MaxRenewed] /\ ownMarked \subseteq LentAccounts
  /\ \A a \in LentAccounts : ownCred[a] \in 1..newest[a] /\ borCred[a] \in 0..newest[a]
  /\ ownLease # NoLease => ownLease.ids \subseteq LentAccounts /\ ownMarked \subseteq ownLease.ids

(* The last credential of an account is never lost: the owner has it, the      *)
(* borrower has it, or it waits at the relay for the owner, however renewals,  *)
(* returns of one or all accounts, cancellation, confirmations and restarts    *)
(* interleave.  Only these break it: a renewal by the borrower after its       *)
(* return was packed (renewedInReturn), one by the owner while it packs the    *)
(* share (renewedInShare), a share or an acknowledgement whose answer is lost   *)
(* or forgotten in a restart (shareLost, ackLost), a return sent before the     *)
(* acknowledgement of a share cancelled by then (returnedUnacknowledged), a     *)
(* restart of the owner between storing a return and confirming it, after      *)
(* which it stores it again over its own renewals (returnForgotten), and a      *)
(* restart past the lease's time of the owner, who takes the accounts back and  *)
(* may renew them as well (takenBack), or of the borrower, who removes them     *)
(* without a return (removedExpired).                                         *)
Waiting(a) ==
  /\ transfer # NoTransfer /\ a \in Returned(transfer.back)
  /\ LastBack(transfer.back, a) = newest[a]
  /\ IF ownLease = NoLease THEN ownPoll.at = "mark"
     ELSE a \notin transfer.confirmed \cup ownLease.toConfirm
CredentialKept ==
  leaseSlips \cap {"renewedInReturn", "renewedInShare", "shareLost", "ackLost",
                 "returnedUnacknowledged", "returnForgotten", "takenBack", "removedExpired"} = {} =>
    \A a \in LentAccounts : ownCred[a] = newest[a] \/ borCred[a] = newest[a] \/ Waiting(a)

(* The owner gets to use an account again only when the borrower has given it   *)
(* back or is about to find its share cancelled, unless it has taken it back    *)
(* in a restart past the lease's time.                                        *)
OneSideUses ==
  leaseSlips \cap {"shareLost", "ackLost", "takenBack"} = {} /\ ownLease # NoLease /\ ownPoll.at # "mark" =>
    \A a \in Held \ ownMarked : borLease.state = "return_pending" \/ borPoll.at \in {"ack", "refuse"}

(* A lease whose time is over ends, also when the owner has taken the accounts   *)
(* back: the borrower has none of them, and the owner has them all, unmarked.   *)
(* Its record is over too, unless a return was forgotten: stored again, it      *)
(* finds no account marked, and the lease stays "shared".  A return that could   *)
(* not be sent is not sent again, and accounts removed without a return leave   *)
(* the owner waiting until its own restart.                                   *)
LeaseOver ==
  /\ Held = {} /\ ownMarked = {}
  /\ ownLease # NoLease =>
       ownLease.state \in {"returned", "failed", "expired"} \/ "returnForgotten" \in leaseSlips
LeaseEnds ==
  leaseExpired ~> (LeaseOver \/ leaseSlips \cap {"inUse", "notSent", "partial", "shareLost", "ackLost",
                                                 "removedExpired"} # {})
=============================================================================
