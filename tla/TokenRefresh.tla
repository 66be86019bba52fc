---------------------------- MODULE TokenRefresh ----------------------------
(***************************************************************************)
(* The refresh of one account's credential pair by several windows          *)
(* (src/auth/tokenRefreshCoordinator.ts with getTokens, updateTokens and     *)
(* upsertFromTokensInternal of src/storage/accounts.ts).  A refresh token    *)
(* serves once: the provider answers with the next pair and refuses the old   *)
(* one from then on.  The pair is kept in the private store and again in the *)
(* Aideck mirror, which readers adopt from; and in auth.json while the       *)
(* account is the active one.  Others write a pair they have read earlier     *)
(* without any lease.  Pairs are numbered as issued.                         *)
(***************************************************************************)
EXTENDS Naturals, FiniteSets

CONSTANTS
  Windows,       \* extension hosts and the daemon: processes
  RefreshCalls,  \* calls of ensureFreshAccountTokens
  CallWindow,    \* the process of each call
  PlainWriters,  \* who writes a pair under no lease, in any process
  NoCall, Login, \* nobody, and a login, as holders of a lease
  MaxLogins      \* bound: new logins

ASSUME TokenRefreshAssumption ==
  /\ CallWindow \in [RefreshCalls -> Windows]
  /\ NoCall \notin RefreshCalls /\ Login \notin RefreshCalls /\ NoCall # Login
  /\ IsFiniteSet(RefreshCalls) /\ MaxLogins \in Nat

VARIABLES
  tokenStore, tokenMirror,  \* the pair in the private store and in the mirror
  authFile,     \* the account's pair in auth.json
  accepted,     \* pairs whose refresh token the provider still takes
  issued,       \* pairs issued so far
  loginOf,      \* the login each pair descends from, as the pair of the login
  age,          \* each pair's access token: "fresh", "due" or "expired"
  refused,      \* the pair of the renewal last recorded as unavailable, or 0
  asked,        \* how often each pair's refresh token has been sent
  inFlight,     \* inFlightRefreshes of each window
  generation,   \* refreshGenerations of each window
  refreshLease, writeLease,  \* holders of the two leases of the account
  newLogin,     \* the pair a login is storing, or 0
  call,         \* each call: where it stands, and what it remembers
  plain,        \* each writer without a lease, and the pair it has at hand
  slips         \* so far: "lost", "overrun", "mirror", "reverted", "behind", "adopted"

storeVars == <<tokenMirror, writeLease, newLogin>>
providerVars == <<accepted, issued, loginOf, asked>>
windowVars == <<inFlight, generation>>
plainVars == <<authFile, plain>>
tokenVars ==
  <<tokenStore, storeVars, providerVars, age, refused, windowVars, refreshLease, call, plainVars,
    slips>>

Pairs == 1..(1 + MaxLogins + Cardinality(RefreshCalls))
IdlePlain == [at |-> "idle", pair |-> 0, changed |-> FALSE]
IdleCall == [at |-> "idle", gen |-> 0, force |-> FALSE, init |-> 0, cur |-> 0, got |-> 0]

TokenInit ==
  /\ tokenStore = 1 /\ tokenMirror = 1 /\ authFile = 1
  /\ accepted = {1} /\ issued = 1
  /\ loginOf = [p \in Pairs |-> 1]
  /\ age = [p \in Pairs |-> "fresh"]
  /\ refused = 0
  /\ asked = [p \in Pairs |-> 0]
  /\ inFlight = [w \in Windows |-> NoCall]
  /\ generation = [w \in Windows |-> 0]
  /\ refreshLease = NoCall /\ writeLease = NoCall /\ newLogin = 0
  /\ call = [c \in RefreshCalls |-> IdleCall]
  /\ plain = [q \in PlainWriters |-> IdlePlain]
  /\ slips = {}

Slip(kind) == slips' = slips \cup {kind}

-----------------------------------------------------------------------------
(* getTokens.                                                                *)

(* mergeExternalTokens: the mirror's pair, unless only the store's still      *)
(* works.                                                                    *)
Effective ==
  IF age[tokenStore] # "expired" /\ age[tokenMirror] = "expired" THEN tokenStore ELSE tokenMirror

(* A reader stores what it adopts, be it older, as long as the writer of the  *)
(* store has not reached the mirror.                                          *)
LoadTokens ==
  /\ tokenStore' = Effective
  /\ slips' = IF Effective < tokenStore THEN slips \cup {"reverted"} ELSE slips

(* Any window reads the pair at any time.                                     *)
ReadTokens ==
  /\ Effective # tokenStore
  /\ LoadTokens
  /\ UNCHANGED <<storeVars, providerVars, age, refused, windowVars, refreshLease, call, plainVars>>

-----------------------------------------------------------------------------
(* A refresh.                                                                *)

At(c, position) == call[c].at = position
Superseded(c) == call[c].gen # generation[CallWindow[c]]
CallGoto(c, position) == call' = [call EXCEPT ![c].at = position]

(* clearInFlight and the release of the refresh lease.                        *)
EndCall(c) ==
  /\ call' = [call EXCEPT ![c] = [IdleCall EXCEPT !.at = "done"]]
  /\ inFlight' = [inFlight EXCEPT ![CallWindow[c]] = IF @ = c THEN NoCall ELSE @]
  /\ refreshLease' = IF refreshLease = c THEN NoCall ELSE refreshLease
  /\ UNCHANGED generation

(* A call joins the one in flight, or is the one in flight.                   *)
StartRefresh(c) ==
  /\ At(c, "idle") /\ inFlight[CallWindow[c]] = NoCall
  /\ \E force \in BOOLEAN :
       call' = [call EXCEPT ![c] = [IdleCall EXCEPT !.at = "load", !.force = force,
                                      !.gen = generation[CallWindow[c]]]]
  /\ inFlight' = [inFlight EXCEPT ![CallWindow[c]] = c]
  /\ UNCHANGED <<tokenStore, storeVars, providerVars, age, refused, generation, refreshLease,
                 plainVars, slips>>

LoadFirst(c) ==
  /\ At(c, "load")
  /\ LoadTokens
  /\ IF Superseded(c) \/ (age[Effective] = "fresh" /\ ~call[c].force) \/ refused = Effective
       THEN EndCall(c)
       ELSE /\ call' = [call EXCEPT ![c].at = "lease", ![c].init = Effective]
            /\ UNCHANGED <<windowVars, refreshLease>>
  /\ UNCHANGED <<storeVars, providerVars, age, refused, plainVars>>

TakeLease(c) ==
  /\ At(c, "lease") /\ refreshLease = NoCall
  /\ refreshLease' = c
  /\ CallGoto(c, "reload")
  /\ UNCHANGED <<tokenStore, storeVars, providerVars, age, refused, windowVars, plainVars, slips>>

(* After five seconds the call takes what there is, or fails.                 *)
GiveUpLease(c) ==
  /\ At(c, "lease") /\ refreshLease # NoCall
  /\ LoadTokens
  /\ EndCall(c)
  /\ UNCHANGED <<storeVars, providerVars, age, refused, plainVars>>

(* Faulty: the pair read before the lease is the one that is refreshed.        *)
FaultyReload(c) ==
  /\ At(c, "reload")
  /\ call' = [call EXCEPT ![c].at = "ask", ![c].cur = call[c].init]
  /\ UNCHANGED <<tokenStore, storeVars, providerVars, age, refused, windowVars, refreshLease,
                 plainVars, slips>>

(* The second read: another process may have rotated the token meanwhile.     *)
Reload(c) ==
  /\ At(c, "reload")
  /\ LoadTokens
  /\ IF Superseded(c) \/ (age[Effective] = "fresh" /\ (~call[c].force \/ Effective # call[c].init))
       THEN EndCall(c)
       ELSE /\ call' = [call EXCEPT ![c].at = "ask", ![c].cur = Effective]
            /\ UNCHANGED <<windowVars, refreshLease>>
  /\ UNCHANGED <<storeVars, providerVars, age, refused, plainVars>>

(* refreshTokens as the provider carries it out.                              *)
AskProvider(c) ==
  LET cur == call[c].cur IN
  /\ At(c, "ask")
  /\ asked' = [asked EXCEPT ![cur] = @ + 1]
  /\ refused' = 0
  /\ IF cur \in accepted
       THEN /\ issued' = issued + 1
            /\ accepted' = (accepted \ {cur}) \cup {issued + 1}
            /\ loginOf' = [loginOf EXCEPT ![issued + 1] = loginOf[cur]]
            /\ call' = [call EXCEPT ![c].at = "answer", ![c].got = issued + 1]
       ELSE CallGoto(c, "answer") /\ UNCHANGED <<issued, accepted, loginOf>>
  /\ UNCHANGED <<tokenStore, storeVars, age, windowVars, refreshLease, plainVars, slips>>

(* The answer is dropped when a login came in between; a refusal is recorded  *)
(* and what another one may have stored is read once.                         *)
ReadAnswer(c) ==
  /\ At(c, "answer")
  /\ IF call[c].got # 0 /\ ~Superseded(c)
       THEN CallGoto(c, "save") /\ UNCHANGED <<windowVars, refreshLease, tokenStore, refused, slips>>
       ELSE /\ LoadTokens /\ EndCall(c)
            /\ refused' = IF Superseded(c) THEN refused ELSE call[c].cur
  /\ UNCHANGED <<storeVars, providerVars, age, plainVars>>

(* The provider's answer does not arrive within 25 seconds.                   *)
LoseAnswer(c) ==
  /\ At(c, "answer") /\ call[c].got # 0
  /\ EndCall(c)
  /\ Slip("lost")
  /\ UNCHANGED <<tokenStore, storeVars, providerVars, age, refused, plainVars>>

(* Faulty: the new pair is stored whatever the store holds by then.           *)
FaultySaveRefreshed(c) ==
  /\ At(c, "save") /\ writeLease = NoCall
  /\ tokenStore' = call[c].got /\ writeLease' = c /\ CallGoto(c, "mirror")
  /\ UNCHANGED <<tokenMirror, newLogin, providerVars, age, refused, windowVars,
                 refreshLease, plainVars, slips>>

(* updateTokens under the write lease: nothing is stored over a pair that is  *)
(* not the one refreshed.                                                     *)
SaveRefreshed(c) ==
  /\ At(c, "save") /\ writeLease = NoCall
  /\ IF tokenStore = call[c].cur
       THEN tokenStore' = call[c].got /\ writeLease' = c /\ CallGoto(c, "mirror")
       ELSE CallGoto(c, "final") /\ UNCHANGED <<tokenStore, writeLease>>
  /\ UNCHANGED <<tokenMirror, newLogin, providerVars, age, refused, windowVars,
                 refreshLease, plainVars, slips>>

SaveTimesOut(c) ==
  /\ At(c, "save") /\ writeLease # NoCall
  /\ EndCall(c)
  /\ Slip("lost")
  /\ UNCHANGED <<tokenStore, storeVars, providerVars, age, refused, plainVars>>

(* mirrorAideckCodexAccount returns without a word when the mirror is busy.   *)
(* After it auth.json is written, for the active account.                    *)
MirrorPair(p) ==
  \/ tokenMirror' = p /\ UNCHANGED slips
  \/ Slip("mirror") /\ UNCHANGED tokenMirror

WriteMirror(c) ==
  /\ At(c, "mirror")
  /\ MirrorPair(call[c].got)
  /\ authFile' = call[c].got
  /\ writeLease' = NoCall
  /\ CallGoto(c, "final")
  /\ UNCHANGED <<tokenStore, newLogin, providerVars, age, refused, windowVars, refreshLease, plain>>

FinishRefresh(c) ==
  /\ At(c, "final")
  /\ LoadTokens
  /\ EndCall(c)
  /\ UNCHANGED <<storeVars, providerVars, age, refused, plainVars>>

-----------------------------------------------------------------------------
(* Logins and time.                                                           *)

(* upsertFromTokensInternal: the window's refreshes are superseded, and the   *)
(* new pair replaces whatever is stored; auth.json is left as it is.          *)
Logins == {loginOf[p] : p \in Pairs}
StoreLogin(w) ==
  /\ Cardinality(Logins) <= MaxLogins /\ writeLease = NoCall
  /\ issued' = issued + 1
  /\ newLogin' = issued + 1 /\ tokenStore' = issued + 1
  /\ accepted' = accepted \cup {issued + 1}
  /\ loginOf' = [loginOf EXCEPT ![issued + 1] = issued + 1]
  /\ writeLease' = Login
  /\ generation' = [generation EXCEPT ![w] = @ + 1]
  /\ inFlight' = [inFlight EXCEPT ![w] = NoCall]
  /\ UNCHANGED <<tokenMirror, age, asked, refused, refreshLease, call, plainVars, slips>>

MirrorLogin ==
  /\ newLogin # 0
  /\ MirrorPair(newLogin)
  /\ newLogin' = 0 /\ writeLease' = NoCall
  /\ UNCHANGED <<tokenStore, providerVars, age, windowVars, refused, refreshLease, call, plainVars>>

(* Only the pairs that are kept can be looked at.                             *)
Ageing ==
  /\ \E p \in {tokenStore, tokenMirror} :
       \/ age[p] = "fresh" /\ age' = [age EXCEPT ![p] = "due"]
       \/ age[p] = "due" /\ age' = [age EXCEPT ![p] = "expired"]
  /\ UNCHANGED <<tokenStore, storeVars, providerVars, windowVars, refused, refreshLease, call,
                 plainVars, slips>>

(* A call is held up for more than the 60 seconds of a lease it never renews. *)
OverrunLease ==
  /\ refreshLease # NoCall
  /\ refreshLease' = NoCall
  /\ Slip("overrun")
  /\ UNCHANGED <<tokenStore, storeVars, providerVars, age, windowVars, refused, call, plainVars>>

-----------------------------------------------------------------------------
(* Writers without a lease: updateQuota with what the quota request went with, *)
(* the switch of the account, an import that stores its pair once more, those *)
(* that mirror what they have read, and the adoption of auth.json.            *)

otherVars == <<writeLease, newLogin, providerVars, age, refused, windowVars, refreshLease, call>>
PlainAt(q, position) == plain[q].at = position
PlainGoto(q, position, p, changed) ==
  plain' = [plain EXCEPT ![q] = [at |-> position, pair |-> p, changed |-> changed]]
PlainEnds(q) == plain' = [plain EXCEPT ![q] = IdlePlain]

(* refreshSingleQuota and switchAccountLocked read the pair,                  *)
ReadForUse(q) ==
  /\ PlainAt(q, "idle")
  /\ LoadTokens
  /\ PlainGoto(q, "held", Effective, FALSE)
  /\ UNCHANGED <<tokenMirror, otherVars, authFile>>

(* and go on with what a refresh has read last, if it has not been refused.    *)
TakeFresh(q) ==
  /\ PlainAt(q, "held")
  /\ LoadTokens
  /\ PlainGoto(q, "held", Effective, plain[q].changed \/ Effective # plain[q].pair)
  /\ UNCHANGED <<tokenMirror, otherVars, authFile>>

(* An import stores the pair of its login once more after the login.          *)
KeepImported(q) ==
  /\ PlainAt(q, "idle") /\ newLogin # 0
  /\ PlainGoto(q, "held", newLogin, TRUE)
  /\ UNCHANGED <<tokenStore, tokenMirror, otherVars, authFile, slips>>

(* The request fails, or its result is stale: the window itself has replaced   *)
(* the pair meanwhile.  The runner of wakeup tasks does not ask for that.      *)
DropHeld(q) ==
  /\ PlainAt(q, "held")
  /\ PlainEnds(q)
  /\ UNCHANGED <<tokenStore, tokenMirror, otherVars, authFile, slips>>

(* updateQuota: a pair that has changed is stored, whatever is stored by then; *)
(* otherwise what is stored is mirrored.                                      *)
StoreHeld(q) ==
  /\ PlainAt(q, "held")
  /\ IF plain[q].changed
       THEN /\ tokenStore' = plain[q].pair
            /\ PlainGoto(q, "mirror", plain[q].pair, TRUE)
            /\ slips' = IF plain[q].pair < tokenStore THEN slips \cup {"behind"} ELSE slips
       ELSE PlainGoto(q, "mirror", tokenStore, FALSE) /\ UNCHANGED <<tokenStore, slips>>
  /\ UNCHANGED <<tokenMirror, otherVars, authFile>>

(* switchAccountLocked writes auth.json and mirrors the pair.                  *)
SwitchToHeld(q) ==
  /\ PlainAt(q, "held")
  /\ authFile' = plain[q].pair
  /\ PlainGoto(q, "mirror", plain[q].pair, FALSE)
  /\ UNCHANGED <<tokenStore, tokenMirror, otherVars, slips>>

(* setAccountTags and its like mirror what is stored.                          *)
ReadForMirror(q) ==
  /\ PlainAt(q, "idle")
  /\ PlainGoto(q, "mirror", tokenStore, FALSE)
  /\ UNCHANGED <<tokenStore, tokenMirror, otherVars, authFile, slips>>

(* updateQuota also writes auth.json for the active account, an import not.    *)
MirrorHeld(q) ==
  /\ PlainAt(q, "mirror")
  /\ PlainEnds(q)
  /\ IF plain[q].pair < tokenMirror
       THEN tokenMirror' = plain[q].pair /\ Slip("behind")
       ELSE MirrorPair(plain[q].pair)
  /\ authFile' \in {authFile, IF plain[q].changed THEN plain[q].pair ELSE authFile}
  /\ UNCHANGED <<tokenStore, otherVars>>

(* syncActiveAccountFromAuthFile reads the file,                               *)
ReadAuthFile(q) ==
  /\ PlainAt(q, "idle")
  /\ PlainGoto(q, "adopt", authFile, FALSE)
  /\ UNCHANGED <<tokenStore, tokenMirror, otherVars, authFile, slips>>

(* and stores its pair when another one is stored, be that newer.              *)
AdoptAuthFile(q) ==
  /\ PlainAt(q, "adopt")
  /\ IF plain[q].pair = tokenStore
       THEN PlainEnds(q) /\ UNCHANGED <<tokenStore, slips>>
       ELSE /\ tokenStore' = plain[q].pair
            /\ PlainGoto(q, "mirror", plain[q].pair, FALSE)
            /\ slips' = IF plain[q].pair < tokenStore THEN slips \cup {"adopted"} ELSE slips
  /\ UNCHANGED <<tokenMirror, otherVars, authFile>>

PlainStep(q) ==
  \/ ReadForUse(q) \/ TakeFresh(q) \/ KeepImported(q) \/ DropHeld(q) \/ StoreHeld(q)
  \/ SwitchToHeld(q) \/ ReadForMirror(q) \/ MirrorHeld(q) \/ ReadAuthFile(q) \/ AdoptAuthFile(q)

RefreshStep(c) ==
  \/ LoadFirst(c) \/ TakeLease(c) \/ GiveUpLease(c) \/ Reload(c) \/ AskProvider(c) \/ ReadAnswer(c)
  \/ SaveRefreshed(c) \/ SaveTimesOut(c) \/ WriteMirror(c) \/ FinishRefresh(c)

TokenNext ==
  \/ \E c \in RefreshCalls : StartRefresh(c) \/ RefreshStep(c) \/ LoseAnswer(c)
  \/ \E w \in Windows : StoreLogin(w)
  \/ \E q \in PlainWriters : PlainStep(q)
  \/ ReadTokens \/ MirrorLogin \/ Ageing \/ OverrunLease

TokenSpec == TokenInit /\ [][TokenNext]_tokenVars

-----------------------------------------------------------------------------

TokenTypeOK ==
  /\ tokenStore \in Pairs /\ tokenMirror \in Pairs /\ authFile \in Pairs
  /\ \A q \in PlainWriters : plain[q].pair \in Pairs \cup {0}
  /\ accepted \subseteq Pairs /\ issued \in Pairs /\ refused \in Pairs \cup {0}
  /\ refreshLease \in RefreshCalls \cup {NoCall}
  /\ writeLease \in RefreshCalls \cup {NoCall, Login}

(* A refresh token is sent once, by whichever window: the provider would      *)
(* refuse the second one, and may revoke the login for it.  Only these make it  *)
(* be sent again: a lost answer or save ("lost"), a mirror not written          *)
(* ("mirror"), a lease overrun ("overrun"), a reader that stores the mirror's   *)
(* older pair in the middle of a save ("reverted"), a writer without a lease,   *)
(* updateQuota above all, that puts the older pair it has read back into the    *)
(* store or the mirror ("behind"), and the adoption of an older pair from       *)
(* auth.json ("adopted").  The same writers with a pair that is still the last  *)
(* one do no harm, at whatever step of a refresh or a login they come.          *)
NeverAskedTwice ==
  slips = {} => \A p \in Pairs : asked[p] <= 1

(* When everything is quiet, the pair the next reader gets is of the last      *)
(* login, however its refreshes were interleaved with older ones, and the     *)
(* provider takes its refresh token, with the exceptions of NeverAskedTwice.  *)
TokensQuiet == newLogin = 0 /\ \A c \in RefreshCalls : call[c].at \in {"idle", "done"}
UsablePairStays ==
  TokensQuiet /\ slips = {} =>
    /\ Effective \in accepted
    /\ \A l \in Logins : l <= loginOf[Effective]
=============================================================================
