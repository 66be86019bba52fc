--------------------------- MODULE AttachedCalls ---------------------------
(***************************************************************************)
(* The calls of several windows to one app-server                            *)
(* (runtime/codex-app-server-shim.cjs).  Each window has a shim; one of them *)
(* owns the app-server, the others are attached to it.  The owner gives the   *)
(* calls of the attached ones ids of its own and keeps the way back, forwards  *)
(* one initialize for all, and forgets a window that closes.  When the owner   *)
(* dies, a shim answers the calls under way with an error ("outcome is         *)
(* uncertain"), except the reads of the account, which it makes again; it      *)
(* attaches to the next owner or becomes it.  The election itself is           *)
(* RuntimeOwner: there is one owner at a time here.                            *)
(***************************************************************************)
EXTENDS Naturals, FiniteSets, SequencesExt

CONSTANTS
  Windows, NoWindow,
  CallPlans,    \* bound: the kinds of calls a window may make, in order
  MaxAttached,  \* MAX_ATTACHED_REQUESTS
  MaxGone       \* bound: windows that close or are killed

CallKinds == {"initialize", "read", "work"}

(* No window has more calls under way than MAX_ATTACHED_REQUESTS: beyond that  *)
(* a call made while the shim reconnects is dropped.                          *)
ASSUME AttachedCallsAssumption ==
  /\ NoWindow \notin Windows /\ IsFiniteSet(Windows) /\ Windows # {}
  /\ CallPlans \subseteq Seq(CallKinds)
  /\ MaxAttached \in Nat /\ \A plan \in CallPlans : Len(plan) <= MaxAttached

VARIABLES
  plan, asked,       \* the calls of each window, how many it has made
  heard,             \* what each call was answered with
  ownerMode,         \* runtimeOwnerMode of each shim, or "gone"
  clientPending,     \* clientPendingRequestIds of each shim
  clientInput,       \* clientInputQueue
  hasInitialized,    \* lastClientInitializeLine is set
  toHub, fromHub,    \* the socket between a shim and the owner
  hub,               \* the owner
  attached,          \* its clientSockets
  routes,            \* its attachedRequestRoutes
  handshake,         \* initializeHandshakeResponse is set
  initializeForwarded, initializeRequests,
  waiting,           \* pendingPrimaryInitializeIds, pendingAttachedInitializeRequests
  promotion,         \* where initializePromotedClient stands
  atChild,           \* requests the app-server has not answered
  given, repeated,   \* calls, reads apart, given to an app-server, and given again
  initializes        \* initialize calls of windows given to the present one

windowVars == <<clientPending, clientInput, hasInitialized, toHub, fromHub>>
handshakeVars == <<handshake, initializeForwarded, initializeRequests, waiting>>
childVarsOfHub == <<atChild, given, repeated, initializes>>
attachedVars == <<plan, asked, heard, ownerMode, windowVars, hub, attached, routes,
                  handshakeVars, promotion, childVarsOfHub>>

Call(by, n) == [by |-> by, n |-> n]
Kind(c) == plan[c.by][c.n]
Ns == UNION {DOMAIN p : p \in CallPlans}

(* The id under which the app-server knows a call: the owner's own keep theirs, *)
(* the others get a fresh one (attachedRequestSequence).                       *)
InternalId(c) == IF c.by = hub THEN <<c.n>> ELSE <<c.by, c.n>>

(* The id of the initialize a promoted shim makes itself (sendInternalRequest). *)
PromotionId == <<NoWindow, 0>>

AttachedInit ==
  /\ plan \in [Windows -> CallPlans]
  /\ asked = [w \in Windows |-> 0]
  /\ heard = [w \in Windows |-> [n \in DOMAIN plan[w] |-> "no"]]
  /\ hub \in Windows
  /\ ownerMode = [w \in Windows |-> IF w = hub THEN "owner" ELSE "client"]
  /\ attached = Windows \ {hub}
  /\ clientPending = [w \in Windows |-> {}]
  /\ clientInput = [w \in Windows |-> <<>>]
  /\ hasInitialized = [w \in Windows |-> FALSE]
  /\ toHub = [w \in Windows |-> <<>>] /\ fromHub = [w \in Windows |-> <<>>]
  /\ routes = {} /\ waiting = {} /\ initializeRequests = {}
  /\ handshake = FALSE /\ initializeForwarded = FALSE
  /\ promotion = "none"
  /\ atChild = {} /\ given = {} /\ repeated = {} /\ initializes = 0

-----------------------------------------------------------------------------
(* What reaches the windows: line l says that call l.n is answered, though the *)
(* answer is that to call l.of; an official client drops ids it has not asked. *)

AnswerTo(c) == [n |-> c.n, of |-> c, says |-> "answer"]
Refusal(c) == [n |-> c.n, of |-> c, says |-> "refused"]

Heard(w, lines) ==
  [n \in DOMAIN heard[w] |->
     LET now == {l \in lines : l.n = n}
     IN IF now = {} THEN heard[w][n]
        ELSE IF heard[w][n] # "no" \/ Cardinality(now) > 1 THEN "twice"
        ELSE LET line == CHOOSE l \in now : TRUE
             IN IF line.of = Call(w, n) THEN line.says ELSE "another's"]

(* Lines the owner writes: to its own window, and to attached ones.            *)
ToOwnWindow(lines) == heard' = [heard EXCEPT ![hub] = Heard(hub, lines)]
ToAttached(lines) ==
  fromHub' = [w \in Windows |->
                IF w \in attached THEN fromHub[w] \o SetToSeq(lines[w]) ELSE fromHub[w]]

(* writeChildLine.                                                           *)
Forward(calls) ==
  /\ atChild' = atChild \cup {[id |-> InternalId(c), call |-> c, retried |-> FALSE] : c \in calls}
  /\ given' = given \cup {c \in calls : Kind(c) # "read"}
  /\ repeated' = repeated \cup (calls \cap given)
  /\ initializes' = initializes + Cardinality({c \in calls : Kind(c) = "initialize"})

(* handleOfficialLine for calls of the owner's window.  One is an initialize at *)
(* most (handlePrimaryInitializeRequest): it is answered, or waits, or goes on. *)
OwnCalls(ns) ==
  LET calls == {Call(hub, n) : n \in ns}
      inits == {c \in calls : Kind(c) = "initialize"}
      first == IF handshake \/ initializeForwarded THEN {} ELSE inits
  IN /\ Forward((calls \ inits) \cup first)
     /\ initializeForwarded' = (initializeForwarded \/ first # {})
     /\ initializeRequests' = initializeRequests \cup {InternalId(c) : c \in first}
     /\ waiting' = waiting \cup (IF handshake THEN {} ELSE inits \ first)
     /\ ToOwnWindow({AnswerTo(c) : c \in IF handshake THEN inits ELSE {}})
     /\ UNCHANGED handshake

(* handleAttachedClientInput for each of the lines.                            *)
SendToHub(w, ns) ==
  /\ clientPending' = [clientPending EXCEPT ![w] = @ \cup ToSet(ns)]
  /\ hasInitialized' =
       [hasInitialized EXCEPT ![w] = @ \/ \E n \in ToSet(ns) : plan[w][n] = "initialize"]
  /\ toHub' = [toHub EXCEPT ![w] = @ \o ns]

-----------------------------------------------------------------------------
(* A window begins with initialize, and makes it again only when it failed.    *)
MayAsk(w, n) ==
  plan[w][n] = "initialize" => \A m \in 1..(n - 1) : heard[w][m] \in {"uncertain", "refused"}

(* The window writes a call to its shim (handleExternalLine).                  *)
MakeCall(w) ==
  LET n == asked[w] + 1 IN
  /\ ownerMode[w] # "gone" /\ n \in DOMAIN plan[w] /\ MayAsk(w, n)
  /\ asked' = [asked EXCEPT ![w] = n]
  /\ \/ /\ ownerMode[w] = "client" /\ SendToHub(w, <<n>>)
        /\ UNCHANGED <<heard, clientInput, handshakeVars, childVarsOfHub>>
     \/ /\ ownerMode[w] \in {"client-reconnecting", "owner-recovering"}
        /\ clientInput' = [clientInput EXCEPT ![w] = Append(@, n)]
        /\ UNCHANGED <<heard, clientPending, hasInitialized, toHub, handshakeVars, childVarsOfHub>>
     \/ /\ ownerMode[w] = "owner"
        /\ OwnCalls({n})
        /\ UNCHANGED <<clientInput, clientPending, hasInitialized, toHub>>
  /\ UNCHANGED <<plan, ownerMode, fromHub, hub, attached, routes, promotion>>

(* The owner reads a call of an attached window (handleAttachedClientLine,      *)
(* handleAttachedInitializeRequest).                                         *)
Full == Cardinality(routes) >= MaxAttached
HubReads(w) ==
  /\ hub # NoWindow /\ w \in attached /\ toHub[w] # <<>>
  /\ toHub' = [toHub EXCEPT ![w] = Tail(@)]
  /\ LET c == Call(w, Head(toHub[w]))
         isInit == Kind(c) = "initialize"
         said == IF isInit /\ handshake THEN {AnswerTo(c)}
                 ELSE IF isInit /\ Cardinality({v \in waiting : v.by # hub}) >= MaxAttached THEN {Refusal(c)}
                 ELSE IF isInit /\ initializeForwarded THEN {}
                 ELSE IF Full THEN {Refusal(c)} ELSE {}
         waits == isInit /\ said = {} /\ initializeForwarded
         goes == said = {} /\ ~waits
     IN /\ ToAttached([v \in Windows |-> IF v = w THEN said ELSE {}])
        /\ waiting' = waiting \cup (IF waits THEN {c} ELSE {})
        /\ routes' = routes \cup (IF goes THEN {[id |-> InternalId(c), to |-> w, n |-> c.n]} ELSE {})
        /\ initializeForwarded' = (initializeForwarded \/ (isInit /\ goes))
        /\ initializeRequests' =
             initializeRequests \cup (IF isInit /\ goes THEN {InternalId(c)} ELSE {})
        /\ Forward(IF goes THEN {c} ELSE {})
  /\ UNCHANGED <<plan, asked, heard, ownerMode, clientPending, clientInput, hasInitialized,
                 hub, attached, handshake, promotion>>

(* An answer goes back on its route, else to the owner's window, which drops    *)
(* ids it does not know (writeOfficialLine).                                   *)
BackOnRoute(r, w) ==
  LET line(n) == [n |-> n, of |-> r.call, says |-> "answer"]
      back == {t \in routes : t.id = r.id}
  IN IF back # {} THEN {line(t.n) : t \in {t \in back : t.to = w}}
     ELSE IF w = hub THEN {line(n) : n \in {n \in Ns : <<n>> = r.id}} ELSE {}

(* That to an initialize answers all that wait for it.                          *)
Flushed(r) == IF r.id \in initializeRequests THEN waiting ELSE {}

(* The app-server answers a call, and the owner reads it.                       *)
ChildAnswers(r) ==
  LET lines == [w \in Windows |->
        BackOnRoute(r, w) \cup {AnswerTo(c) : c \in {c \in Flushed(r) : c.by = w}}]
  IN /\ r \in atChild /\ r.id # PromotionId
     /\ atChild' = atChild \ {r}
     /\ handshake' = (handshake \/ r.id \in initializeRequests)
     /\ initializeRequests' = initializeRequests \ {r.id}
     /\ waiting' = waiting \ Flushed(r)
     /\ routes' = {t \in routes : t.id # r.id}
     /\ ToOwnWindow(lines[hub]) /\ ToAttached(lines)
     /\ UNCHANGED <<plan, asked, ownerMode, clientPending, clientInput, hasInitialized, toHub,
                    hub, attached, initializeForwarded, promotion, given, repeated, initializes>>

(* The app-server answers a read of the account that discovering the route has  *)
(* taken too long: the owner makes it again, once (startupAccountReadRequests).   *)
RoutingTimesOut(r) ==
  /\ r \in atChild /\ r.id # PromotionId /\ Kind(r.call) = "read" /\ ~r.retried
  /\ atChild' = (atChild \ {r}) \cup {[r EXCEPT !.retried = TRUE]}
  /\ UNCHANGED <<plan, asked, heard, ownerMode, windowVars, hub, attached, routes, handshakeVars,
                 promotion, given, repeated, initializes>>

(* An attached shim passes on an answer (handleAttachedOwnerLine).              *)
WindowReads(w) ==
  /\ ownerMode[w] = "client" /\ fromHub[w] # <<>>
  /\ heard' = [heard EXCEPT ![w] = Heard(w, {Head(fromHub[w])})]
  /\ clientPending' = [clientPending EXCEPT ![w] = @ \ {Head(fromHub[w]).n}]
  /\ fromHub' = [fromHub EXCEPT ![w] = Tail(@)]
  /\ UNCHANGED <<plan, asked, ownerMode, clientInput, hasInitialized, toHub, hub, attached, routes,
                 handshakeVars, promotion, childVarsOfHub>>

-----------------------------------------------------------------------------
MayGo == Cardinality({w \in Windows : ownerMode[w] = "gone"}) < MaxGone

(* The owner's window closes or its shim is killed, and its app-server with it. *)
OwnerDies ==
  /\ hub # NoWindow /\ MayGo
  /\ ownerMode' = [ownerMode EXCEPT ![hub] = "gone"]
  /\ hub' = NoWindow
  /\ attached' = {} /\ routes' = {} /\ waiting' = {} /\ initializeRequests' = {}
  /\ handshake' = FALSE /\ initializeForwarded' = FALSE
  /\ promotion' = "none" /\ atChild' = {} /\ initializes' = 0
  /\ UNCHANGED <<plan, asked, heard, windowVars, given, repeated>>

(* An attached window closes; the owner notices later (closeAttachedClient).     *)
WindowCloses(w) ==
  /\ ownerMode[w] \in {"client", "client-reconnecting"} /\ MayGo
  /\ ownerMode' = [ownerMode EXCEPT ![w] = "gone"]
  /\ UNCHANGED <<plan, asked, heard, windowVars, hub, attached, routes, handshakeVars, promotion,
                 childVarsOfHub>>

(* Faulty: the handshake a closed window began is forgotten.                   *)
FaultyCloseAttached(w) ==
  /\ w \in attached /\ ownerMode[w] = "gone"
  /\ attached' = attached \ {w}
  /\ routes' = {t \in routes : t.to # w}
  /\ initializeRequests' = initializeRequests \ {<<w, n>> : n \in DOMAIN plan[w]}
  /\ waiting' = {c \in waiting : c.by # w}
  /\ toHub' = [toHub EXCEPT ![w] = <<>>] /\ fromHub' = [fromHub EXCEPT ![w] = <<>>]
  /\ UNCHANGED <<plan, asked, heard, ownerMode, clientPending, clientInput, hasInitialized, hub,
                 handshake, initializeForwarded, promotion, childVarsOfHub>>

CloseAttached(w) ==
  /\ w \in attached /\ ownerMode[w] = "gone"
  /\ attached' = attached \ {w}
  /\ routes' = {t \in routes : t.to # w}
  /\ waiting' = {c \in waiting : c.by # w}
  /\ toHub' = [toHub EXCEPT ![w] = <<>>] /\ fromHub' = [fromHub EXCEPT ![w] = <<>>]
  /\ UNCHANGED <<plan, asked, heard, ownerMode, clientPending, clientInput, hasInitialized, hub,
                 handshake, initializeForwarded, initializeRequests, promotion, childVarsOfHub>>

(* Faulty: every call is made again.                                          *)
FaultyReplayable(w, ns) == ns

(* Calls that may be made again (isReplayableAuthRead).                        *)
Replayable(w, ns) == {n \in ns : plan[w][n] = "read"}

(* The ids of a map, in the order in which they were put into it.               *)
InOrder(ns) ==
  {s \in [1..Cardinality(ns) -> ns] : \A i, j \in DOMAIN s : i < j => s[i] < s[j]}

(* The socket to the owner ends, with or without the lines still in it           *)
(* (handleAttachedOwnerDisconnect).                                          *)
OwnerDisconnects(w) ==
  /\ ownerMode[w] = "client" /\ w \notin attached
  /\ ownerMode' = [ownerMode EXCEPT ![w] = "client-reconnecting"]
  /\ LET again == Replayable(w, clientPending[w]) IN
     /\ \E ns \in InOrder(again) : clientInput' = [clientInput EXCEPT ![w] = @ \o ns]
     /\ heard' = [heard EXCEPT ![w] =
          Heard(w, {[n |-> n, of |-> Call(w, n), says |-> "uncertain"] : n \in clientPending[w] \ again})]
  /\ clientPending' = [clientPending EXCEPT ![w] = {}]
  /\ toHub' = [toHub EXCEPT ![w] = <<>>] /\ fromHub' = [fromHub EXCEPT ![w] = <<>>]
  /\ UNCHANGED <<plan, asked, hasInitialized, hub, attached, routes, handshakeVars, promotion,
                 childVarsOfHub>>

(* The loop of reconnectAsOwnerOrClient finds an owner.                         *)
Reattach(w) ==
  /\ ownerMode[w] = "client-reconnecting" /\ hub # NoWindow
  /\ ownerMode' = [ownerMode EXCEPT ![w] = "client"]
  /\ attached' = attached \cup {w}
  /\ SendToHub(w, clientInput[w])
  /\ clientInput' = [clientInput EXCEPT ![w] = <<>>]
  /\ UNCHANGED <<plan, asked, heard, fromHub, hub, routes, handshakeVars, promotion, childVarsOfHub>>

(* It finds none and becomes one: it starts an app-server and initializes it     *)
(* for its window, unless that is about to do so itself.                        *)
Promote(w) ==
  LET own == \E n \in ToSet(clientInput[w]) : plan[w][n] = "initialize" IN
  /\ ownerMode[w] = "client-reconnecting" /\ hub = NoWindow
  /\ ownerMode' = [ownerMode EXCEPT ![w] = "owner-recovering"]
  /\ hub' = w
  /\ IF hasInitialized[w] /\ ~own
     THEN /\ promotion' = "asked"
          /\ atChild' = {[id |-> PromotionId, call |-> Call(w, 0), retried |-> FALSE]}
     ELSE promotion' = "done" /\ UNCHANGED atChild
  /\ UNCHANGED <<plan, asked, heard, windowVars, attached, routes, handshakeVars, given, repeated,
                 initializes>>

PromotionAnswered(r) ==
  /\ r \in atChild /\ r.id = PromotionId
  /\ atChild' = atChild \ {r}
  /\ promotion' = "answered"
  /\ UNCHANGED <<plan, asked, heard, ownerMode, windowVars, hub, attached, routes, handshakeVars,
                 given, repeated, initializes>>

(* initializePromotedClient goes on.                                          *)
PromotionDone ==
  /\ promotion = "answered" /\ promotion' = "done"
  /\ handshake' = TRUE /\ initializeForwarded' = TRUE
  /\ UNCHANGED <<plan, asked, heard, ownerMode, windowVars, hub, attached, routes,
                 initializeRequests, waiting, childVarsOfHub>>

(* reconnectAsOwnerOrClient goes on, with flushClientInputQueue.                *)
BecomeOwner ==
  /\ promotion = "done" /\ promotion' = "none"
  /\ ownerMode' = [ownerMode EXCEPT ![hub] = "owner"]
  /\ clientInput' = [clientInput EXCEPT ![hub] = <<>>]
  /\ OwnCalls(ToSet(clientInput[hub]))
  /\ UNCHANGED <<plan, asked, clientPending, hasInitialized, toHub, fromHub, hub, attached, routes>>

-----------------------------------------------------------------------------
WindowStep(w) ==
  HubReads(w) \/ WindowReads(w) \/ CloseAttached(w) \/ OwnerDisconnects(w) \/ Reattach(w) \/ Promote(w)
ChildStep == \E r \in atChild : ChildAnswers(r) \/ PromotionAnswered(r)
PromotionStep == PromotionDone \/ BecomeOwner

AttachedNext ==
  \/ \E w \in Windows : MakeCall(w) \/ WindowStep(w) \/ WindowCloses(w)
  \/ ChildStep \/ PromotionStep \/ OwnerDies
  \/ \E r \in atChild : RoutingTimesOut(r)

(* Lines in a socket are read, sockets that end are noticed, the loop that looks *)
(* for an owner goes on; the app-server answers what it is asked.               *)
AttachedFairness ==
  /\ \A w \in Windows : WF_attachedVars(WindowStep(w))
  /\ WF_attachedVars(ChildStep) /\ WF_attachedVars(PromotionStep)

AttachedSpec == AttachedInit /\ [][AttachedNext]_attachedVars
FairAttachedSpec == AttachedSpec /\ AttachedFairness

AttachedTypeOK ==
  /\ \A w \in Windows : asked[w] \in 0..Len(plan[w]) /\ DOMAIN heard[w] = DOMAIN plan[w]
  /\ \A w \in Windows : \A n \in DOMAIN heard[w] :
       heard[w][n] \in {"no", "answer", "refused", "uncertain", "twice", "another's"}
  /\ ownerMode \in [Windows -> {"owner", "client", "client-reconnecting", "owner-recovering", "gone"}]
  /\ hub \in Windows \cup {NoWindow} /\ attached \subseteq Windows
  /\ promotion \in {"none", "asked", "answered", "done"}
  /\ \A c \in waiting \cup given \cup repeated : c.by \in Windows /\ c.n \in DOMAIN plan[c.by]

(* A window gets one answer to a call, and it is the answer to that call, though *)
(* windows choose equal ids, close, and lose their owner while calls wait         *)
(* (writeOfficialLine, handleAttachedOwnerLine).  A call that does more than read  *)
(* is given to one app-server once, and an app-server is given the initialize of   *)
(* one window (handleAttachedOwnerDisconnect, initializeForwarded).              *)
ServedOnce ==
  /\ \A w \in Windows : \A n \in DOMAIN heard[w] : heard[w][n] \notin {"twice", "another's"}
  /\ repeated = {}
  /\ initializes <= 1

(* A call is answered as long as its window is open, be it with an error: a     *)
(* handshake in which the first window closes, or an owner that dies, leaves no   *)
(* call behind (flushInitializeHandshakeWaiters, reconnectAsOwnerOrClient).  The   *)
(* calls are bounded, so there is a time at which none waits.                   *)
Waits(w, n) == n <= asked[w] /\ heard[w][n] = "no" /\ ownerMode[w] # "gone"
EveryCallAnswered == []<>(\A w \in Windows : \A n \in DOMAIN plan[w] : ~Waits(w, n))
=============================================================================
