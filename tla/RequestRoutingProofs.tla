------------------------ MODULE RequestRoutingProofs ------------------------
(***************************************************************************)
(* What the runs of RequestRouting show for small tables, for all sessions,   *)
(* connections, route tables and requests: sessions stay apart, what a        *)
(* session's routes govern never leaves bare, the control plane is asked to   *)
(* act on selected resources only, and a selected resource that a request     *)
(* names is found.                                                           *)
(*                                                                           *)
(* The first three are inductive together with the fact that a connection has *)
(* no outcome before it is done and no call before its request is read: what  *)
(* they relate is written once per connection.  The last rests on a fact about *)
(* lists: if any element carries a key there is a first one.                  *)
(***************************************************************************)
EXTENDS RequestRouting, WellFoundedInduction, TLAPS

Stage == {"new", "open", "flow", "calling", "done"}

Shape ==
    /\ registry \in [Session -> Tables \cup {None}]
    /\ stage \in [Conn -> Stage]
    /\ peer \in [Conn -> Session \cup {Stranger, None}]
    /\ origin \in [Conn -> Origin \cup {None}]
    /\ sess \in [Conn -> Session \cup {None}]
    /\ routes \in [Conn -> Tables \cup {None}]
    /\ request \in [Conn -> Request \cup {None}]
    /\ outcome \in [Conn -> Outcome \cup {None}]
    /\ call = [c \in Conn |-> call[c]]

OwnSession(p, s) == ~AllowSole => s \in {None, p}

ConnInv(c) ==
    /\ stage[c] \in {"new", "open"} => call[c] = None
    /\ stage[c] # "done" => outcome[c] = None
    /\ sess[c] = None <=> routes[c] = None
    /\ OwnSession(peer[c], sess[c])
    /\ NeverBare(sess[c], origin[c], routes[c], request[c], outcome[c])
    /\ ActsWell(origin[c], routes[c], request[c], call[c])

RInv == Shape /\ \A c \in Conn : ConnInv(c)

-----------------------------------------------------------------------------
(* Attribution, and the decisions of the router.                             *)

\* A connection is attributed to nobody or to a registered session, and to its
\* own if the fallback is off.
LEMMA Attribution ==
    ASSUME NEW p, NEW token \in {p, None} \cap (Session \cup {None}), NEW resolved \in BOOLEAN
    PROVE /\ ResolveSession(p, token, resolved) \in Live \cup {None}
          /\ OwnSession(p, ResolveSession(p, token, resolved))
<1> DEFINE Sole == \E s \in Session : Live = {s}
           only == CHOOSE s \in Session : Live = {s}
<1>1. Sole => only \in Session /\ Live = {only}
    OBVIOUS
<1>2. None \notin Live
    BY RoutingAssumption DEF Live
<1> HIDE DEF only
<1>3. /\ MatchSession(token) \in Live \cup {None}
      /\ MatchSession(token) \in {token, None} \/ AllowSole
    BY <1>1, <1>2 DEF MatchSession, only
<1> QED BY <1>3 DEF ResolveSession, OwnSession

\* What passes unchanged by an MCP route authorizes nothing.
LEMMA PassingIsHarmless ==
    ASSUME NEW table \in Tables, NEW req, NEW o, NEW s, NEW r,
           RoutesFor(table, o, req.path) = {r},
           r.ready, McpPassthroughReason(r, req)
    PROVE NeverBare(s, o, table, req, "passed")
<1>1. r \in table
    BY DEF RoutesFor
<1>2. LeavesUnchanged(r, req)
    BY <1>1, RoutingAssumption DEF McpPassthroughReason, LeavesUnchanged, Mode
<1> QED BY <1>1, <1>2 DEF NeverBare

\* An action that reaches the control plane is on a resource the request names.
LEMMA TargetIsNamed ==
    ASSUME NEW table \in Tables, NEW req, NEW o, NEW r, NEW op,
           NEW t \in Targets(r, req), NEW res \in Selected(r, t),
           RoutesFor(table, o, req.path) = {r}, r.ready, res.ready
    PROVE ActsWell(o, table, req, [op |-> op, route |-> r, resource |-> res])
<1>1. ~MetadataError(req)
    BY DEF Targets
<1>2. \E i \in DOMAIN r.resources : r.resources[i] = res /\ Carries(res, t)
    BY DEF Selected, ResourceByKey
<1>3. Names(req, r, res)
    <2>1. CASE r.mode = "provider_executor"
        <3>1. t \in ProviderTarget(r, req)
            BY <1>1, <2>1 DEF Targets
        <3>2. PICK key \in res.keys :
                 key[2] = t.value \/ (t.fold /\ Folded(key[2]) = Folded(t.value))
            BY <1>2 DEF Carries
        <3>3. CASE r.provider = "github"
            <4>1. GithubRepositoryPath(req.path) /\ t.value = <<req.path[2], req.path[3]>>
                BY <3>1, <3>3 DEF ProviderTarget, Target
            <4>2. Folded(key[2]) = Folded(<<req.path[2], req.path[3]>>)
                BY <3>2, <4>1
            <4> QED BY <2>1, <3>3, <4>1, <4>2 DEF Names, GithubRepositoryPath
        <3>4. CASE r.provider # "github"
            <4>1. t.value = <<Channel(req)>> /\ ~t.fold
                BY <3>1, <3>4 DEF ProviderTarget, Target
            <4> QED BY <2>1, <3>2, <3>4, <4>1 DEF Names
        <3> QED BY <3>3, <3>4
    <2>2. CASE r.mode # "provider_executor"
        <3>1. t \in MCPTarget(req)
            BY <1>1, <2>2 DEF Targets
        <3>2. res.kind = t.kind /\ res.external = t.value
            BY <2>2 DEF Selected
        <3> QED BY <2>2, <3>1, <3>2 DEF MCPTarget, Target, MCPRequestID, Names
    <2> QED BY <2>1, <2>2
<1> QED BY <1>1, <1>2, <1>3 DEF ActsWell

-----------------------------------------------------------------------------
(* The invariant.                                                            *)

LEMMA RInit == Init => RInv
<1> SUFFICES ASSUME Init PROVE RInv
    OBVIOUS
<1>1. Shape
    BY DEF Init, Shape, Stage
<1>2. ASSUME NEW c \in Conn PROVE ConnInv(c)
    BY <1>2 DEF Init, ConnInv, OwnSession, NeverBare, ActsWell
<1> QED BY <1>1, <1>2 DEF RInv

\* The sessions come, go and get new routes; connections keep what they have.
LEMMA Registry ==
    ASSUME RInv,
           \/ \E s \in Session, table \in Tables : SessionStart(s, table) \/ Renew(s, table)
           \/ \E s \in Session : SetOwner(s) \/ SessionEnd(s)
           \/ UNCHANGED vars
    PROVE RInv'
<1>1. UNCHANGED connVars
    BY DEF SessionStart, SetOwner, Renew, SessionEnd, vars, connVars
<1>2. registry' \in [Session -> Tables \cup {None}]
    BY DEF RInv, Shape, SessionStart, SetOwner, Renew, SessionEnd, vars, daemonVars
<1>3. Shape'
    BY <1>1, <1>2 DEF RInv, Shape, connVars
<1>4. ASSUME NEW c \in Conn PROVE ConnInv(c)'
    BY <1>1 DEF RInv, ConnInv, connVars
<1> QED BY <1>3, <1>4 DEF RInv

LEMMA Restarted ==
    ASSUME RInv, Restart
    PROVE RInv'
<1>1. Shape'
    BY DEF RInv, Shape, Restart, Stage, Outcome
<1>2. ASSUME NEW c \in Conn PROVE ConnInv(c)'
    <2>1. ConnInv(c) /\ stage[c] \in Stage
        BY DEF RInv, Shape
    <2>2. /\ outcome'[c] \in {outcome[c], "closed"}
          /\ stage[c] = "new" => stage'[c] = "new" /\ outcome'[c] = outcome[c]
          /\ stage[c] # "new" => stage'[c] = "done"
        BY <2>1 DEF Restart, Stage
    <2>3. UNCHANGED <<peer[c], sess[c], origin[c], routes[c], request[c], call[c]>>
        BY DEF Restart
    <2>4. NeverBare(sess[c], origin[c], routes[c], request[c], outcome'[c])
        BY <2>1, <2>2 DEF ConnInv, NeverBare
    <2> QED BY <2>1, <2>2, <2>3, <2>4 DEF ConnInv, Stage
<1> QED BY <1>1, <1>2 DEF RInv

\* A step of one connection leaves the others alone.
LEMMA OneConnection ==
    ASSUME RInv, Shape', NEW c \in Conn, ConnInv(c)',
           \A d \in Conn \ {c} :
               UNCHANGED <<stage[d], peer[d], origin[d], sess[d], routes[d], request[d],
                           call[d], outcome[d]>>
    PROVE RInv'
<1>1. ASSUME NEW d \in Conn \ {c} PROVE ConnInv(d)'
    BY <1>1 DEF RInv, ConnInv
<1> QED BY <1>1 DEF RInv

LEMMA Connected ==
    ASSUME RInv, NEW c \in Conn, NEW p \in Session \cup {Stranger}, NEW o \in Origin,
           Connect(c, p, o)
    PROVE RInv'
<1>1. PICK token \in {p, None} \cap (Session \cup {None}), resolved \in BOOLEAN :
         LET s == ResolveSession(p, token, resolved)
             table == IF s = None THEN None ELSE registry[s]
         IN /\ sess' = [sess EXCEPT ![c] = s]
            /\ routes' = [routes EXCEPT ![c] = table]
            /\ IF o \in Plain \/ ManagesSessionOrigin(table, o)
               THEN stage' = [stage EXCEPT ![c] = "open"] /\ UNCHANGED outcome
               ELSE IF s # None /\ o \in LLM
               THEN \E end \in {"metered", "mismatch", "closed"} : End(c, end)
               ELSE End(c, "tunnelled")
    BY DEF Connect
<1> DEFINE s == ResolveSession(p, token, resolved)
           table == IF s = None THEN None ELSE registry[s]
<1>2. s \in Live \cup {None} /\ OwnSession(p, s)
    BY Attribution
<1> HIDE DEF s
<1>3. /\ s \in Session \cup {None} /\ table \in Tables \cup {None}
      /\ s = None <=> table = None
    BY <1>2, RoutingAssumption DEF RInv, Shape, Live
<1>4. /\ peer' = [peer EXCEPT ![c] = p] /\ origin' = [origin EXCEPT ![c] = o]
      /\ sess' = [sess EXCEPT ![c] = s] /\ routes' = [routes EXCEPT ![c] = table]
      /\ UNCHANGED <<registry, request, call>> /\ stage[c] = "new"
    BY <1>1 DEF Connect, daemonVars, s
<1> HIDE DEF table
<1>5. \/ stage' = [stage EXCEPT ![c] = "open"] /\ UNCHANGED outcome
      \/ /\ ~ManagesSessionOrigin(table, o)
         /\ \E end \in {"metered", "mismatch", "closed", "tunnelled"} : End(c, end)
    BY <1>1 DEF s, table
<1>6. Shape'
    BY <1>3, <1>4, <1>5 DEF RInv, Shape, Stage, Outcome, End
<1>7. ConnInv(c)'
    <2>1. ConnInv(c) /\ call[c] = None /\ outcome[c] = None
        BY <1>4 DEF RInv, ConnInv
    <2>2. /\ peer'[c] = p /\ origin'[c] = o /\ sess'[c] = s /\ routes'[c] = table
          /\ call'[c] = None
        BY <1>4, <2>1 DEF RInv, Shape
    <2>3. \/ stage'[c] = "open" /\ outcome'[c] = None
          \/ /\ ~ManagesSessionOrigin(table, o) /\ stage'[c] = "done"
             /\ outcome'[c] \in {"metered", "mismatch", "closed", "tunnelled"}
        BY <1>5, <2>1 DEF RInv, Shape, End
    <2>4. NeverBare(s, o, table, request'[c], outcome'[c])
        BY <1>3, <2>3, RoutingAssumption DEF NeverBare, ManagesSessionOrigin, Outcome
    <2>5. ActsWell(o, table, request'[c], None)
        BY DEF ActsWell
    <2> QED BY <1>2, <1>3, <2>2, <2>3, <2>4, <2>5 DEF ConnInv
<1>8. \A d \in Conn \ {c} :
         UNCHANGED <<stage[d], peer[d], origin[d], sess[d], routes[d], request[d],
                     call[d], outcome[d]>>
    BY <1>4, <1>5 DEF RInv, Shape, End
<1> QED BY <1>6, <1>7, <1>8, OneConnection

LEMMA Received ==
    ASSUME RInv, NEW c \in Conn, NEW req \in Request, Receive(c, req)
    PROVE RInv'
<1>1. Shape'
    BY DEF RInv, Shape, Stage, Receive, daemonVars
<1>2. ConnInv(c)'
    <2>1. ConnInv(c) /\ call[c] = None /\ outcome[c] = None
        BY DEF RInv, ConnInv, Receive
    <2>2. /\ stage'[c] = "flow" /\ call'[c] = None /\ outcome'[c] = None
          /\ UNCHANGED <<peer[c], origin[c], sess[c], routes[c]>>
        BY <2>1 DEF RInv, Shape, Receive
    <2>3. NeverBare(sess[c], origin[c], routes[c], request'[c], None)
        BY RoutingAssumption DEF NeverBare, Outcome
    <2>4. ActsWell(origin[c], routes[c], request'[c], None)
        BY DEF ActsWell
    <2> QED BY <2>1, <2>2, <2>3, <2>4 DEF ConnInv
<1>3. \A d \in Conn \ {c} :
         UNCHANGED <<stage[d], peer[d], origin[d], sess[d], routes[d], request[d],
                     call[d], outcome[d]>>
    BY DEF RInv, Shape, Receive
<1> QED BY <1>1, <1>2, <1>3, OneConnection

\* A connection ends in a way its session's routes allow.
LEMMA Ended ==
    ASSUME RInv, NEW c \in Conn, NEW end \in Outcome,
           End(c, end), UNCHANGED <<daemonVars, peer, origin, sess, routes, request, call>>,
           NeverBare(sess[c], origin[c], routes[c], request[c], end)
    PROVE RInv'
<1>1. Shape'
    BY DEF RInv, Shape, Stage, End, daemonVars
<1>2. ConnInv(c)'
    <2>1. stage'[c] = "done" /\ outcome'[c] = end
        BY DEF RInv, Shape, End
    <2> QED BY <2>1 DEF RInv, ConnInv
<1>3. \A d \in Conn \ {c} :
         UNCHANGED <<stage[d], peer[d], origin[d], sess[d], routes[d], request[d],
                     call[d], outcome[d]>>
    BY DEF RInv, Shape, End
<1> QED BY <1>1, <1>2, <1>3, OneConnection

\* Ends that are no way out.
LEMMA Harmless ==
    ASSUME NEW s, NEW o, NEW table, NEW req,
           NEW end \in Outcome \ {"tunnelled", "metered", "passed"}
    PROVE NeverBare(s, o, table, req, end)
BY DEF NeverBare

LEMMA Asked ==
    ASSUME RInv, NEW c \in Conn, NEW op, NEW r, NEW res, stage[c] = "flow",
           Asks(c, op, r, res),
           ActsWell(origin[c], routes[c], request[c], [op |-> op, route |-> r, resource |-> res])
    PROVE RInv'
<1>1. Shape'
    <2>1. call' = [d \in Conn |-> call'[d]]
        BY DEF RInv, Shape, Asks
    <2> QED BY <2>1 DEF RInv, Shape, Stage, Asks, daemonVars
<1>2. ConnInv(c)'
    <2>1. /\ stage'[c] = "calling" /\ UNCHANGED outcome[c]
          /\ call'[c] = [op |-> op, route |-> r, resource |-> res]
        BY DEF RInv, Shape, Asks
    <2> QED BY <2>1 DEF RInv, ConnInv, Asks
<1>3. \A d \in Conn \ {c} :
         UNCHANGED <<stage[d], peer[d], origin[d], sess[d], routes[d], request[d],
                     call[d], outcome[d]>>
    BY DEF RInv, Shape, Asks
<1> QED BY <1>1, <1>2, <1>3, OneConnection

LEMMA HandledFlow ==
    ASSUME RInv, NEW c \in Conn, Handle(c)
    PROVE RInv'
<1>1. /\ stage[c] = "flow" /\ ConnInv(c)
      /\ routes[c] \in Tables \cup {None}
    BY DEF RInv, Shape, Handle
<1>2. ASSUME NEW end \in Outcome, Handled(c, end),
             NeverBare(sess[c], origin[c], routes[c], request[c], end)
      PROVE RInv'
    BY <1>1, <1>2, Ended DEF Handled
<1>3. ASSUME NEW end \in Outcome \ {"tunnelled", "metered", "passed"}, Handled(c, end)
      PROVE RInv'
    BY <1>2, <1>3, Harmless
<1>4. CASE WithoutRoutes(c)
    <2>1. sess[c] = None
        BY <1>1, <1>4 DEF WithoutRoutes, FlowRoutes, ConnInv
    <2>2. CASE Handled(c, "passed")
        BY <1>2, <2>1, <2>2 DEF NeverBare, Outcome
    <2>3. CASE Handled(c, "malformed")
        BY <1>3, <2>3 DEF Outcome
    <2>4. CASE Asks(c, "authorize", None, None)
        BY <1>1, <2>4, Asked DEF ActsWell
    <2> QED BY <1>4, <2>2, <2>3, <2>4 DEF WithoutRoutes
<1>5. CASE NoRoute(c)
    <2>1. CASE origin[c] \notin ManagedOrigins(routes[c]) /\ Handled(c, "passed")
        BY <1>2, <2>1 DEF NeverBare, Outcome
    <2>2. CASE Handled(c, "no oauth") \/ Handled(c, "no route")
        BY <1>3, <2>2 DEF Outcome
    <2> QED BY <1>5, <2>1, <2>2 DEF NoRoute, FlowRoutes
<1>6. CASE AmbiguousRoute(c)
    BY <1>3, <1>6 DEF AmbiguousRoute, Outcome
<1>7. ASSUME NEW r \in Matches(c),
             \/ RouteUnavailable(c, r) \/ McpPassthrough(c, r) \/ NoMCPStream(c, r)
             \/ HandleMCPSession(c, r) \/ InvalidRequest(c, r) \/ NotSelected(c, r)
             \/ ResourceUnavailable(c, r) \/ Execute(c, r)
      PROVE RInv'
    <2>1. /\ routes[c] \in Tables
          /\ IsRoute(c, r) => RoutesFor(routes[c], origin[c], request[c].path) = {r}
        BY <1>1, <1>7 DEF Matches, FlowRoutes, IsRoute
    <2>2. CASE \/ RouteUnavailable(c, r) \/ NoMCPStream(c, r) \/ InvalidRequest(c, r)
               \/ NotSelected(c, r) \/ ResourceUnavailable(c, r)
        BY <1>3, <2>2 DEF RouteUnavailable, NoMCPStream, InvalidRequest, NotSelected,
                          ResourceUnavailable, Outcome
    <2>3. CASE McpPassthrough(c, r)
        BY <1>2, <2>1, <2>3, PassingIsHarmless DEF McpPassthrough, Outcome
    <2>4. CASE HandleMCPSession(c, r)
        <3>1. ActsWell(origin[c], routes[c], request[c],
                       [op |-> "relay", route |-> r, resource |-> None])
            BY DEF ActsWell
        <3> QED BY <1>1, <2>4, <3>1, Asked DEF HandleMCPSession
    <2>5. CASE Execute(c, r)
        <3>1. PICK t \in Targets(r, request[c]) : \E res \in Selected(r, t) :
                 res.ready /\ Asks(c, Op(r), r, res)
            BY <2>5 DEF Execute
        <3>2. PICK res \in Selected(r, t) : res.ready /\ Asks(c, Op(r), r, res)
            BY <3>1
        <3>3. RoutesFor(routes[c], origin[c], request[c].path) = {r} /\ r.ready
            BY <2>1, <2>5 DEF Execute, Governed
        <3>4. ActsWell(origin[c], routes[c], request[c],
                       [op |-> Op(r), route |-> r, resource |-> res])
            BY <2>1, <3>2, <3>3, TargetIsNamed
        <3> QED BY <1>1, <3>2, <3>4, Asked
    <2> QED BY <1>7, <2>2, <2>3, <2>4, <2>5
<1> QED BY <1>4, <1>5, <1>6, <1>7 DEF Handle

LEMMA Returned ==
    ASSUME RInv, NEW c \in Conn, Return(c)
    PROVE RInv'
<1>1. PICK end \in Granted(call[c].op) \cup Refused(call[c].op) : End(c, end)
    BY DEF Return
<1>2. end \in Outcome \ {"tunnelled", "metered", "passed"}
    BY DEF Granted, Refused, Outcome
<1> QED BY <1>1, <1>2, Harmless, Ended DEF Return

LEMMA RNext == RInv /\ [Next]_vars => RInv'
<1> SUFFICES ASSUME RInv, [Next]_vars PROVE RInv'
    OBVIOUS
<1>1. CASE \/ \E s \in Session, table \in Tables : SessionStart(s, table) \/ Renew(s, table)
           \/ \E s \in Session : SetOwner(s) \/ SessionEnd(s)
           \/ UNCHANGED vars
    BY <1>1, Registry
<1>2. CASE Restart
    BY <1>2, Restarted
<1>3. ASSUME NEW c \in Conn, NEW p \in Session \cup {Stranger}, NEW o \in Origin,
             Connect(c, p, o)
      PROVE RInv'
    BY <1>3, Connected
<1>4. ASSUME NEW c \in Conn, NEW req \in Request, Receive(c, req)
      PROVE RInv'
    BY <1>4, Received
<1>5. ASSUME NEW c \in Conn, ReceiveFails(c)
      PROVE RInv'
    <2>1. PICK end \in {"mismatch", "closed"} : End(c, end)
        BY <1>5 DEF ReceiveFails
    <2> QED BY <1>5, <2>1, Ended, Harmless DEF ReceiveFails, Outcome
<1>6. ASSUME NEW c \in Conn, Handle(c)
      PROVE RInv'
    BY <1>6, HandledFlow
<1>7. ASSUME NEW c \in Conn, Return(c)
      PROVE RInv'
    BY <1>7, Returned
<1> QED BY <1>1, <1>2, <1>3, <1>4, <1>5, <1>6, <1>7 DEF Next

\* Everything below is for any number of sessions and connections, any route
\* tables and any requests.
LEMMA Invariance == Spec => []RInv
BY RInit, RNext, PTL DEF Spec

\* Concurrent sessions stay apart: no connection is attributed to a session
\* other than that of its process.
THEOREM Isolation == Spec => []SessionsIsolated
<1>1. RInv => SessionsIsolated
    BY DEF RInv, ConnInv, OwnSession, SessionsIsolated
<1> QED BY <1>1, Invariance, PTL

\* What the routes of a session govern never leaves bare.
THEOREM NothingLeavesBare == Spec => []GovernedNeverLeavesBare
<1>1. RInv => GovernedNeverLeavesBare
    BY DEF RInv, ConnInv, GovernedNeverLeavesBare
<1> QED BY <1>1, Invariance, PTL

\* Only what is selected, ready and named by the request is acted upon.
THEOREM OnlySelected == Spec => []ActsOnSelected
<1>1. RInv => ActsOnSelected
    BY DEF RInv, ConnInv, ActsOnSelected
<1> QED BY <1>1, Invariance, PTL

-----------------------------------------------------------------------------
(* What is selected is found.                                                *)

\* Any set of numbers has a least one.
LEMMA Least ==
    ASSUME NEW T, T \subseteq Nat, T # {}
    PROVE  \E m \in T : \A k \in T : m <= k
<1>1. PICK m \in T : \A k \in T : <<k, m>> \notin OpToRel(<, Nat)
    BY WFMin, NatLessThanWellFounded, Zenon
<1>2. \A k \in T : ~(k < m)
    BY <1>1, Zenon DEF OpToRel
<1> QED BY <1>2

\* The loop over the resources finds one that carries the key, if one does.
LEMMA FirstIsFound ==
    ASSUME NEW table \in Tables, NEW r \in table, NEW t,
           NEW i \in DOMAIN r.resources, Carries(r.resources[i], t)
    PROVE  \E j \in DOMAIN r.resources :
               /\ Carries(r.resources[j], t)
               /\ r.resources[j] \in ResourceByKey(r, t)
<1> DEFINE T == {j \in DOMAIN r.resources : Carries(r.resources[j], t)}
<1>1. DOMAIN r.resources = 1 .. Len(r.resources) /\ Len(r.resources) \in Nat
    BY RoutingAssumption
<1>2. PICK j \in T : \A k \in T : j <= k
    <2>1. T \subseteq Nat /\ T # {}
        BY <1>1
    <2> HIDE DEF T
    <2> QED BY <2>1, Least
<1>3. \A k \in 1 .. j - 1 : ~Carries(r.resources[k], t)
    BY <1>1, <1>2
<1> QED BY <1>2, <1>3 DEF ResourceByKey

\* The target of the request is on the route, and nothing else answers to its key.
Identifies(t, r, req) ==
    /\ Targets(r, req) = {t}
    /\ \E j \in DOMAIN r.resources : Carries(r.resources[j], t)
    /\ \A j \in DOMAIN r.resources : Carries(r.resources[j], t) =>
          /\ r.resources[j].kind = t.kind
          /\ r.mode # "provider_executor" => r.resources[j].external = t.value

\* For a resource that the request names, the router looks for a key that only
\* resources like it carry.
LEMMA NamedIsTarget ==
    ASSUME NEW table \in Tables, NEW r \in table, KeysIdentify(r), NEW req,
           req.body.kind \in {"none", "object"},
           NEW i \in DOMAIN r.resources, Names(req, r, r.resources[i])
    PROVE  \E t : Identifies(t, r, req)
<1>1. ~MetadataError(req)
    BY DEF MetadataError
<1>2. CASE r.mode = "provider_executor" /\ r.provider = "github"
    <2>1. /\ Len(req.path) >= 3 /\ req.path[1] = "repos"
          /\ \E key \in r.resources[i].keys :
                Folded(key[2]) = Folded(<<req.path[2], req.path[3]>>)
        BY <1>2 DEF Names
    <2> DEFINE full == <<req.path[2], req.path[3]>>
    <2>2. PICK key \in r.resources[i].keys : Folded(key[2]) = Folded(full)
        BY <2>1
    <2>3. /\ \A j \in DOMAIN r.resources : r.resources[j].kind = "github.repository"
          /\ key[1] = "github.full_name"
          /\ \A n \in DOMAIN key[2], bad \in BadSegment : Lower[key[2][n]] # Lower[bad]
        BY <1>2 DEF KeysIdentify, RepositoryKeys, ChannelKeys
    <2>4. /\ DOMAIN key[2] = {1, 2}
          /\ Lower[key[2][1]] = Lower[req.path[2]] /\ Lower[key[2][2]] = Lower[req.path[3]]
        <3>1. DOMAIN Folded(key[2]) = DOMAIN key[2] /\ DOMAIN Folded(full) = {1, 2}
            BY DEF Folded
        <3>2. DOMAIN key[2] = {1, 2}
            BY <2>2, <3>1
        <3>3. \A n \in {1, 2} : Lower[key[2][n]] = Lower[full[n]]
            BY <2>2, <3>1, <3>2 DEF Folded
        <3> QED BY <3>2, <3>3
    <2>5. GithubRepositoryPath(req.path)
        BY <2>1, <2>3, <2>4 DEF GithubRepositoryPath
    <2> DEFINE t == [kind |-> "github.repository", type |-> "github.full_name",
                     value |-> full, fold |-> TRUE]
    <2>6. Targets(r, req) = {t}
        BY <1>1, <1>2, <2>5 DEF Targets, ProviderTarget, Target
    <2>7. Carries(r.resources[i], t)
        BY <2>2, <2>3 DEF Carries
    <2>8. Identifies(t, r, req)
        BY <1>2, <2>3, <2>6, <2>7 DEF Identifies
    <2> QED BY <2>8
<1>3. CASE r.mode = "provider_executor" /\ r.provider # "github"
    <2>1. r.provider = "slack" /\ \E key \in r.resources[i].keys : key[2] = <<Channel(req)>>
        BY <1>3 DEF Names, KeysIdentify, RepositoryKeys, ChannelKeys
    <2>2. PICK key \in r.resources[i].keys : key[2] = <<Channel(req)>>
        BY <2>1
    <2>3. /\ \A j \in DOMAIN r.resources : r.resources[j].kind = "slack.channel"
          /\ key[1] = "slack.channel_id" /\ Channel(req) # None
        BY <1>3, <2>1, <2>2 DEF KeysIdentify, RepositoryKeys, ChannelKeys
    <2> DEFINE t == [kind |-> "slack.channel", type |-> "slack.channel_id",
                     value |-> <<Channel(req)>>, fold |-> FALSE]
    <2>4. Targets(r, req) = {t}
        BY <1>1, <1>3, <2>1, <2>3 DEF Targets, ProviderTarget, Target
    <2>5. Carries(r.resources[i], t)
        BY <2>2, <2>3 DEF Carries
    <2>6. Identifies(t, r, req)
        BY <1>3, <2>3, <2>4, <2>5 DEF Identifies
    <2> QED BY <2>6
<1>4. CASE r.mode # "provider_executor"
    <2> DEFINE tool == MCPMethod(req) = "tools/call"
               kind == IF tool THEN "mcp.tool" ELSE "mcp.resource"
               type == IF tool THEN "mcp.tool_name" ELSE "mcp.resource_uri"
               t == [kind |-> kind, type |-> type, value |-> <<req.body.target>>, fold |-> FALSE]
    <2>1. /\ MCPAction(req) /\ MCPRequestID(req)
          /\ r.resources[i].external = <<req.body.target>> /\ r.resources[i].kind = kind
        BY <1>4 DEF Names, MCPRequestID
    <2>2. Targets(r, req) = {t}
        BY <1>1, <1>4, <2>1 DEF Targets, MCPTarget, Target
    <2>3. /\ \E j \in DOMAIN r.resources : Carries(r.resources[j], OwnKey(r.resources[i]))
          /\ \A j \in DOMAIN r.resources : Carries(r.resources[j], OwnKey(r.resources[i])) =>
                r.resources[j].kind = kind /\ r.resources[j].external = <<req.body.target>>
        BY <1>4, <2>1 DEF KeysIdentify, ExternalKeys
    <2>4. \A res : Carries(res, t) <=> Carries(res, OwnKey(r.resources[i]))
        BY <2>1 DEF Carries, OwnKey
    <2>5. Identifies(t, r, req)
        BY <2>2, <2>3, <2>4 DEF Identifies
    <2> QED BY <2>5
<1> QED BY <1>2, <1>3, <1>4

\* So the router selects a resource.
LEMMA NamedIsSelected ==
    ASSUME NEW table \in Tables, NEW r \in table, KeysIdentify(r), NEW req,
           req.body.kind \in {"none", "object"},
           NEW i \in DOMAIN r.resources, Names(req, r, r.resources[i])
    PROVE  Targets(r, req) # {} /\ \A t \in Targets(r, req) : Selected(r, t) # {}
<1>1. PICK t : Identifies(t, r, req)
    BY NamedIsTarget
<1>2. PICK j \in DOMAIN r.resources :
         Carries(r.resources[j], t) /\ r.resources[j] \in ResourceByKey(r, t)
    <2>1. PICK k \in DOMAIN r.resources : Carries(r.resources[k], t)
        BY <1>1 DEF Identifies
    <2> QED BY <2>1, FirstIsFound
<1>3. r.resources[j] \in Selected(r, t)
    BY <1>1, <1>2 DEF Identifies, Selected
<1> QED BY <1>1, <1>3 DEF Identifies

Unserved == {"malformed", "not selected"}
Served(o, table, req, end) ==
    end \in Unserved /\ table # None /\ req.body.kind \in {"none", "object"} =>
        \A r \in RoutesFor(table, o, req.path) :
            \A i \in DOMAIN r.resources : ~Names(req, r, r.resources[i])

ServedInv == \A c \in Conn : Served(origin[c], routes[c], request[c], outcome[c])

\* An end other than for want of a resource, or the end it had.
LEMMA ServedOtherwise ==
    ASSUME ServedInv,
           \A c \in Conn : \/ outcome'[c] \notin Unserved
                          \/ UNCHANGED <<origin[c], routes[c], request[c], outcome[c]>>
    PROVE  ServedInv'
BY DEF ServedInv, Served

LEMMA ServedEnd ==
    ASSUME RInv, ServedInv, NEW c \in Conn, NEW end,
           End(c, end), UNCHANGED <<origin, routes, request>>,
           Served(origin[c], routes[c], request[c], end)
    PROVE  ServedInv'
BY DEF RInv, Shape, ServedInv, End

LEMMA ServedFlow ==
    ASSUME RInv, ServedInv, NEW c \in Conn, Handle(c),
           \A table \in Tables : \A r \in table : KeysIdentify(r)
    PROVE  ServedInv'
<1>1. ASSUME NEW end, end \notin Unserved, Handled(c, end)
      PROVE ServedInv'
    BY <1>1, ServedEnd DEF Handled, Served
<1>2. CASE \E op, r, res : Asks(c, op, r, res)
    BY <1>2, ServedOtherwise DEF Asks
<1>3. CASE WithoutRoutes(c)
    <2>1. CASE \E end : Handled(c, end)
        BY <1>3, <2>1, ServedEnd DEF WithoutRoutes, FlowRoutes, Handled, Served
    <2> QED BY <1>2, <1>3, <2>1 DEF WithoutRoutes
<1>4. CASE NoRoute(c) \/ AmbiguousRoute(c)
    BY <1>1, <1>4 DEF NoRoute, AmbiguousRoute, Unserved
<1>5. ASSUME NEW r \in Matches(c),
             \/ RouteUnavailable(c, r) \/ McpPassthrough(c, r) \/ NoMCPStream(c, r)
             \/ HandleMCPSession(c, r) \/ InvalidRequest(c, r) \/ NotSelected(c, r)
             \/ ResourceUnavailable(c, r) \/ Execute(c, r)
      PROVE ServedInv'
    <2>1. CASE \/ RouteUnavailable(c, r) \/ McpPassthrough(c, r) \/ NoMCPStream(c, r)
               \/ ResourceUnavailable(c, r)
        BY <1>1, <2>1 DEF RouteUnavailable, McpPassthrough, NoMCPStream,
                          ResourceUnavailable, Unserved
    <2>2. CASE HandleMCPSession(c, r) \/ Execute(c, r)
        BY <1>2, <2>2 DEF HandleMCPSession, Execute
    <2>3. CASE InvalidRequest(c, r) \/ NotSelected(c, r)
        <3>1. /\ routes[c] \in Tables /\ r \in routes[c]
              /\ RoutesFor(routes[c], origin[c], request[c].path) = {r}
            BY <1>5, <2>3 DEF RInv, Shape, Matches, FlowRoutes, RoutesFor, IsRoute, Governed,
                              InvalidRequest, NotSelected
        <3>2. \/ Targets(r, request[c]) = {}
              \/ \E t \in Targets(r, request[c]) : Selected(r, t) = {}
            BY <2>3 DEF InvalidRequest, NotSelected
        <3>3. ASSUME NEW end PROVE Served(origin[c], routes[c], request[c], end)
            BY <3>1, <3>2, NamedIsSelected DEF Served
        <3> QED BY <2>3, <3>3, ServedEnd DEF InvalidRequest, NotSelected, Handled
    <2> QED BY <1>5, <2>1, <2>2, <2>3
<1> QED BY <1>3, <1>4, <1>5 DEF Handle

LEMMA ServedNext ==
    ASSUME RInv, ServedInv, [Next]_vars,
           \A table \in Tables : \A r \in table : KeysIdentify(r)
    PROVE  ServedInv'
<1>1. CASE \/ \E s \in Session, table \in Tables : SessionStart(s, table) \/ Renew(s, table)
           \/ \E s \in Session : SetOwner(s) \/ SessionEnd(s)
           \/ UNCHANGED vars
    BY <1>1, ServedOtherwise DEF SessionStart, SetOwner, Renew, SessionEnd, vars, connVars
<1>2. CASE Restart
    <2>1. \A c \in Conn : outcome'[c] \in {outcome[c], "closed"}
        BY <1>2 DEF Restart
    <2>2. UNCHANGED <<origin, routes, request>>
        BY <1>2 DEF Restart
    <2> QED BY <2>1, <2>2, ServedOtherwise DEF Unserved
<1>3. ASSUME NEW c \in Conn, NEW p \in Session \cup {Stranger}, NEW o \in Origin,
             Connect(c, p, o)
      PROVE ServedInv'
    <2>1. outcome[c] = None
        BY <1>3 DEF RInv, ConnInv, Connect
    <2>2. \/ UNCHANGED outcome
          \/ \E end \in {"metered", "mismatch", "closed", "tunnelled"} : End(c, end)
        BY <1>3 DEF Connect
    <2>3. \A d \in Conn \ {c} : UNCHANGED <<origin[d], routes[d], request[d], outcome[d]>>
        BY <1>3, <2>2 DEF RInv, Shape, Connect, End
    <2>4. outcome'[c] \notin Unserved
        BY <2>1, <2>2, RoutingAssumption DEF RInv, Shape, End, Unserved, Outcome
    <2> QED BY <2>3, <2>4, ServedOtherwise
<1>4. ASSUME NEW c \in Conn, NEW req \in Request, Receive(c, req)
      PROVE ServedInv'
    <2>1. outcome'[c] = None
        BY <1>4 DEF RInv, ConnInv, Receive
    <2>2. \A d \in Conn \ {c} : UNCHANGED <<origin[d], routes[d], request[d], outcome[d]>>
        BY <1>4 DEF RInv, Shape, Receive
    <2> QED BY <2>1, <2>2, ServedOtherwise, RoutingAssumption DEF Unserved, Outcome
<1>5. ASSUME NEW c \in Conn, ReceiveFails(c)
      PROVE ServedInv'
    BY <1>5, ServedEnd DEF ReceiveFails, Served, Unserved
<1>6. ASSUME NEW c \in Conn, Handle(c)
      PROVE ServedInv'
    BY <1>6, ServedFlow
<1>7. ASSUME NEW c \in Conn, Return(c)
      PROVE ServedInv'
    <2>1. PICK end \in Granted(call[c].op) \cup Refused(call[c].op) : End(c, end)
        BY <1>7 DEF Return
    <2>2. end \notin Unserved
        BY <2>1 DEF Granted, Refused, Unserved
    <2> QED BY <1>7, <2>1, <2>2, ServedEnd DEF Return, Served
<1> QED BY <1>1, <1>2, <1>3, <1>4, <1>5, <1>6, <1>7 DEF Next

\* A resource that the session has selected and the request names is found, wherever
\* it stands among the others, if the keys of every route identify its resources.
THEOREM SelectedIsFound ==
    ASSUME \A table \in Tables : \A r \in table : KeysIdentify(r)
    PROVE  Spec => []SelectedIsServed
<1>1. Init => ServedInv
    BY RoutingAssumption DEF Init, ServedInv, Served, Unserved, Outcome
<1>2. RInv /\ ServedInv /\ [Next]_vars => ServedInv'
    BY ServedNext
<1>3. ServedInv => SelectedIsServed
    BY DEF ServedInv, Served, Unserved, SelectedIsServed
<1> QED BY <1>1, <1>2, <1>3, Invariance, PTL DEF Spec

=============================================================================
