--------------------------- MODULE RequestRouting ---------------------------
(***************************************************************************)
(* The sandbox data plane and the runtime router: a connection is attributed  *)
(* to a session, its origin is governed or not by the routes that session had *)
(* then, and a request on it is classified, matched with one route and        *)
(* rejected, passed on, answered or sent through the control plane.           *)
(*                                                                           *)
(* A path is the sequence of its segments: "/" is <<"">>, "/a/" is <<"a","">>. *)
(* How a call of the control plane is answered is in ApprovalWait, what the   *)
(* broker decides in FlowEnforcement; a connection carries one request.       *)
(***************************************************************************)
EXTENDS Naturals, Sequences, SequencesExt

CONSTANTS
    Session, Conn, Origin, None,
    Tables,      \* the route tables the control plane may serve
    Request,     \* the requests a client may send
    Plain,       \* origins reached by http://, whose request is not tunnelled
    LLM,         \* metered origins
    BadSegment,  \* path segments that name no owner or repository
    Discovery,   \* last segments of OAuth and OpenID metadata documents
    Lower,       \* the lower case of each segment of a routing value
    Stranger,    \* a client outside every session
    AllowSole,   \* attribute a connection without token to the only session
    VerifyPeer,  \* peer verification is enforced, and the platform supports it
    MaxRestarts  \* bound: restarts of the daemon

Mode == {"provider_executor", "mcp_gateway", "mcp_kit_reader"}

\* What becomes of a connection.
Outcome ==
    {"tunnelled", "metered", "mismatch", "closed", "passed", "no oauth", "no stream",
     "no route", "ambiguous route", "malformed", "not selected", "unavailable",
     "answered", "injected", "refused"}

\* Validate refuses routes of another mode; resources are a list.
ASSUME RoutingAssumption ==
    /\ Plain \subseteq Origin /\ LLM \subseteq Origin \ Plain
    /\ AllowSole \in BOOLEAN /\ VerifyPeer \in BOOLEAN
    /\ MaxRestarts \in Nat /\ Stranger \notin Session
    /\ None \notin Session /\ None \notin Tables /\ None \notin Request
    /\ None \notin Outcome
    /\ \A table \in Tables : \A r \in table :
         /\ r.mode \in Mode
         /\ r.resources \in Seq({r.resources[i] : i \in DOMAIN r.resources})

SessionMethods ==
    {"initialize", "notifications/initialized", "ping", "server/discover",
     "tools/list", "resources/list", "prompts/list"}

Lifecycle ==
    SessionMethods \cup
    {"prompts/get", "resources/templates/list", "resources/subscribe",
     "resources/unsubscribe", "completion/complete", "logging/setLevel",
     "notifications/cancelled", "notifications/progress",
     "notifications/roots/list_changed"}

-----------------------------------------------------------------------------
(* Routes.                                                                   *)

Covers(prefix, path) ==
    LET stem == IF Last(prefix) = "" THEN Front(prefix) ELSE prefix
    IN prefix = <<"">> \/ path = prefix \/ IsStrictPrefix(stem, path)

RoutesFor(table, origin, path) ==
    {r \in table : \E m \in r.matchers : m.origin = origin /\ Covers(m.prefix, path)}

ManagedOrigins(table) == UNION {{m.origin : m \in r.matchers} : r \in table}

Folded(value) == [i \in DOMAIN value |-> Lower[value[i]]]

\* Mutant: an exact comparison for every provider.
CarriesExactly(res, target) == <<target.type, target.value>> \in res.keys

Carries(res, target) ==
    \E key \in res.keys :
        /\ key[1] = target.type
        /\ key[2] = target.value \/ (target.fold /\ Folded(key[2]) = Folded(target.value))

\* The first resource that carries the key of the target, if one does.
ResourceByKey(route, target) ==
    {route.resources[i] : i \in
        {j \in DOMAIN route.resources :
            /\ Carries(route.resources[j], target)
            /\ \A k \in 1 .. j - 1 : ~Carries(route.resources[k], target)}}

-----------------------------------------------------------------------------
(* What is read from a request.  A body is "none" (or not JSON by its type), *)
(* "ambiguous" (invalid, too long, a repeated key), an "object" or "other".  *)

MetadataError(req) == req.body.kind = "ambiguous"

MCPMethod(req) == IF req.body.kind = "object" THEN req.body.method ELSE ""

\* A tools/call or a resources/read that names its target.
MCPAction(req) ==
    MCPMethod(req) \in {"tools/call", "resources/read"} /\ req.body.target # None

MCPRequestID(req) ==
    req.body.id /\ (MCPAction(req) \/ MCPMethod(req) \in SessionMethods)

\* The parameters of an action replace the body, for a provider as well.
Channel(req) ==
    IF req.body.kind # "object" THEN None
    ELSE IF ~MCPAction(req) THEN req.body.channel
    ELSE IF MCPMethod(req) = "tools/call" THEN req.body.argument
    ELSE None

Target(kind, type, value, fold) ==
    {[kind |-> kind, type |-> type, value |-> value, fold |-> fold]}

GithubRepositoryPath(path) ==
    Len(path) >= 3 /\ path[1] = "repos" /\ {path[2], path[3]} \cap BadSegment = {}

ProviderTarget(route, req) ==
    IF req.body.kind = "other" THEN {}
    ELSE IF route.provider = "github" /\ GithubRepositoryPath(req.path)
    THEN Target("github.repository", "github.full_name", <<req.path[2], req.path[3]>>, TRUE)
    ELSE IF route.provider = "slack" /\ Channel(req) # None
    THEN Target("slack.channel", "slack.channel_id", <<Channel(req)>>, FALSE)
    ELSE {}

MCPTarget(req) ==
    IF ~MCPAction(req) \/ ~MCPRequestID(req) THEN {}
    ELSE IF MCPMethod(req) = "tools/call"
    THEN Target("mcp.tool", "mcp.tool_name", <<req.body.target>>, FALSE)
    ELSE Target("mcp.resource", "mcp.resource_uri", <<req.body.target>>, FALSE)

\* At most one.
Targets(route, req) ==
    IF MetadataError(req) THEN {}
    ELSE IF route.mode = "provider_executor" THEN ProviderTarget(route, req)
    ELSE MCPTarget(req)

\* Mutant: whatever carries the key will do.
SelectedByKey(route, target) == ResourceByKey(route, target)

Selected(route, target) ==
    {res \in ResourceByKey(route, target) :
        /\ res.kind = target.kind
        /\ route.mode # "provider_executor" => res.external = target.value}

McpPassthroughReason(route, req) ==
    /\ route.mode # "provider_executor" /\ ~route.auth
    /\ \/ req.method \in {"GET", "HEAD", "DELETE"} /\ MCPMethod(req) = ""
       \/ MCPMethod(req) \in Lifecycle

-----------------------------------------------------------------------------
VARIABLES
    registry,  \* session -> its routes
    owned,     \* its process is known, so that peers can be verified
    scope,     \* the origins the daemon manages without a session's routes
    saved,     \* the scope file
    restarts,
    stage,     \* where each connection is
    peer,      \* whose it is
    origin, sess, routes,   \* its destination, session and that session's routes
    request, call, outcome  \* its request, what the control plane is asked, the end

daemonVars == <<registry, owned, scope, saved, restarts>>
vars == <<daemonVars, stage, peer, origin, sess, routes, request, call, outcome>>

Init ==
    /\ registry = [s \in Session |-> None] /\ owned = [s \in Session |-> FALSE]
    /\ scope = Origin /\ saved = Origin  \* no file yet: everything is managed
    /\ restarts = 0
    /\ stage = [c \in Conn |-> "new"]
    /\ peer = [c \in Conn |-> None]
    /\ origin = [c \in Conn |-> None]
    /\ sess = [c \in Conn |-> None]
    /\ routes = [c \in Conn |-> None]
    /\ request = [c \in Conn |-> None]
    /\ call = [c \in Conn |-> None]
    /\ outcome = [c \in Conn |-> None]

Live == {s \in Session : registry[s] # None}

connVars == <<stage, peer, origin, sess, routes, request, call, outcome>>

\* The session hook refreshes the scope file, best effort, and registers; it does
\* not say yet which process the session belongs to.
SessionStart(s, table) ==
    /\ registry[s] = None
    /\ registry' = [registry EXCEPT ![s] = table]
    /\ owned' = [owned EXCEPT ![s] = FALSE]
    /\ saved' \in {saved, ManagedOrigins(table)}
    /\ UNCHANGED <<scope, restarts, connVars>>

\* The process is told in a message of its own, that may fail.
SetOwner(s) ==
    /\ registry[s] # None
    /\ owned' = [owned EXCEPT ![s] = TRUE]
    /\ UNCHANGED <<registry, scope, saved, restarts, connVars>>

\* A renewal writes back the owner that was known when it began.
Renew(s, table) ==
    /\ registry[s] # None
    /\ registry' = [registry EXCEPT ![s] = table]
    /\ owned' \in {owned, [owned EXCEPT ![s] = FALSE]}
    /\ UNCHANGED <<scope, saved, restarts, connVars>>

SessionEnd(s) ==
    /\ registry[s] # None
    /\ registry' = [registry EXCEPT ![s] = None]
    /\ owned' = [owned EXCEPT ![s] = FALSE]
    /\ UNCHANGED <<scope, saved, restarts, connVars>>

\* The scope is read once, when the daemon starts.
Restart ==
    /\ restarts < MaxRestarts
    /\ restarts' = restarts + 1
    /\ registry' = [s \in Session |-> None] /\ owned' = [s \in Session |-> FALSE]
    /\ scope' = saved
    /\ stage' = [c \in Conn |-> IF stage[c] = "new" THEN "new" ELSE "done"]
    /\ outcome' = [c \in Conn |-> IF stage[c] \in {"new", "done"} THEN outcome[c] ELSE "closed"]
    /\ UNCHANGED <<saved, peer, origin, sess, routes, request, call>>

-----------------------------------------------------------------------------
(* Attribution, and what becomes of a CONNECT.                               *)

\* Mutant: an unknown token falls back to the only session.
MatchLoosely(token) ==
    IF token \in Live THEN token
    ELSE IF \E s \in Session : Live = {s} THEN CHOOSE s \in Session : Live = {s} ELSE None

MatchSession(token) ==
    CASE token \in Live -> token
      [] token = None /\ AllowSole /\ (\E s \in Session : Live = {s}) ->
            CHOOSE s \in Session : Live = {s}
      [] OTHER -> None

\* The process of the connection belongs to the session's; it may not be told.
Admits(p, s, resolved) == ~VerifyPeer \/ ~owned[s] \/ (resolved /\ p = s)

ResolveSession(p, token, resolved) ==
    LET s == MatchSession(token)
    IN IF s # None /\ Admits(p, s, resolved) THEN s ELSE None

\* Mutant: the scope decides first, as on the transparent plane.
ManagesByScope(table, o) == o \in scope /\ (table = None \/ o \in ManagedOrigins(table))

ManagesSessionOrigin(table, o) ==
    IF table # None THEN o \in ManagedOrigins(table) ELSE o \in scope

End(c, o) ==
    /\ stage' = [stage EXCEPT ![c] = "done"]
    /\ outcome' = [outcome EXCEPT ![c] = o]

\* A client connects for origin o, with its session's token or without one.
\* (A http:// request is read first, which nothing else can see.)
Connect(c, p, o) ==
    /\ stage[c] = "new"
    /\ \E token \in {p, None} \cap (Session \cup {None}), resolved \in BOOLEAN :
         LET s == ResolveSession(p, token, resolved)
             table == IF s = None THEN None ELSE registry[s]
         IN /\ sess' = [sess EXCEPT ![c] = s]
            /\ routes' = [routes EXCEPT ![c] = table]
            /\ IF o \in Plain \/ ManagesSessionOrigin(table, o)
               THEN stage' = [stage EXCEPT ![c] = "open"] /\ UNCHANGED outcome
               ELSE IF s # None /\ o \in LLM
               THEN \E end \in {"metered", "mismatch", "closed"} : End(c, end)
               ELSE End(c, "tunnelled")
    /\ peer' = [peer EXCEPT ![c] = p]
    /\ origin' = [origin EXCEPT ![c] = o]
    /\ UNCHANGED <<daemonVars, request, call>>

\* The request may name another authority, or the handshake fail.
Receive(c, req) ==
    /\ stage[c] = "open"
    /\ request' = [request EXCEPT ![c] = req]
    /\ stage' = [stage EXCEPT ![c] = "flow"]
    /\ UNCHANGED <<daemonVars, peer, origin, sess, routes, call, outcome>>

ReceiveFails(c) ==
    /\ stage[c] = "open"
    /\ \E end \in {"mismatch", "closed"} : End(c, end)
    /\ UNCHANGED <<daemonVars, peer, origin, sess, routes, request, call>>

-----------------------------------------------------------------------------
(* handleFlow and the router.                                                *)

\* Mutant: the routes of the session now.
CurrentRoutes(c) == IF sess[c] = None THEN None ELSE registry[sess[c]]

FlowRoutes(c) == routes[c]

Matches(c) ==
    IF FlowRoutes(c) = None THEN {}
    ELSE RoutesFor(FlowRoutes(c), origin[c], request[c].path)

Handled(c, o) ==
    /\ End(c, o)
    /\ UNCHANGED <<daemonVars, peer, origin, sess, routes, request, call>>

\* The control plane is asked for op, on behalf of the flow's session.
Asks(c, op, route, res) ==
    /\ stage' = [stage EXCEPT ![c] = "calling"]
    /\ call' = [call EXCEPT ![c] = [op |-> op, route |-> route, resource |-> res]]
    /\ UNCHANGED <<daemonVars, peer, origin, sess, routes, request, outcome>>

\* Without routes, the scope decides; the broker is asked about what it manages.
WithoutRoutes(c) ==
    /\ FlowRoutes(c) = None
    /\ \/ origin[c] \notin scope /\ Handled(c, "passed")
       \/ origin[c] \in scope /\ MetadataError(request[c]) /\ Handled(c, "malformed")
       \/ origin[c] \in scope /\ ~MetadataError(request[c]) /\ Asks(c, "authorize", None, None)

OAuthDiscovery(path) ==
    \/ Len(path) >= 2 /\ path[1] = ".well-known" /\ path[2] \in Discovery
    \/ \E i \in DOMAIN path : path[i] = "register"

NoRoute(c) ==
    /\ FlowRoutes(c) # None /\ Matches(c) = {}
    /\ IF origin[c] \notin ManagedOrigins(FlowRoutes(c)) THEN Handled(c, "passed")
       ELSE IF OAuthDiscovery(request[c].path) THEN Handled(c, "no oauth")
       ELSE Handled(c, "no route")

AmbiguousRoute(c) ==
    /\ \E r, q \in Matches(c) : r # q
    /\ Handled(c, "ambiguous route")

IsRoute(c, r) == Matches(c) = {r}

RouteUnavailable(c, r) ==
    IsRoute(c, r) /\ ~r.ready /\ Handled(c, "unavailable")

McpPassthrough(c, r) ==
    /\ IsRoute(c, r) /\ r.ready /\ McpPassthroughReason(r, request[c])
    /\ Handled(c, "passed")

\* A message that authorizes nothing, to a server that needs the credential.
Relays(c, r) ==
    /\ IsRoute(c, r) /\ r.ready /\ r.mode = "mcp_gateway"
    /\ ~McpPassthroughReason(r, request[c])
    /\ MCPMethod(request[c]) \in SessionMethods

HandleMCPSession(c, r) == Relays(c, r) /\ Asks(c, "relay", r, None)

NoMCPStream(c, r) ==
    /\ IsRoute(c, r) /\ r.ready /\ r.mode = "mcp_gateway"
    /\ ~McpPassthroughReason(r, request[c]) /\ MCPMethod(request[c]) = ""
    /\ Handled(c, "no stream")

\* What is left is an action, and needs a target.
Governed(c, r) ==
    /\ IsRoute(c, r) /\ r.ready /\ ~McpPassthroughReason(r, request[c])
    /\ r.mode = "mcp_gateway" =>
           MCPMethod(request[c]) \notin SessionMethods \cup {""}

InvalidRequest(c, r) ==
    /\ Governed(c, r) /\ Targets(r, request[c]) = {}
    /\ Handled(c, "malformed")

NotSelected(c, r) ==
    /\ Governed(c, r)
    /\ \E t \in Targets(r, request[c]) : Selected(r, t) = {}
    /\ Handled(c, "not selected")

ResourceUnavailable(c, r) ==
    /\ Governed(c, r)
    /\ \E t \in Targets(r, request[c]) : \E res \in Selected(r, t) : ~res.ready
    /\ Handled(c, "unavailable")

Op(r) == IF r.mode = "mcp_kit_reader" THEN "mint" ELSE "execute"

Execute(c, r) ==
    /\ Governed(c, r)
    /\ \E t \in Targets(r, request[c]) : \E res \in Selected(r, t) :
         res.ready /\ Asks(c, Op(r), r, res)

Handle(c) ==
    /\ stage[c] = "flow"
    /\ \/ WithoutRoutes(c) \/ NoRoute(c) \/ AmbiguousRoute(c)
       \/ \E r \in Matches(c) :
            \/ RouteUnavailable(c, r) \/ McpPassthrough(c, r) \/ NoMCPStream(c, r)
            \/ HandleMCPSession(c, r) \/ InvalidRequest(c, r) \/ NotSelected(c, r)
            \/ ResourceUnavailable(c, r) \/ Execute(c, r)

\* Mutant: a call that fails lets the request pass as it is.
FailsOpen(op) == {"passed"}

\* The ends of a call that is granted: an injected request leaves for its
\* server, unless its _meta cannot carry the token.
Granted(op) ==
    CASE op = "mint" -> {"injected", "closed"}
      [] op = "authorize" -> {"injected"}
      [] OTHER -> {"answered"}

\* It may be denied, fail or not be answered in time.
Refused(op) == {"refused"}

Return(c) ==
    /\ stage[c] = "calling"
    /\ \E end \in Granted(call[c].op) \cup Refused(call[c].op) : End(c, end)
    /\ UNCHANGED <<daemonVars, peer, origin, sess, routes, request, call>>

Next ==
    \/ \E s \in Session, table \in Tables : SessionStart(s, table) \/ Renew(s, table)
    \/ \E s \in Session : SetOwner(s) \/ SessionEnd(s)
    \/ Restart
    \/ \E c \in Conn :
         \/ \E p \in Session \cup {Stranger}, o \in Origin : Connect(c, p, o)
         \/ \E req \in Request : Receive(c, req)
         \/ ReceiveFails(c) \/ Handle(c) \/ Return(c)

Spec == Init /\ [][Next]_vars

-----------------------------------------------------------------------------
(* Properties.                                                               *)

\* Concurrent sessions stay apart (matchSession): a connection is attributed to
\* nobody or to the session of its own process, whatever other sessions end,
\* renew or start meanwhile - unless the fallback to the only session is on.
SessionsIsolated ==
    ~AllowSole => \A c \in Conn : sess[c] \in {None, peer[c]}

\* A ready MCP route without upstream credential, which alone lets a request
\* leave unchanged, and only a message that authorizes nothing.
LeavesUnchanged(r, req) ==
    /\ r.ready /\ r.mode \in {"mcp_gateway", "mcp_kit_reader"} /\ ~r.auth
    /\ \/ MCPMethod(req) \in Lifecycle
       \/ req.method \in {"GET", "HEAD", "DELETE"} /\ MCPMethod(req) = ""

NeverBare(s, o, table, req, end) ==
    s # None /\ o \in ManagedOrigins(table) =>
        /\ end \notin {"tunnelled", "metered"}
        /\ end = "passed" =>
             \E r \in table : RoutesFor(table, o, req.path) = {r} /\ LeavesUnchanged(r, req)

\* What a session's routes govern never leaves as the client sent it, whatever
\* the scope file says, whether the origin is metered, however the session's
\* routes change between CONNECT and request, and whatever becomes of a call
\* (managesSessionOrigin, handle).
GovernedNeverLeavesBare ==
    \A c \in Conn : NeverBare(sess[c], origin[c], routes[c], request[c], outcome[c])

\* The request names the resource, by the identifiers of its provider.
Names(req, r, res) ==
    IF r.mode = "provider_executor"
    THEN CASE r.provider = "github" ->
                /\ Len(req.path) >= 3 /\ req.path[1] = "repos"
                /\ \E key \in res.keys : Folded(key[2]) = Folded(<<req.path[2], req.path[3]>>)
           [] OTHER -> \E key \in res.keys : key[2] = <<Channel(req)>>
    ELSE /\ MCPAction(req) /\ req.body.id
         /\ res.external = <<req.body.target>>
         /\ res.kind = (IF MCPMethod(req) = "tools/call" THEN "mcp.tool" ELSE "mcp.resource")

ActsWell(o, table, req, asked) ==
    asked # None /\ asked.op \in {"execute", "mint"} =>
        LET r == asked.route
            res == asked.resource
        IN /\ ~MetadataError(req)
           /\ RoutesFor(table, o, req.path) = {r} /\ r.ready
           /\ \E i \in DOMAIN r.resources : r.resources[i] = res
           /\ res.ready /\ Names(req, r, res)

\* The control plane is asked to act only on a ready resource selected for the
\* session that the request names without ambiguity, through the only route
\* that covers its path, and that route is ready.
ActsOnSelected ==
    \A c \in Conn : ActsWell(origin[c], routes[c], request[c], call[c])

\* What routing keys are for (Validate only asks that they are not empty): those of a
\* provider's resources are of its type and name something; and the key made of an
\* MCP resource's external id is there, and belongs to that resource.
RepositoryKeys(r) ==
    /\ r.provider = "github"
    /\ \A i \in DOMAIN r.resources :
          /\ r.resources[i].kind = "github.repository"
          /\ \A key \in r.resources[i].keys :
                /\ key[1] = "github.full_name"
                /\ \A n \in DOMAIN key[2], bad \in BadSegment : Lower[key[2][n]] # Lower[bad]

ChannelKeys(r) ==
    /\ r.provider = "slack"
    /\ \A i \in DOMAIN r.resources :
          /\ r.resources[i].kind = "slack.channel"
          /\ \A key \in r.resources[i].keys : key[1] = "slack.channel_id" /\ key[2] # <<None>>

OwnKey(res) ==
    [type |-> IF res.kind = "mcp.tool" THEN "mcp.tool_name" ELSE "mcp.resource_uri",
     value |-> res.external, fold |-> FALSE]

ExternalKeys(r) ==
    \A i \in DOMAIN r.resources : r.resources[i].kind \in {"mcp.tool", "mcp.resource"} =>
        LET carriers == {j \in DOMAIN r.resources : Carries(r.resources[j], OwnKey(r.resources[i]))}
        IN /\ carriers # {}
           /\ \A j \in carriers : /\ r.resources[j].kind = r.resources[i].kind
                                  /\ r.resources[j].external = r.resources[i].external

KeysIdentify(r) ==
    IF r.mode = "provider_executor" THEN RepositoryKeys(r) \/ ChannelKeys(r) ELSE ExternalKeys(r)

\* A selected resource is found: a request with an object or nothing for a body
\* that names a resource of its route, in whatever case the provider accepts, is
\* neither malformed nor unselected.
SelectedIsServed ==
    \A c \in Conn :
        (/\ outcome[c] \in {"malformed", "not selected"} /\ routes[c] # None
         /\ request[c].body.kind \in {"none", "object"})
        => \A r \in RoutesFor(routes[c], origin[c], request[c].path) :
                \A i \in DOMAIN r.resources : ~Names(request[c], r, r.resources[i])

=============================================================================
