-------------------------- MODULE MCRequestRouting --------------------------
(* Small instances of RequestRouting for TLC: route tables of every mode, and *)
(* requests that exercise every case of the router.                          *)
EXTENDS RequestRouting, TLC

CONSTANTS s1, s2, c1

Res(type, value, kind, ready) ==
    [keys |-> {<<type, value>>}, kind |-> kind, external |-> value, ready |-> ready]

Repo(name, ready) == Res("github.full_name", <<"org", name>>, "github.repository", ready)
Tool(name, ready) == Res("mcp.tool_name", <<name>>, "mcp.tool", ready)

\* A resource that answers to the name of a tool.
Alias == [Tool("tool2", TRUE) EXCEPT !.kind = "mcp.resource", !.external = <<"uri">>]

Route(id, provider, o, prefix, mode, auth, ready, resources) ==
    [id |-> id, provider |-> provider, matchers |-> {[origin |-> o, prefix |-> prefix]},
     mode |-> mode, auth |-> auth, ready |-> ready, resources |-> resources]

GitHub == Route("r1", "github", "git", <<"">>, "provider_executor", FALSE, TRUE,
                <<Repo("repo", TRUE), Repo("old", FALSE)>>)
Issues == Route("r2", "github", "git", <<"repos", "org", "">>, "provider_executor", FALSE, TRUE,
                <<Repo("repo", TRUE)>>)
Slack == Route("r3", "slack", "chat", <<"api", "">>, "provider_executor", FALSE, TRUE,
               <<Res("slack.channel_id", <<"C1">>, "slack.channel", TRUE)>>)
MCPOf(id, mode, auth, ready) ==
    Route(id, "mcp", "mcp", <<"mcp">>, mode, auth, ready,
          <<Tool("tool1", TRUE), Alias, Tool("tool3", FALSE),
            Res("mcp.resource_uri", <<"uri">>, "mcp.resource", TRUE)>>)

\* A gateway alone; and an MCP server whose tools are read directly, one that needs a
\* credential, one that is not ready, and a repository that two routes cover.
GatewayTable == {MCPOf("r4", "mcp_gateway", FALSE, TRUE)}
FullTable ==
    {GitHub, Issues, Slack, MCPOf("r5", "mcp_kit_reader", FALSE, TRUE),
     [MCPOf("r6", "mcp_gateway", TRUE, TRUE) EXCEPT !.matchers =
        {[origin |-> "mcp", prefix |-> <<"auth">>]}],
     [MCPOf("r7", "mcp_gateway", FALSE, FALSE) EXCEPT !.matchers =
        {[origin |-> "mcp", prefix |-> <<"down">>]}]}
AllTables == {GatewayTable, FullTable}

NoBody == [kind |-> "none"]
Ambiguous == [kind |-> "ambiguous"]
List == [kind |-> "other"]
Plainly(channel) ==
    [kind |-> "object", method |-> "", target |-> None, id |-> FALSE,
     channel |-> channel, argument |-> None]
Rpc(method, target, id) ==
    [kind |-> "object", method |-> method, target |-> target, id |-> id,
     channel |-> "C2", argument |-> "C1"]

Bodies ==
    {NoBody, Ambiguous, List, Plainly(None), Plainly("C1"), Plainly("C2"),
     Rpc("initialize", None, TRUE), Rpc("prompts/get", None, TRUE), Rpc("unknown", None, TRUE),
     Rpc("tools/call", None, TRUE), Rpc("tools/call", "tool1", FALSE),
     Rpc("tools/call", "tool1", TRUE), Rpc("tools/call", "tool2", TRUE),
     Rpc("tools/call", "tool3", TRUE), Rpc("tools/call", "tool4", TRUE),
     Rpc("resources/read", "uri", TRUE)}

Req(method, path, body) == [method |-> method, path |-> path, body |-> body]

ToolCall == Rpc("tools/call", "tool1", TRUE)

AllRequests ==
    {Req("POST", p, b) : b \in Bodies, p \in {<<"mcp">>, <<"auth">>, <<"api", "post">>}}
    \cup {Req("GET", p, b) : b \in {NoBody, Ambiguous, Rpc("initialize", None, TRUE), ToolCall},
             p \in {<<"mcp">>, <<"auth">>}}
    \cup {Req("POST", p, ToolCall) : p \in {<<"mcp", "x">>, <<"mcpx">>, <<"down">>}}
    \cup {Req("GET", p, NoBody) :
             p \in {<<"repos", "org", "repo">>, <<"repos", "ORG", "repo", "issues">>,
                    <<"repos", "org", "old">>, <<"repos", "ORG", "old">>,
                    <<"repos", "org", "other">>, <<"repos", "ORG", "other">>,
                    <<"repos", "", "repo">>, <<"">>, <<".well-known", "oauth-server">>,
                    <<"oauth", "register">>}}
    \cup {Req("POST", <<"repos", "ORG", "repo">>, b) : b \in {Ambiguous, List}}

Segments == {"org", "ORG", "repo", "old", "other", "tool1", "tool2", "tool3", "tool4",
             "uri", "C1", "C2", ""}
LowerCase == [x \in Segments |-> IF x = "ORG" THEN "org" ELSE x]

\* What RequestRoutingProofs asks of the tables.
ASSUME KeysAssumption == \A table \in Tables : \A r \in table : KeysIdentify(r)

\* Sessions are interchangeable.
Symmetry == Permutations(Session)
=============================================================================
