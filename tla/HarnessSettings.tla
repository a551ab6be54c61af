--------------------------- MODULE HarnessSettings ---------------------------
(***************************************************************************)
(* The edits that init, deinit and reset make to the files of the agent    *)
(* harnesses, as operators on the files' contents: Claude Code's settings  *)
(* (sandbox block, hooks, environment), its list of MCP servers, Codex's   *)
(* hooks.json and config.toml.  Every file is shared with the user, whose  *)
(* own entries are to survive every sequence of edits.                     *)
(*                                                                         *)
(* A JSON key that is absent is None; a block whose keys are all absent is *)
(* the same as no block, and an event without groups the same as no event  *)
(* (the harness does not tell them apart).  A hook's matcher, its timeout  *)
(* and the order of entries are left out.                                  *)
(***************************************************************************)
EXTENDS FiniteSets

CONSTANTS
  Handler,          \* hook commands, the user's and Keydris's
  KeydrisHandler,   \* those whose executable is keydris
  Port,             \* proxy ports
  Domain,           \* names a sandbox may reach
  EnvKey,           \* environment variables
  CAEnvKeys,        \* those that point tools at a CA bundle
  Path,             \* what those variables may hold
  Server,           \* names of MCP servers
  Url,              \* where they are
  MacOS,            \* Configure runs on macOS
  None              \* an absent key

ASSUME HarnessAssumption ==
  /\ KeydrisHandler \subseteq Handler
  /\ CAEnvKeys \subseteq EnvKey
  /\ MacOS \in BOOLEAN
  /\ None \notin {"true", "false"} \cup Port \cup Path \cup Url
  /\ \A D \in SUBSET Domain : None # D

Event == {"SessionStart", "SessionEnd", "PreToolUse", "PermissionRequest", "Other"}

\* A matcher group is the set of the handlers in it.
Hooks == [Event -> SUBSET SUBSET Handler]
Env == [EnvKey -> Path \cup {None}]
Switch == {"true", "false", None}
Domains == (SUBSET Domain) \cup {None}
\* "legacyDomains" is sandbox.allowedDomains, where early releases wrote them;
\* "other" stands for the user's own keys of the block.
Sandbox == [enabled: Switch, failIfUnavailable: Switch,
            allowUnsandboxedCommands: Switch, enableWeakerNetworkIsolation: Switch,
            httpProxyPort: Port \cup {None}, allowedDomains: Domains,
            legacyDomains: Domains, other: Switch]
Settings == [sandbox: Sandbox, hooks: Hooks, env: Env]

\* What Configure writes and Deconfigure removes.
Options == [port: Port, domains: SUBSET Domain, ca: Path, strict: BOOLEAN,
            start: KeydrisHandler, end: KeydrisHandler, pre: KeydrisHandler]

NoSandbox == [enabled |-> None, failIfUnavailable |-> None,
              allowUnsandboxedCommands |-> None, enableWeakerNetworkIsolation |-> None,
              httpProxyPort |-> None, allowedDomains |-> None,
              legacyDomains |-> None, other |-> None]
EmptySettings == [sandbox |-> NoSandbox, hooks |-> [e \in Event |-> {}],
                  env |-> [k \in EnvKey |-> None]]

-----------------------------------------------------------------------------
(* Hooks.  A handler of Keydris is taken out of the group it is in; a group *)
(* that this empties goes, one that the user left empty stays.              *)

StripKeydrisHandlers(groups) ==
  {g \in groups : g \cap KeydrisHandler = {}}
    \cup ({g \ KeydrisHandler : g \in {g \in groups : g \cap KeydrisHandler # {}}} \ {{}})

MergeEvent(hooks, event, command) ==
  [hooks EXCEPT ![event] = StripKeydrisHandlers(@) \cup {{command}}]

MergeHooks(hooks, start, end) ==
  MergeEvent(MergeEvent(hooks, "SessionStart", start), "SessionEnd", end)

MergePreToolUseHook(hooks, command) == MergeEvent(hooks, "PreToolUse", command)

\* Mutant: all hooks of an event go.
DropEvents(hooks, events) ==
  [e \in Event |-> IF e \in events THEN {} ELSE hooks[e]]

StripEvents(hooks, events) ==
  [e \in Event |-> IF e \in events THEN StripKeydrisHandlers(hooks[e]) ELSE hooks[e]]

UnmergeKeydrisHooks(hooks) ==
  StripEvents(hooks, {"SessionStart", "SessionEnd", "PreToolUse"})

\* Codex's hooks.json holds hooks only of earlier releases.
DeconfigureCodexHooks(hooks) ==
  StripEvents(hooks, {"PreToolUse", "PermissionRequest", "SessionStart"})

HasKeydrisHooks(hooks) ==
  \E e \in Event \ {"Other"} : \E g \in hooks[e] : g \cap KeydrisHandler # {}

-----------------------------------------------------------------------------
(* The sandbox block. *)

\* The union with what is there; the user's own names stay.
MergeStringSet(existing, extra) ==
  (IF existing = None THEN {} ELSE existing) \cup extra

MergeDomains(sb, domains) ==
  LET existing == IF sb.legacyDomains = None THEN sb.allowedDomains
                  ELSE MergeStringSet(sb.allowedDomains, sb.legacyDomains)
  IN  IF domains # {} THEN MergeStringSet(existing, domains) ELSE existing

MergeSandbox(sb, opt) ==
  [enabled |-> "true",
   failIfUnavailable |-> IF opt.strict THEN "true" ELSE sb.failIfUnavailable,
   allowUnsandboxedCommands |-> IF opt.strict THEN "false" ELSE sb.allowUnsandboxedCommands,
   enableWeakerNetworkIsolation |-> IF MacOS THEN "true" ELSE sb.enableWeakerNetworkIsolation,
   httpProxyPort |-> opt.port,
   allowedDomains |-> MergeDomains(sb, opt.domains),
   legacyDomains |-> None,
   other |-> sb.other]

\* A list that this empties goes with its key.
RemoveStrings(existing, drop) ==
  IF existing = None THEN None
  ELSE IF existing \cap drop = {} THEN existing
  ELSE IF existing \subseteq drop THEN None
  ELSE existing \ drop

OnlyDisabled(sb) == sb \in {NoSandbox, [NoSandbox EXCEPT !.enabled = "false"]}

StripSandbox(sb, opt) ==
  [enabled |-> IF sb.enabled = "true" THEN "false" ELSE sb.enabled,
   failIfUnavailable |-> None,
   allowUnsandboxedCommands |-> None,
   enableWeakerNetworkIsolation |-> None,
   httpProxyPort |-> IF sb.httpProxyPort = opt.port THEN None ELSE sb.httpProxyPort,
   allowedDomains |-> RemoveStrings(sb.allowedDomains, opt.domains),
   legacyDomains |-> RemoveStrings(sb.legacyDomains, opt.domains),
   other |-> sb.other]

\* A block with nothing else in it than that it is off goes as a whole.
UnmergeSandbox(sb, opt) ==
  IF OnlyDisabled(StripSandbox(sb, opt)) THEN NoSandbox ELSE StripSandbox(sb, opt)

-----------------------------------------------------------------------------
(* The environment block, and the file as a whole. *)

MergeCAEnv(env, ca) == [k \in EnvKey |-> IF k \in CAEnvKeys THEN ca ELSE env[k]]

UnmergeCAEnv(env, ca) ==
  [k \in EnvKey |-> IF k \in CAEnvKeys /\ env[k] = ca THEN None ELSE env[k]]

Configure(s, opt) ==
  [sandbox |-> MergeSandbox(s.sandbox, opt),
   hooks |-> MergePreToolUseHook(MergeHooks(s.hooks, opt.start, opt.end), opt.pre),
   env |-> MergeCAEnv(s.env, opt.ca)]

Deconfigure(s, opt) ==
  [sandbox |-> UnmergeSandbox(s.sandbox, opt),
   hooks |-> UnmergeKeydrisHooks(s.hooks),
   env |-> UnmergeCAEnv(s.env, opt.ca)]

\* What init checks last and status reports: enforcement is intact.
EventHasCommand(groups, command) == \E g \in groups : command \in g

VerifyOK(s, opt) ==
  /\ s.sandbox.enabled = "true"
  /\ s.sandbox.httpProxyPort = opt.port
  /\ s.sandbox.failIfUnavailable = "true"
  /\ s.sandbox.allowUnsandboxedCommands = "false"
  /\ EventHasCommand(s.hooks["SessionStart"], opt.start)
  /\ EventHasCommand(s.hooks["SessionEnd"], opt.end)
  /\ EventHasCommand(s.hooks["PreToolUse"], opt.pre)

-----------------------------------------------------------------------------
(* MCP servers: a table from names to addresses, and the names that Keydris *)
(* wrote last time.  Claude Code keeps both in one JSON object; Codex keeps *)
(* a TOML section per server, a marker comment, and a feature flag without  *)
(* which it ignores the servers.                                            *)

McpConfig == [servers: [Server -> Url \cup {None}], managed: SUBSET Server, rmcp: BOOLEAN]

\* governed: the servers of the policy, [Server -> Url \cup {None}]
Governed(policy) == {n \in Server : policy[n] # None}

ConfigureMcpServers(config, policy) ==
  [config EXCEPT
    !.servers = [n \in Server |-> IF n \in Governed(policy) THEN policy[n]
                                  ELSE IF n \in config.managed THEN None ELSE @[n]],
    !.managed = Governed(policy)]

RemoveManagedMcpServers(config) ==
  [config EXCEPT
    !.servers = [n \in Server |-> IF n \in config.managed THEN None ELSE @[n]],
    !.managed = {}]

\* The flag is set with the first server and stays.
ConfigureCodexMcpServers(doc, policy) ==
  [ConfigureMcpServers(doc, policy) EXCEPT !.rmcp = @ \/ Governed(policy) # {}]

RemoveManagedCodexMcpServers(doc) == RemoveManagedMcpServers(doc)

-----------------------------------------------------------------------------
(* What belongs to the user in a file. *)

UserHandlers(s) == [e \in Event |-> (UNION s.hooks[e]) \ KeydrisHandler]

NamesIn(domains) == IF domains = None THEN {} ELSE domains
UserDomains(s, opt) ==
  (NamesIn(s.sandbox.allowedDomains) \cup NamesIn(s.sandbox.legacyDomains)) \ opt.domains

UserEnv(s) == [k \in EnvKey \ CAEnvKeys |-> s.env[k]]

UserPart(s, opt) ==
  [handlers |-> UserHandlers(s), domains |-> UserDomains(s, opt),
   env |-> UserEnv(s), other |-> s.sandbox.other]

UserServers(config, policyNames) ==
  [n \in Server \ policyNames |-> IF n \in config.managed THEN None ELSE config.servers[n]]

\* Nothing of Keydris is left that an agent or a tool would act on.
Untraced(s, opt) ==
  /\ \A e \in {"SessionStart", "SessionEnd", "PreToolUse"} :
       \A g \in s.hooks[e] : g \cap KeydrisHandler = {}
  /\ \A k \in CAEnvKeys : s.env[k] # opt.ca
  /\ s.sandbox.enabled # "true"
  /\ s.sandbox.httpProxyPort # opt.port

\* The user has set nothing that Configure overwrites: a file as init usually
\* finds it, with hooks, variables and sandbox settings of other kinds.
Ordinary(s, opt) ==
  /\ \A e \in Event : \A g \in s.hooks[e] : g \cap KeydrisHandler = {}
  /\ \A k \in CAEnvKeys : s.env[k] = None
  /\ s.sandbox.httpProxyPort = None
  /\ s.sandbox.failIfUnavailable = None
  /\ s.sandbox.allowUnsandboxedCommands = None
  /\ s.sandbox.enableWeakerNetworkIsolation = None
  /\ s.sandbox.legacyDomains = None
  /\ NamesIn(s.sandbox.allowedDomains) \cap opt.domains = {}
  /\ s.sandbox.allowedDomains # {}
  /\ s.sandbox = NoSandbox \/ (s.sandbox.enabled = "false" /\ ~OnlyDisabled(s.sandbox))
=============================================================================
