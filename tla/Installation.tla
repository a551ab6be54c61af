----------------------------- MODULE Installation -----------------------------
(***************************************************************************)
(* What "keydris init", "deinit" and "reset" leave on a machine: the       *)
(* settings of the agent harnesses, the agent and the identity that all    *)
(* integrations share, the certificate authority with its bundle and its   *)
(* place in the trust stores, and the settings that the launcher of Claude *)
(* Desktop changes for as long as the app runs.  A setup command runs      *)
(* beside that launcher, beside sessions that start, beside daemons that   *)
(* start and stop and beside sign-ins.  Every step may fail, every process *)
(* may be killed between any two, and a write that a kill or an error cuts *)
(* short leaves an emptied file.                                           *)
(*                                                                         *)
(* ProxyControl has the daemon and the session secret in detail; here a    *)
(* daemon is the CA that it loads or creates.  LoginIdentity has signing   *)
(* in; here it is one step.                                                *)
(***************************************************************************)
EXTENDS HarnessSettings, Naturals

CONSTANTS
  Integrations,   \* targets that the commands are given
  Opt,            \* what this installation configures, one of Options
  Policies,       \* what a policy may govern: [Server -> Url \cup {None}]
  UserSettings,   \* Claude Code's settings as the user may have left them
  UserServer,     \* the user's own MCP servers: [Server -> Url \cup {None}]
  LegacyHooks,    \* Codex hooks that an earlier release may have written
  Torn,           \* a file that a write cut short left empty
  MaxRuns,        \* bound: commands, launches, sessions and sign-ins
  MaxCrossed,     \* bound: the same, once creators of a CA have overlapped
  MaxKills        \* bound: processes killed or stopped by a write cut short

\* claude-desktop/settings.json, and what a launcher finds and records.
DesktopSettings == [hooks : BOOLEAN, proxied : BOOLEAN]
Found == [desktop : {None} \cup DesktopSettings, pin : BOOLEAN]

ASSUME InstallationAssumption ==
  /\ Integrations \subseteq {"claude-code", "codex", "claude-desktop", "codex-desktop"}
  /\ Opt \in Options /\ UserSettings \subseteq Settings /\ LegacyHooks \in Hooks
  /\ MaxRuns \in Nat /\ MaxCrossed \in Nat /\ MaxKills \in Nat
  /\ Torn # None /\ None \notin Nat /\ Torn \notin Nat
  /\ None \notin {"init", "deinit", "reset"}
  /\ None \notin DesktopSettings \cup Found /\ Torn \notin Found
  \* Keydris has not run yet; what releases wrote; nobody's name for a server is
  \* a policy's.
  /\ \A s \in UserSettings :
       ~HasKeydrisHooks(s.hooks) /\ \A k \in CAEnvKeys : s.env[k] # Opt.ca
  /\ \A g \in LegacyHooks["SessionEnd"] : g \cap KeydrisHandler = {}
  /\ UserServer \in [Server -> Url \cup {None}] /\ Policies \subseteq [Server -> Url \cup {None}]
  /\ \A policy \in Policies : \A n \in Server : None \in {policy[n], UserServer[n]}

VARIABLES
  claude,             \* Claude Code's settings.json
  claudeMcp, codexMcp,    \* the harnesses' lists of MCP servers
  codexHooks,         \* Codex's hooks.json
  desktop,            \* claude-desktop/settings.json: None or what is in it
  dirs,               \* codex and codex-desktop, which exist or not
  creds,              \* agent-id, identity
  undone,             \* history: what a process brought back behind a command's back
  cert, key, bundle,  \* ca.crt, ca.key, ca-bundle.crt: the CA they are of
  trusted,            \* the CAs in a trust store
  daemon,             \* the CA that the running daemon signs with
  dpc, dca,           \* a daemon that creates its CA: the file it writes, the CA
  fresh,              \* the CA that init creates
  guard,              \* .reset-in-progress
  op, pc, target, shared, plan,   \* the setup command
  lpc, previous,      \* the launcher, and what it found
  app,                \* Claude Desktop runs
  spc, sca,           \* a session that starts, and the CA it has read
  pin,                \* its egress proxy is pinned
  record,             \* claude-desktop-launch.json
  runs, kills, made,  \* made: CAs generated so far
  before,             \* history: the user's part of the settings
  emptied,            \* history: a write cut short emptied them
  halted,             \* history: a reset stopped between two deletions
  kept,               \* history: a reset was told to keep the trust
  crossed,            \* history: two creators of a CA overlapped, a reset a third, or
                      \* one stopped between ca.crt and an old ca.key
  leaked              \* history: see LaunchPin, LaunchRecord, KillLauncher, ResetDelete

claudeVars == <<claude, before, emptied>>
harnessVars == <<claudeMcp, codexMcp, codexHooks, dirs>>
credVars == <<creds, undone>>
daemonVars == <<daemon, dpc, dca>>
caVars == <<cert, key, bundle, trusted, daemonVars, made, fresh, crossed, kept>>
cmdVars == <<op, pc, target, shared, plan>>
launchVars == <<lpc, previous, app>>
sessionVars == <<spc, sca>>
procVars == <<launchVars, sessionVars>>
desktopVars == <<desktop, pin, record, leaked>>
vars == <<claudeVars, harnessVars, credVars, caVars, guard, cmdVars, procVars,
          desktopVars, runs, kills, halted>>

\* Files of the data directory, in the order in which reset deletes them.
DataFiles == <<"agent-id", "ca-bundle.crt", "ca.crt", "ca.key", "claude-desktop",
               "claude-desktop-launch.json", "codex", "codex-desktop", "identity">>

NoDesktop == [hooks |-> FALSE, proxied |-> FALSE]

Init ==
  /\ claude \in UserSettings /\ before = UserPart(claude, Opt) /\ emptied = FALSE
  /\ claudeMcp = [servers |-> UserServer, managed |-> {}, rmcp |-> FALSE]
  /\ codexMcp = claudeMcp
  /\ \/ codexHooks = EmptySettings.hooks /\ creds = {}
     \/ codexHooks = LegacyHooks /\ creds = {"agent-id", "identity"}
  /\ desktop = None /\ dirs = {}
  /\ cert = None /\ key = None /\ bundle = None /\ trusted = {} /\ fresh = None
  /\ daemon = None /\ dpc = "idle" /\ dca = None /\ crossed = FALSE /\ undone = {}
  /\ spc = "idle" /\ sca = None
  /\ guard = FALSE
  /\ op = None /\ pc = "idle" /\ target = None /\ shared = FALSE /\ plan = {}
  /\ lpc = "idle" /\ previous = None /\ app = FALSE /\ pin = FALSE /\ record = None
  /\ runs = 0 /\ kills = 0 /\ made = 0
  /\ halted = FALSE /\ kept = FALSE /\ leaked = FALSE

-----------------------------------------------------------------------------
(* What the commands see and share. *)

ClaudeConfigured == HasKeydrisHooks(claude.hooks)
DesktopConfigured == desktop # None /\ desktop.hooks

Configured(t) ==
  CASE t = "claude-code" -> ClaudeConfigured
    [] t = "codex" -> "codex" \in dirs \/ HasKeydrisHooks(codexHooks)
    [] t = "claude-desktop" -> DesktopConfigured
    [] t = "codex-desktop" -> "codex-desktop" \in dirs

\* Mutant: the desktop integrations are forgotten.
OtherTerminalsRemain(t) == \E other \in {"claude-code", "codex"} \ {t} : Configured(other)

OtherIntegrationsRemain(t) ==
  \E other \in {"claude-code", "codex", "claude-desktop", "codex-desktop"} \ {t} : Configured(other)

IdentityReady == {"agent-id", "identity"} \subseteq creds

Whole(file) == file \notin {None, Torn}

\* What is left of the desktop settings by a restore that may fail.
Rewritten(was) == {desktop, was} \cup (IF was = None THEN {} ELSE {NoDesktop})

\* The record of a launcher that is gone: the desktop settings and the pin go
\* back to what they were, then the record goes, or stays after an error.
FinishDesktopLaunch ==
  desktop' = record.desktop /\ pin' = record.pin /\ record' = None /\ UNCHANGED leaked

FinishFails ==
  /\ desktop' \in Rewritten(record.desktop) /\ pin' \in {pin, record.pin}
  /\ UNCHANGED <<record, leaked>>

\* Every command begins with this, and goes on if it fails.
LeftBehind == Whole(record) /\ lpc = "idle"
SweepDesktopLaunch ==
  IF LeftBehind THEN FinishDesktopLaunch \/ FinishFails ELSE UNCHANGED desktopVars

\* A process starts.
Another == runs < (IF crossed THEN MaxCrossed ELSE MaxRuns) /\ runs' = runs + 1

\* The setup command ends, done or not; reset's guard goes with it.
Return ==
  /\ op' = None /\ pc' = "idle" /\ target' = None /\ shared' = FALSE /\ plan' = {}
  /\ guard' = IF op = "reset" THEN FALSE ELSE guard

Go(stage) == pc' = stage /\ UNCHANGED <<op, target, shared, plan, guard>>

Begin(o, t, stage) ==
  /\ op = None /\ Another
  /\ op' = o /\ target' = t /\ pc' = stage
  /\ UNCHANGED guard

-----------------------------------------------------------------------------
(* The certificate authority. *)

\* A CA of which a file is missing is made anew; one that does not parse is an
\* error.
CAMissing == None \in {cert, key}
CALoads == Whole(cert) /\ Whole(key)

\* A file that another process is writing reads as empty.
ReadCert ==
  {cert} \cup (IF (op = "init" /\ pc = "ca_cert") \/ dpc = "cert" THEN {Torn} ELSE {})

\* Mutant: a bundle that is there is good enough.
BuildCABundleOnce ==
  cert # None /\ bundle' \in IF bundle = None THEN ReadCert ELSE {bundle}

\* A certificate that does not parse is copied as it is.
BuildCABundle == cert # None /\ bundle' \in ReadCert

\* Linux has one place for the CA, macOS a keychain.
InstallTrustStore(stores) ==
  trusted' = {e \in trusted : e[1] \notin stores} \cup (stores \X {cert})

\* By the fingerprint of ca.crt; the system keychain is not searched.
RemoveTrustStore == trusted' = trusted \ {<<"login", cert>>}

\* A daemon loads the CA when it starts, or generates one and writes ca.crt, then
\* ca.key.  Any other process may look, or do the same, in between.
ProxyUp ==
  /\ daemon = None /\ dpc = "idle" /\ ~guard
  /\ \/ CALoads /\ daemon' = cert /\ UNCHANGED <<dpc, dca, made, crossed>>
     \/ /\ CAMissing
        /\ made' = made + 1 /\ dca' = made + 1 /\ dpc' = "cert" /\ UNCHANGED daemon
        /\ crossed' = (crossed \/ (op = "init" /\ pc \in {"ca_cert", "ca_key"}))
  /\ UNCHANGED <<claudeVars, harnessVars, credVars, cert, key, bundle, trusted, fresh, kept,
                 guard, cmdVars, procVars, desktopVars, runs, kills, halted>>

DaemonCert ==
  /\ dpc = "cert" /\ dpc' = "key" /\ cert' = dca
  /\ UNCHANGED <<claudeVars, harnessVars, credVars, key, bundle, trusted, daemon, dca, made,
                 fresh, crossed, kept, guard, cmdVars, procVars, desktopVars, runs, kills, halted>>

DaemonKey ==
  /\ dpc = "key" /\ key' = dca
  /\ dpc' = "idle" /\ dca' = None /\ daemon' = dca
  /\ UNCHANGED <<claudeVars, harnessVars, credVars, cert, bundle, trusted, made, fresh, crossed,
                 kept, guard, cmdVars, procVars, desktopVars, runs, kills, halted>>

ProxyDown ==
  /\ daemon # None /\ daemon' = None
  /\ UNCHANGED <<claudeVars, harnessVars, credVars, cert, key, bundle, trusted, dpc, dca, made,
                 fresh, crossed, kept, guard, cmdVars, procVars, desktopVars, runs, kills, halted>>

-----------------------------------------------------------------------------
(* init *)

Stop == Return /\ UNCHANGED <<claudeVars, harnessVars, credVars, caVars, procVars,
                              desktopVars, runs, kills, halted>>

At(o, stage) == op = o /\ pc = stage

InitBegin(t) ==
  /\ Begin("init", t, "identity")
  /\ ~guard
  /\ SweepDesktopLaunch
  /\ creds' = creds \cup {"agent-id"}
  /\ UNCHANGED <<undone, claudeVars, harnessVars, caVars, shared, plan, procVars, kills, halted>>

InitIdentity ==
  /\ At("init", "identity")
  /\ \/ creds' = creds \cup {"identity"} /\ undone' = undone \ {"identity"} /\ Go("ca")
     \/ ~IdentityReady /\ UNCHANGED credVars /\ Return
  /\ UNCHANGED <<claudeVars, harnessVars, caVars, procVars, desktopVars, runs, kills, halted>>

\* init looks before it generates and writes; so does a daemon.
LoadOrCreateCA ==
  /\ At("init", "ca")
  /\ \/ CALoads /\ UNCHANGED <<made, fresh>> /\ Go("bundle")
     \/ CAMissing /\ made' = made + 1 /\ fresh' = made + 1 /\ Go("ca_cert")
     \/ ~CALoads /\ ~CAMissing /\ UNCHANGED <<made, fresh>> /\ Return
  /\ crossed' = (crossed \/ dpc # "idle")
  /\ UNCHANGED <<claudeVars, harnessVars, credVars, cert, key, bundle, trusted, daemonVars, kept,
                 procVars, desktopVars, runs, kills, halted>>

InitCACert ==
  /\ At("init", "ca_cert")
  /\ cert' = fresh /\ Go("ca_key")
  /\ UNCHANGED <<claudeVars, harnessVars, credVars, key, bundle, trusted, daemonVars, made, fresh,
                 crossed, kept, procVars, desktopVars, runs, kills, halted>>

InitCAKey ==
  /\ At("init", "ca_key")
  /\ key' = fresh /\ fresh' = None /\ Go("bundle")
  /\ UNCHANGED <<claudeVars, harnessVars, credVars, cert, bundle, trusted, daemonVars, made,
                 crossed, kept, procVars, desktopVars, runs, kills, halted>>

InitBundle ==
  /\ At("init", "bundle")
  /\ BuildCABundle
  /\ undone' = undone \ {"ca-bundle.crt"}
  /\ Go("configure")
  /\ UNCHANGED <<claudeVars, harnessVars, creds, cert, key, trusted, daemonVars, made, fresh,
                 crossed, kept, procVars, desktopVars, runs, kills, halted>>

ConfigureClaudeDesktop ==
  desktop' = [hooks |-> TRUE, proxied |-> desktop # None /\ desktop.proxied]

InitConfigure ==
  /\ At("init", "configure")
  /\ IF target = "claude-code" THEN claude' = Configure(claude, Opt) ELSE UNCHANGED claude
  /\ IF target = "codex" THEN codexHooks' = DeconfigureCodexHooks(codexHooks)
     ELSE UNCHANGED codexHooks
  /\ IF target = "claude-desktop" THEN ConfigureClaudeDesktop ELSE UNCHANGED desktop
  /\ dirs' = dirs \cup ({target} \cap {"codex", "codex-desktop"})
  /\ undone' = undone \ {target}
  /\ Go("trust")
  /\ UNCHANGED <<before, emptied, claudeMcp, codexMcp, creds, caVars, procVars,
                 pin, record, leaked, runs, kills, halted>>

\* For Claude Desktop the system's, the user's with --trust-store.  A certificate
\* that does not parse is not installed.
InitTrust ==
  /\ At("init", "trust")
  /\ \E stores \in SUBSET {"system", "login"} :
       /\ "system" \in stores <=> target = "claude-desktop"
       /\ stores # {} => Whole(cert)
       /\ InstallTrustStore(stores)
  /\ Go("verify")
  /\ UNCHANGED <<claudeVars, harnessVars, credVars, cert, key, bundle, daemonVars, made, fresh,
                 crossed, kept, procVars, desktopVars, runs, kills, halted>>

\* Unless --no-start, a daemon has been brought up: ProxyUp.  With --strict=false
\* what Verify finds does not matter.
InitVerify ==
  /\ At("init", "verify")
  /\ target = "claude-code" /\ Opt.strict => VerifyOK(claude, Opt)
  /\ target = "claude-desktop" => DesktopConfigured
  /\ Go("done") /\ halted' = FALSE
  /\ UNCHANGED <<claudeVars, harnessVars, credVars, caVars, procVars, desktopVars, runs, kills>>

\* An error: what was done stays.
InitFails ==
  /\ op = "init" /\ pc \in {"bundle", "configure", "trust", "verify"}
  /\ Stop

-----------------------------------------------------------------------------
(* deinit *)

DeinitBegin(t) ==
  /\ Begin("deinit", t, "remove")
  /\ SweepDesktopLaunch
  /\ UNCHANGED <<claudeVars, harnessVars, credVars, caVars, plan, procVars, kills, halted>>
  /\ shared' = OtherIntegrationsRemain(t)'

\* Mutant: the hooks that an earlier release wrote stay.
DeinitCodexDir == UNCHANGED codexHooks /\ dirs' = dirs \ {"codex"}

DeinitCodex ==
  /\ codexHooks' = DeconfigureCodexHooks(codexHooks)
  /\ dirs' = dirs \ {"codex"}

\* Refused while a launcher is recorded; an unreadable record is an error.
LaunchRecorded == record = Torn \/ (record # None /\ lpc # "idle")

DeinitRemove ==
  /\ At("deinit", "remove")
  /\ target = "claude-desktop" => ~LaunchRecorded
  /\ IF target = "claude-code" THEN claude' = Deconfigure(claude, Opt) ELSE UNCHANGED claude
  /\ IF target = "codex" THEN DeinitCodex
     ELSE codexHooks' = codexHooks /\ dirs' = dirs \ {target}
  /\ IF target = "claude-desktop"
     THEN desktop' = None /\ IF record # None THEN pin' = record.pin /\ record' = None
                             ELSE UNCHANGED <<pin, record>>
     ELSE UNCHANGED <<desktop, pin, record>>
  /\ undone' = undone \ {target}
  /\ Go("mcp")
  /\ UNCHANGED <<before, emptied, claudeMcp, codexMcp, creds, caVars, procVars, leaked,
                 runs, kills, halted>>

OtherCodex == IF target = "codex" THEN "codex-desktop" ELSE "codex"

DeinitMcp ==
  /\ At("deinit", "mcp")
  /\ claudeMcp' = IF target = "claude-code" THEN RemoveManagedMcpServers(claudeMcp) ELSE claudeMcp
  /\ codexMcp' = IF target \in {"codex", "codex-desktop"} /\ ~Configured(OtherCodex)
                 THEN RemoveManagedCodexMcpServers(codexMcp) ELSE codexMcp
  /\ Go(IF shared THEN "done" ELSE "shared")
  /\ UNCHANGED <<claudeVars, codexHooks, dirs, credVars, caVars, procVars, desktopVars,
                 runs, kills, halted>>

DeinitShared ==
  /\ At("deinit", "shared")
  /\ creds' = creds \ {"agent-id"}
  /\ Go("done")
  /\ UNCHANGED <<undone, claudeVars, harnessVars, caVars, procVars, desktopVars,
                 runs, kills, halted>>

DeinitFails == op = "deinit" /\ pc \in {"remove", "mcp", "shared"} /\ Stop

-----------------------------------------------------------------------------
(* reset *)

Exists(f) ==
  CASE f = "ca-bundle.crt" -> bundle # None
    [] f = "ca.crt" -> cert # None
    [] f = "ca.key" -> key # None
    [] f = "claude-desktop" -> desktop # None
    [] f = "claude-desktop-launch.json" -> record # None
    [] f \in {"codex", "codex-desktop"} -> f \in dirs
    [] OTHER -> f \in creds

FilesThere == {DataFiles[i] : i \in {i \in DOMAIN DataFiles : Exists(DataFiles[i])}}

\* The preview: only what it lists is deleted later.
PlanReset ==
  /\ Begin("reset", None, "guard")
  /\ SweepDesktopLaunch
  /\ UNCHANGED <<claudeVars, harnessVars, credVars, caVars, shared, procVars, kills, halted>>
  /\ plan' = FilesThere'

\* Confirmed.  A session is owned by the app once that runs.
ResetGuard ==
  /\ At("reset", "guard")
  /\ IF guard
     THEN /\ op' = None /\ pc' = "idle" /\ target' = None /\ shared' = FALSE /\ plan' = {}
          /\ UNCHANGED guard
     ELSE /\ guard' = TRUE /\ pc' = "down"
          /\ UNCHANGED <<op, target, shared, plan>>
  /\ UNCHANGED <<claudeVars, harnessVars, credVars, caVars, procVars, desktopVars,
                 runs, kills, halted>>

\* Mutant: the daemon goes on.
ResetLeavesDaemon ==
  /\ At("reset", "down") /\ ~app
  /\ Go("trust")
  /\ UNCHANGED <<claudeVars, harnessVars, credVars, caVars, procVars, desktopVars,
                 runs, kills, halted>>

\* The daemon is stopped first, then the sessions are revoked.  One that still
\* starts may not be seen (ProxyControl).
ResetDown ==
  /\ At("reset", "down") /\ ~app
  /\ daemon' = None
  /\ crossed' = (crossed \/ dpc # "idle")
  /\ Go("trust")
  /\ UNCHANGED <<claudeVars, harnessVars, credVars, cert, key, bundle, trusted, dpc, dca, made,
                 fresh, kept, procVars, desktopVars, runs, kills, halted>>

\* Mutant: a trust store that cannot be cleaned does not stop the reset.
ResetTrustIfPossible ==
  /\ At("reset", "trust")
  /\ (cert # Torn /\ RemoveTrustStore) \/ UNCHANGED trusted
  /\ Go("claude")
  /\ UNCHANGED <<claudeVars, harnessVars, credVars, cert, key, bundle, daemonVars, made, fresh,
                 crossed, kept, procVars, desktopVars, runs, kills, halted>>

\* Without a CA there is nothing to remove; one that does not parse is an error.
ResetTrust ==
  /\ At("reset", "trust")
  /\ \/ cert # Torn /\ RemoveTrustStore /\ UNCHANGED kept
     \/ kept' = TRUE /\ UNCHANGED trusted
  /\ Go("claude")
  /\ UNCHANGED <<claudeVars, harnessVars, credVars, cert, key, bundle, daemonVars, made, fresh,
                 crossed, procVars, desktopVars, runs, kills, halted>>

ResetClaude ==
  /\ At("reset", "claude")
  /\ claude' = Deconfigure(claude, Opt)
  /\ Go("hooks")
  /\ UNCHANGED <<before, emptied, harnessVars, credVars, caVars, procVars, desktopVars,
                 runs, kills, halted>>

ResetHooks ==
  /\ At("reset", "hooks")
  /\ codexHooks' = DeconfigureCodexHooks(codexHooks)
  /\ claudeMcp' = RemoveManagedMcpServers(claudeMcp)
  /\ undone' = undone \ {"servers"}
  /\ Go("delete")
  /\ UNCHANGED <<claudeVars, codexMcp, dirs, creds, caVars, procVars, desktopVars,
                 runs, kills, halted>>

Deleted(f, name, was) == IF f = name THEN None ELSE was

\* The file that is deleted next.
Foremost ==
  {f \in plan : \E i \in DOMAIN DataFiles :
                  f = DataFiles[i] /\ \A j \in 1 .. i - 1 : DataFiles[j] \notin plan}

\* A launcher without a running app owns no session and is not seen: the record
\* that PlanReset did not sweep is its, and goes.
ResetDelete ==
  /\ At("reset", "delete")
  /\ \E f \in Foremost :
       /\ creds' = creds \ {f} /\ dirs' = dirs \ {f} /\ undone' = undone \ {f}
       /\ bundle' = Deleted(f, "ca-bundle.crt", bundle)
       /\ cert' = Deleted(f, "ca.crt", cert) /\ key' = Deleted(f, "ca.key", key)
       /\ desktop' = Deleted(f, "claude-desktop", desktop)
       /\ record' = Deleted(f, "claude-desktop-launch.json", record)
       /\ leaked' = (leaked \/ f = "claude-desktop-launch.json")
       /\ plan' = plan \ {f}
  /\ UNCHANGED <<claudeVars, claudeMcp, codexMcp, codexHooks, trusted, daemonVars, made, fresh,
                 crossed, kept, op, pc, target, shared, guard, procVars, pin, runs, kills, halted>>

ResetEnds ==
  /\ At("reset", "delete") /\ plan = {}
  /\ Go("done") /\ halted' = FALSE
  /\ UNCHANGED <<claudeVars, harnessVars, credVars, caVars, procVars, desktopVars, runs, kills>>

\* An owner lives, the daemon does not stop, a session cannot be revoked, trust
\* cannot be removed, a file has appeared in a directory: the guard goes, the
\* rest stays.
ResetFails ==
  /\ op = "reset" /\ pc \in {"down", "trust", "claude", "hooks", "delete"}
  /\ Return
  /\ halted' = (halted \/ pc = "delete")
  /\ UNCHANGED <<claudeVars, harnessVars, credVars, caVars, procVars, desktopVars, runs, kills>>

\* A successful command ends.
Done == op # None /\ pc = "done" /\ Stop

-----------------------------------------------------------------------------
(* Other commands, sessions, the user. *)

\* status, for example.
AnyCommand ==
  /\ LeftBehind /\ (FinishDesktopLaunch \/ FinishFails)
  /\ UNCHANGED <<claudeVars, harnessVars, credVars, caVars, guard, cmdVars, procVars,
                 runs, kills, halted>>

RemoveGuard ==
  /\ guard /\ op # "reset" /\ guard' = FALSE
  /\ UNCHANGED <<claudeVars, harnessVars, credVars, caVars, cmdVars, procVars, desktopVars,
                 runs, kills, halted>>

\* keydris login, or a renewal of the identity in flight, stores what it got.
SignIn ==
  /\ Another
  /\ creds' = creds \cup {"identity"}
  /\ undone' = undone \cup (IF op = "reset" THEN {"identity"} \ creds ELSE {})
  /\ UNCHANGED <<claudeVars, harnessVars, caVars, guard, cmdVars, procVars, desktopVars,
                 kills, halted>>

\* Both lists of servers follow the policy, as far as they can be written.  What
\* hookSessionStart looked at before is not looked at again.
FollowPolicy ==
  /\ \E policy \in Policies :
       /\ claudeMcp' \in {claudeMcp, ConfigureMcpServers(claudeMcp, policy)}
       /\ codexMcp' \in {codexMcp, ConfigureCodexMcpServers(codexMcp, policy)}
  /\ undone' = undone \cup (IF op = "reset" /\ claudeMcp' # claudeMcp THEN {"servers"} ELSE {})
  /\ UNCHANGED creds

\* In Claude Code, under keydris run or codex, or in the Codex app.
SessionStart ==
  /\ Another
  /\ spc = "idle" /\ ~guard /\ IdentityReady
  /\ spc' = "write" /\ UNCHANGED sca
  /\ UNCHANGED <<claudeVars, harnessVars, credVars, caVars, guard, cmdVars, launchVars,
                 desktopVars, kills, halted>>

SessionWrites ==
  /\ spc = "write" /\ spc' = "read" /\ UNCHANGED sca
  /\ FollowPolicy
  /\ UNCHANGED <<claudeVars, codexHooks, dirs, caVars, guard, cmdVars, launchVars,
                 desktopVars, runs, kills, halted>>

\* keydris codex-desktop has seen its directory, and checks its hooks.
CodexLaunch ==
  /\ Another
  /\ spc = "idle" /\ "codex-desktop" \in dirs
  /\ spc' = "shim" /\ UNCHANGED sca
  /\ UNCHANGED <<claudeVars, harnessVars, credVars, caVars, guard, cmdVars, launchVars,
                 desktopVars, kills, halted>>

\* The shim's directory is made again if it is gone.  The session starts after
\* the bundle.
CodexShim ==
  /\ spc = "shim" /\ spc' = "read" /\ UNCHANGED sca
  /\ dirs' = dirs \cup {"codex-desktop"}
  /\ undone' = undone \cup ({"codex-desktop"} \ dirs)
  /\ UNCHANGED <<claudeVars, claudeMcp, codexMcp, codexHooks, creds, caVars, guard, cmdVars,
                 launchVars, desktopVars, runs, kills, halted>>

\* The launchers rebuild the bundle: ca.crt is read, then the bundle written.
RebuildRead ==
  /\ spc = "read" /\ cert # None
  /\ spc' = "rebuild" /\ sca' \in ReadCert
  /\ UNCHANGED <<claudeVars, harnessVars, credVars, caVars, guard, cmdVars, launchVars,
                 desktopVars, runs, kills, halted>>

RebuildWrite ==
  /\ spc = "rebuild"
  /\ bundle' = sca
  /\ undone' = IF sca = cert THEN undone \ {"ca-bundle.crt"} ELSE undone \cup {"ca-bundle.crt"}
  /\ spc' = "idle" /\ sca' = None
  /\ UNCHANGED <<claudeVars, harnessVars, creds, cert, key, trusted, daemonVars, made, fresh,
                 crossed, kept, guard, cmdVars, launchVars, desktopVars, runs, kills, halted>>

\* It has no bundle to build, or fails, or is killed.
SessionEnds ==
  /\ spc # "idle" /\ spc' = "idle" /\ sca' = None
  /\ UNCHANGED <<claudeVars, harnessVars, credVars, caVars, guard, cmdVars, launchVars,
                 desktopVars, runs, kills, halted>>

-----------------------------------------------------------------------------
(* keydris claude-desktop *)

Launch ==
  /\ lpc = "idle" /\ ~app /\ Another
  /\ record # Torn
  /\ IF LeftBehind THEN FinishDesktopLaunch ELSE UNCHANGED desktopVars
  /\ DesktopConfigured'
  /\ daemon # None /\ ~guard /\ IdentityReady
  /\ lpc' = "session" /\ UNCHANGED <<previous, app>>
  /\ UNCHANGED <<claudeVars, harnessVars, credVars, caVars, guard, cmdVars, sessionVars,
                 kills, halted>>

\* Its session starts, or not.
LaunchSession ==
  /\ lpc = "session"
  /\ \/ lpc' = "apply" /\ FollowPolicy
     \/ lpc' = "idle" /\ UNCHANGED <<credVars, claudeMcp, codexMcp>>
  /\ UNCHANGED <<claudeVars, codexHooks, dirs, caVars, guard, cmdVars, previous, app,
                 sessionVars, desktopVars, runs, kills, halted>>

LaunchLeaves == UNCHANGED <<claudeVars, harnessVars, credVars, caVars, guard, cmdVars,
                            sessionVars, runs, kills, halted>>

\* The engine's settings.  A file that is gone meanwhile is made.
LaunchApply ==
  /\ lpc = "apply"
  /\ \/ /\ lpc' = "pin" /\ previous' = [desktop |-> desktop, pin |-> pin]
        /\ desktop' = [hooks |-> DesktopConfigured, proxied |-> TRUE]
     \/ lpc' = "idle" /\ desktop' \in {desktop, NoDesktop} /\ previous' = None
  /\ UNCHANGED <<app, pin, record, leaked>> /\ LaunchLeaves

\* What a launcher cannot undo before it has a record, nobody will.
GiveUp ==
  /\ lpc' = "idle" /\ previous' = None
  /\ desktop' \in Rewritten(previous.desktop) /\ pin' \in {pin, previous.pin}
  /\ leaked' = (leaked \/ desktop' \notin {previous.desktop, NoDesktop} \/ pin' # previous.pin)

\* The app's egress pin.
LaunchPin ==
  /\ lpc = "pin"
  /\ \/ /\ lpc' = "record" /\ previous' = [previous EXCEPT !.pin = pin]
        /\ pin' = TRUE /\ UNCHANGED <<desktop, leaked>>
     \/ GiveUp /\ UNCHANGED pin
  /\ UNCHANGED <<app, record>> /\ LaunchLeaves

LaunchRecord ==
  /\ lpc = "record"
  /\ \/ lpc' = "app" /\ record' = previous /\ UNCHANGED <<previous, desktop, pin, leaked>>
     \/ GiveUp /\ record' \in {record, Torn}
  /\ UNCHANGED app /\ LaunchLeaves

LaunchApp ==
  /\ lpc = "app"
  /\ \/ lpc' = "wait" /\ app' = TRUE
     \/ lpc' = "restore" /\ UNCHANGED app
  /\ UNCHANGED <<previous, desktopVars>> /\ LaunchLeaves

AppQuits ==
  /\ app /\ app' = FALSE
  /\ lpc' = IF lpc = "wait" THEN "restore" ELSE lpc
  /\ UNCHANGED <<previous, desktopVars>> /\ LaunchLeaves

\* Mutant: the record goes first.
ForgetFirst ==
  /\ lpc = "restore" /\ lpc' = "unpin"
  /\ desktop' = previous.desktop /\ record' = None
  /\ UNCHANGED <<previous, app, pin, leaked>> /\ LaunchLeaves

\* finishDesktopLaunch: settings, pin, then the record, which stays when one of
\* the two could not be restored.
RestoreSettings ==
  /\ lpc = "restore" /\ lpc' = "unpin"
  /\ desktop' = previous.desktop
  /\ UNCHANGED <<previous, app, pin, record, leaked>> /\ LaunchLeaves

RestorePin ==
  /\ lpc = "unpin" /\ lpc' = "forget"
  /\ pin' = previous.pin
  /\ UNCHANGED <<previous, app, desktop, record, leaked>> /\ LaunchLeaves

\* The pin is restored, or tried, after settings that could not be.
RestoreFails ==
  /\ lpc \in {"restore", "unpin", "forget"} /\ lpc' = "idle" /\ previous' = None
  /\ desktop' \in IF lpc = "restore" THEN Rewritten(previous.desktop) ELSE {desktop}
  /\ pin' \in {pin} \cup {p \in {previous.pin} : lpc = "restore"}
  /\ UNCHANGED <<app, record, leaked>> /\ LaunchLeaves

Forget ==
  /\ lpc = "forget" /\ lpc' = "idle"
  /\ record' = None /\ previous' = None
  /\ UNCHANGED <<app, desktop, pin, leaked>> /\ LaunchLeaves

-----------------------------------------------------------------------------
(* Processes are killed. *)

\* The write that a kill or an error cuts short, by the stage of the command.
EditsClaude ==
  \/ At("init", "configure") /\ target = "claude-code"
  \/ At("deinit", "remove") /\ target = "claude-code" /\ Deconfigure(claude, Opt) # claude
  \/ At("reset", "claude") /\ Deconfigure(claude, Opt) # claude
EditsHooks ==
  /\ \/ At("init", "configure") /\ target = "codex"
     \/ At("deinit", "remove") /\ target = "codex"
     \/ At("reset", "hooks")
  /\ DeconfigureCodexHooks(codexHooks) # codexHooks

\* What is left of a file, `left` if the file was being written.
Cut(file, left, writing) == {file} \cup (IF writing THEN {left} ELSE {})

KillCommand ==
  /\ op # None /\ kills < MaxKills /\ kills' = kills + 1
  /\ cert' \in Cut(cert, Torn, At("init", "ca_cert"))
  /\ key' \in Cut(key, Torn, At("init", "ca_key"))
  /\ bundle' \in Cut(bundle, Torn, At("init", "bundle"))
  /\ claude' \in Cut(claude, EmptySettings, EditsClaude)
  /\ emptied' = (emptied \/ claude' # claude)
  /\ codexHooks' \in Cut(codexHooks, EmptySettings.hooks, EditsHooks)
  /\ desktop' \in Cut(desktop, NoDesktop, At("init", "configure") /\ target = "claude-desktop")
  /\ crossed' = (crossed \/ (At("init", "ca_key") /\ key # None))
  /\ halted' = (halted \/ At("reset", "delete"))
  /\ fresh' = None
  /\ op' = None /\ pc' = "idle" /\ target' = None /\ shared' = FALSE /\ plan' = {}
  /\ UNCHANGED <<before, claudeMcp, codexMcp, dirs, credVars, trusted, daemonVars, made, kept,
                 guard, procVars, pin, record, leaked, runs>>

\* The app goes on.  Before the record is written nobody knows what to restore.
KillLauncher ==
  /\ lpc # "idle" /\ kills < MaxKills /\ kills' = kills + 1
  /\ lpc' = "idle" /\ previous' = None
  /\ desktop' \in Cut(desktop, NoDesktop, lpc \in {"apply", "restore"})
  /\ record' \in Cut(record, Torn, lpc = "record")
  /\ leaked' = (leaked \/ lpc \in {"pin", "record"})
  /\ UNCHANGED <<app, pin, claudeVars, harnessVars, credVars, caVars, guard, cmdVars,
                 sessionVars, runs, halted>>

KillDaemon ==
  /\ dpc # "idle" /\ kills < MaxKills /\ kills' = kills + 1
  /\ dpc' = "idle" /\ dca' = None
  /\ cert' \in Cut(cert, Torn, dpc = "cert")
  /\ key' \in Cut(key, Torn, dpc = "key")
  /\ crossed' = (crossed \/ (dpc = "key" /\ key # None))
  /\ UNCHANGED <<claudeVars, harnessVars, credVars, bundle, trusted, daemon, made, fresh, kept,
                 guard, cmdVars, procVars, desktopVars, runs, halted>>

KillSession ==
  /\ spc = "rebuild" /\ kills < MaxKills /\ kills' = kills + 1
  /\ spc' = "idle" /\ sca' = None
  /\ bundle' = Torn /\ undone' = undone \cup {"ca-bundle.crt"}
  /\ UNCHANGED <<claudeVars, harnessVars, creds, cert, key, trusted, daemonVars, made, fresh,
                 crossed, kept, guard, cmdVars, launchVars, desktopVars, runs, halted>>

-----------------------------------------------------------------------------
InitSteps ==
  \/ \E t \in Integrations : InitBegin(t)
  \/ InitIdentity \/ LoadOrCreateCA \/ InitCACert \/ InitCAKey \/ InitBundle
  \/ InitConfigure \/ InitTrust \/ InitVerify \/ InitFails

DeinitSteps ==
  \/ \E t \in Integrations : DeinitBegin(t)
  \/ DeinitRemove \/ DeinitMcp \/ DeinitShared \/ DeinitFails

ResetSteps ==
  \/ PlanReset \/ ResetGuard \/ ResetDown \/ ResetTrust \/ ResetClaude \/ ResetHooks
  \/ ResetDelete \/ ResetEnds \/ ResetFails

LauncherSteps ==
  \/ Launch \/ LaunchSession \/ LaunchApply \/ LaunchPin \/ LaunchRecord \/ LaunchApp
  \/ AppQuits \/ RestoreSettings \/ RestorePin \/ RestoreFails \/ Forget

SessionSteps ==
  \/ SessionStart \/ SessionWrites \/ CodexLaunch \/ CodexShim \/ RebuildRead \/ RebuildWrite
  \/ SessionEnds

DaemonSteps == ProxyUp \/ DaemonCert \/ DaemonKey \/ ProxyDown

Next ==
  \/ InitSteps \/ DeinitSteps \/ ResetSteps \/ Done \/ LauncherSteps \/ SessionSteps
  \/ DaemonSteps \/ AnyCommand \/ RemoveGuard \/ SignIn
  \/ KillCommand \/ KillLauncher \/ KillDaemon \/ KillSession

Spec == Init /\ [][Next]_vars

-----------------------------------------------------------------------------
(* Properties. *)

\* init.go:217-246: whatever was interrupted, failed or removed before, an init
\* that reports success leaves everything the integration needs, and all of it
\* of one CA, unless another creator of a CA was at work beside it; and the
\* bundle unless a session that had read an earlier CA wrote it since.
InitIsWhole ==
  At("init", "done") =>
    /\ IdentityReady
    /\ crossed \/ (Whole(cert) /\ key = cert /\ ("ca-bundle.crt" \in undone \/ bundle = cert))
    /\ target = "claude-code" => \A k \in CAEnvKeys : claude.env[k] = Opt.ca
    /\ target = "codex" => ~HasKeydrisHooks(codexHooks)
    /\ target # "claude-desktop" => Configured(target)

\* deinit.go:20, "shared agent and policy state is cleared only when no other
\* integration remains configured": none is left without its agent, except by
\* a reset that was stopped while deleting, or because the launcher of the Codex
\* app made its directory again.
SharedSetup ==
  \A t \in {"claude-code", "codex", "codex-desktop"} \ undone :
    Configured(t) /\ ~halted /\ ~At("reset", "delete") => "agent-id" \in creds

\* reset.go:377-417, deinit.go:64-106: a deinit or reset that reports success
\* leaves nothing that an agent would still act on, whatever was interrupted
\* before and whatever a launcher of Claude Desktop does meanwhile, except what
\* a session, a sign-in or a daemon that started before wrote behind its back.
RemovedIsGone ==
  /\ At("deinit", "done") =>
       /\ target \notin {"claude-desktop"} \cup undone => ~Configured(target)
       /\ target = "claude-code" => Untraced(claude, Opt)
  /\ At("reset", "done") =>
       /\ \A t \in {"claude-code", "codex", "codex-desktop"} \ undone : ~Configured(t)
       /\ Untraced(claude, Opt)
       /\ crossed \/ daemon = None
       /\ "servers" \in undone \/ claudeMcp.managed = {}
       /\ creds \cap {"agent-id", "identity"} \subseteq undone

\* ca.go:110, reset.go:365: tools that Claude Code sends to the proxy find its
\* CA in their bundle, whatever removed or renewed either, unless writing the
\* bundle was cut short, two creators of a CA overlapped or a session wrote the
\* bundle of a CA that was gone.
ServedIsTrusted ==
  (\E k \in CAEnvKeys : claude.env[k] = Opt.ca) /\ daemon # None
    => bundle \in {daemon, Torn} \/ crossed \/ "ca-bundle.crt" \in undone

\* trust_remove.go:10, ca.go:110: a CA that this user's tools trust stays on
\* disk, so that its trust can be removed, unless a reset was told to keep it or
\* two creators of a CA overlapped.
TrustedIsKnown ==
  kept \/ crossed \/ \A e \in trusted : e[1] = "login" => cert = e[2]

\* claude_desktop.go:119, cli.go:58: the app is never left pinned to a proxy
\* that is gone: a launcher or its record knows what to restore, unless the
\* launcher was killed, or could not undo its work, before it wrote that record,
\* or a reset took the record away.
PinOwned ==
  pin \/ (desktop # None /\ desktop.proxied) => lpc # "idle" \/ Whole(record) \/ leaked

\* deconfigure.go:20: the user's own settings and servers survive every sequence
\* of commands, unless a write that a kill or an error cut short emptied the file
\* (claudecode.go:241).
UserKept ==
  /\ emptied \/ UserPart(claude, Opt) = before
  /\ \A config \in {claudeMcp, codexMcp} :
       \A n \in Server : UserServer[n] # None => config.servers[n] = UserServer[n]
=============================================================================
