-------------------------- MODULE SessionLifecycle --------------------------
(***************************************************************************)
(* The life of a session credential (a KIT) on one machine: the SessionStart *)
(* and SessionEnd procedures that short-lived CLI processes run, the         *)
(* registry and the renewal loop of the proxy daemon, the durable state      *)
(* files both write, and the control plane that mints, replaces and revokes. *)
(*                                                                           *)
(* Every network call, socket exchange and file operation is a step of its   *)
(* own, so that any other process can run between two of them.               *)
(*                                                                           *)
(* Abstractions.  A handle is the random token a start draws                 *)
(* (bindSessionForMode in the sandbox and proxyenv planes), so it is named   *)
(* by the process that drew it; a ULID, its KIT, SPIFFE id and routes are    *)
(* one element of Kit; wall-clock time is the set "due" of KITs old enough   *)
(* to be renewed; expiry is left out, which keeps every KIT dangerous for    *)
(* ever and makes the safety claims stronger.                                *)
(***************************************************************************)
EXTENDS Naturals, FiniteSets

CONSTANTS
    Starter,     \* Claude Code SessionStart hook processes
    Runner,      \* keydris run / desktop wrappers: start, spawn, wait, end
    Ender,       \* SessionEnd hook processes (also: sweep of a dead launcher)
    Sid,         \* logical session ids
    SidOf,       \* the session id each process was given
    Kit,         \* KIT sessions the control plane can issue (the bound)
    None,        \* no KIT, no handle
    FaultSets,   \* the classes of failure that may happen in one behaviour
    SerialHooks, \* CLI processes of one session id never overlap
    Prompt       \* local steps are quick against the renewal timers (below)

Proc == Starter \cup Runner \cup Ender
Handle == Starter \cup Runner

FaultClass ==
    {"refuse",   \* a call fails and has no effect
     "loseAck",  \* a call takes effect and its answer is lost
     "persist",  \* writing a state file fails
     "leak",     \* a mint's answer is lost, or a rollback's revoke fails
     "kill",     \* a CLI process is killed
     "crash"}    \* the daemon is killed and started again

ASSUME ProcAssumption ==
    /\ Starter \cap Runner = {}
    /\ Starter \cap Ender = {}
    /\ Runner \cap Ender = {}
ASSUME SidAssumption == SidOf \in [Proc -> Sid]
\* "run-"+newProxyToken(): no other start ever uses a wrapper's session id.
ASSUME RunnerSidAssumption ==
    \A p \in Runner, q \in Handle : SidOf[p] = SidOf[q] => p = q
ASSUME NoneAssumption == None \notin Kit \cup Proc
ASSUME FaultAssumption == FaultSets \subseteq SUBSET FaultClass
ASSUME FlagAssumption == SerialHooks \in BOOLEAN /\ Prompt \in BOOLEAN

VARIABLES
    faults,    \* what may fail in this behaviour
    kit,       \* control plane: status of each KIT session
    succ,      \* control plane: the answer stored under a renewal's idempotency key
    kitOf,     \* control plane: the session_handle the KIT was minted for
    due,       \* KITs inside their renewal window
    disk,      \* sessions/<sid>.json
    up,        \* the daemon is running
    reg,       \* the daemon's SessionRegistry
    tpc,       \* where the renewal loop is
    todo,      \* registry.Snapshot() entries the loop has not handled yet
    th,        \* the handle the loop is working on
    tkit,      \* the KIT the loop just obtained (renewal) or took (retire)
    dueNow,    \* KITs that were due at the tick's time ("now")
    dead,      \* deadOwners: handles whose owner was seen gone once
    pc,        \* where each CLI process is
    cur,       \* inst.SessionID / currentULID of each CLI process
    st,        \* the state record each CLI process loaded
    unregErr,  \* unregisterErr of each SessionEnd
    replacing, \* this SessionEnd runs inside a SessionStart
    retried,   \* the wrapper's deferred endSession has been used
    child,     \* the wrapped process of each Runner
    ended      \* handles whose end or retirement reported success (history)

cpVars == <<kit, succ, kitOf, due>>
loopVars == <<tpc, todo, dueNow, th, tkit, dead>>
daemonVars == <<up, reg, loopVars>>
cliVars == <<cur, st, unregErr, replacing, retried>>
vars == <<faults, cpVars, disk, daemonVars, pc, cliVars, child, ended>>

KitStatus == {"unused", "live", "replaced", "revoked"}
Owner == {"none", "advisory", "managed", "unverifiable"}
Entry == [ulid : Kit \cup {None}, owner : Owner]
State == [handle : Handle \cup {None}, ulid : Kit \cup {None}, owner : Owner]
NoEntry == [ulid |-> None, owner |-> "none"]
NoState == [handle |-> None, ulid |-> None, owner |-> "none"]

StartPc == {"start", "mint", "routes", "save", "register", "spawn",
            "owner_load", "owner_save", "owner_send"}
RollbackPc == {"rollback", "rollback_save", "rollback_reg", "rollback_remove"}
EndPc == {"end_load", "unregister", "end_save", "revoke", "end_remove"}
FinalPc == {"done", "failed", "killed"}
ProcPc == {"idle", "running"} \cup StartPc \cup RollbackPc \cup EndPc \cup FinalPc
LoopPc == {"wait", "scan", "renew_create", "renew_routes", "renew_swap",
           "renew_discard", "retire_revoke", "retire_remove"}

Registered(h) == reg[h].ulid # None
Saved(s) == disk[s].ulid # None
Active(p) == pc[p] \notin FinalPc \cup {"idle"}
Unused == {k \in Kit : kit[k] = "unused"}

Init ==
    /\ faults \in FaultSets
    /\ kit = [k \in Kit |-> "unused"]
    /\ succ = [k \in Kit |-> None]
    /\ kitOf = [k \in Kit |-> None]
    /\ due = {}
    /\ disk = [s \in Sid |-> NoState]
    /\ up = TRUE
    /\ reg = [h \in Handle |-> NoEntry]
    /\ tpc = "wait"
    /\ todo = [h \in Handle |-> NoEntry]
    /\ dueNow = {}
    /\ th = None
    /\ tkit = None
    /\ dead = {}
    /\ pc = [p \in Proc |-> "idle"]
    /\ cur = [p \in Proc |-> None]
    /\ st = [p \in Proc |-> NoState]
    /\ unregErr = [p \in Proc |-> FALSE]
    /\ replacing = [p \in Proc |-> FALSE]
    /\ retried = [p \in Proc |-> FALSE]
    /\ child = [p \in Runner |-> "none"]
    /\ ended = {}

-----------------------------------------------------------------------------
(* The control plane, as the source uses it.                                *)

\* POST /runtime/sessions without X-Keydris-Replaces-Kit: a fresh KIT.
MintFor(h, k) ==
    /\ kit[k] = "unused"
    /\ kit' = [kit EXCEPT ![k] = "live"]
    /\ kitOf' = [kitOf EXCEPT ![k] = h]
    /\ UNCHANGED <<succ, due>>

\* POST .../revoke of k: what becomes of a KIT's status.
Revoked(k) == IF kit[k] = "live" THEN [kit EXCEPT ![k] = "revoked"] ELSE kit

\* With X-Keydris-Replaces-Kit: atomically replaces a live KIT by a fresh one,
\* or answers a repeated idempotency key with what it answered before.
ReplaceKit(old, k) ==
    \/ /\ succ[old] = k
       /\ UNCHANGED cpVars
    \/ /\ succ[old] = None
       /\ kit[old] = "live"
       /\ kit[k] = "unused"
       /\ kit' = [kit EXCEPT ![old] = "replaced", ![k] = "live"]
       /\ kitOf' = [kitOf EXCEPT ![k] = kitOf[old]]
       /\ succ' = [succ EXCEPT ![old] = k]
       /\ UNCHANGED due

\* Nothing to replace: the KIT is not live and the key was never used.
Irreplaceable(old) ==
    succ[old] = None /\ (kit[old] # "live" \/ Unused = {})

\* Time passes: k enters its renewal window (sessionRenewalDue).  With Prompt
\* this takes longer than the start that minted it.
Age(k) ==
    /\ kit[k] = "live"
    /\ k \notin due
    /\ Prompt => \A p \in Proc :
                         cur[p] = k => pc[p] \notin StartPc \cup RollbackPc
    /\ due' = due \cup {k}
    /\ UNCHANGED <<faults, kit, succ, kitOf, disk, daemonVars, pc, cliVars, child, ended>>

-----------------------------------------------------------------------------
(* CLI processes.  Goto moves p and leaves its locals and everything the    *)
(* daemon owns alone.                                                       *)

Fault(class) == class \in faults
Goto(p, label) == pc' = [pc EXCEPT ![p] = label]
CliFrame == UNCHANGED <<faults, daemonVars, child, ended>>

\* The hook or wrapper process starts.
Launch(p) ==
    /\ pc[p] = "idle"
    /\ SerialHooks => \A q \in Proc : SidOf[q] = SidOf[p] => ~Active(q)
    /\ Goto(p, IF p \in Ender THEN "end_load" ELSE "start")
    /\ CliFrame /\ UNCHANGED <<cpVars, disk, cliVars>>

\* Mutant: the state file of an earlier instance is overwritten, not ended.
StartLoadOverwrites(p) ==
    /\ pc[p] = "start"
    /\ Goto(p, "mint")
    /\ CliFrame /\ UNCHANGED <<cpVars, disk, cliVars>>

\* A repeated SessionStart first ends the session whose state file it finds.
StartLoad(p) ==
    /\ pc[p] = "start"
    /\ replacing' = [replacing EXCEPT ![p] = Saved(SidOf[p])]
    /\ Goto(p, IF Saved(SidOf[p]) THEN "end_load" ELSE "mint")
    /\ CliFrame /\ UNCHANGED <<cpVars, disk, cur, st, unregErr, retried>>

Mint(p) ==
    /\ pc[p] = "mint"
    /\ \E k \in Kit : MintFor(p, k) /\ cur' = [cur EXCEPT ![p] = k]
    /\ Goto(p, "routes")
    /\ CliFrame /\ UNCHANGED <<disk, st, unregErr, replacing, retried>>

\* The mint fails; an exhausted Kit (the bound) reads as a refusal.
MintRefused(p) ==
    /\ pc[p] = "mint"
    /\ Fault("refuse") \/ Unused = {}
    /\ Goto(p, "failed")
    /\ CliFrame /\ UNCHANGED <<cpVars, disk, cliVars>>

\* The control plane mints, the answer never arrives.
MintLost(p) ==
    /\ pc[p] = "mint"
    /\ Fault("leak")
    /\ \E k \in Kit : MintFor(p, k)
    /\ Goto(p, "failed")
    /\ CliFrame /\ UNCHANGED <<disk, cliVars>>

\* Routes fetched, agent matches, no reset in progress.
Routes(p) ==
    /\ pc[p] = "routes"
    /\ Goto(p, "save")
    /\ CliFrame /\ UNCHANGED <<cpVars, disk, cliVars>>

\* Routes fail, name another agent, or a reset has begun meanwhile.
RoutesRejected(p) ==
    /\ pc[p] = "routes"
    /\ Fault("refuse")
    /\ Goto(p, "rollback")
    /\ CliFrame /\ UNCHANGED <<cpVars, disk, cliVars>>

Save(p) ==
    /\ pc[p] = "save"
    /\ disk' = [disk EXCEPT ![SidOf[p]] =
                   [handle |-> p, ulid |-> cur[p], owner |-> "none"]]
    /\ Goto(p, "register")
    /\ CliFrame /\ UNCHANGED <<cpVars, cliVars>>

SaveFails(p) ==
    /\ pc[p] = "save"
    /\ Fault("persist")
    /\ Goto(p, "rollback_save")
    /\ CliFrame /\ UNCHANGED <<cpVars, disk, cliVars>>

\* `_ = revokeSessionInstance(...)`: the answer is ignored, so on failure
\* nothing remembers the KIT.
RollbackRevoke(p) ==
    /\ pc[p] \in {"rollback", "rollback_save"}
    /\ \/ kit' = Revoked(cur[p])
       \/ Fault("leak") /\ UNCHANGED kit
    /\ Goto(p, IF pc[p] = "rollback" THEN "failed" ELSE "rollback_remove")
    /\ CliFrame /\ UNCHANGED <<succ, kitOf, due, disk, cliVars>>

\* The daemon binds the session to its handle and the ack arrives.
Register(p) ==
    /\ pc[p] = "register" /\ up
    /\ reg' = [reg EXCEPT ![p] = [ulid |-> cur[p], owner |-> "none"]]
    /\ Goto(p, IF p \in Runner THEN "spawn" ELSE "owner_load")
    /\ UNCHANGED <<faults, cpVars, disk, up, loopVars, cliVars, child, ended>>

RegisterUnacked(p) ==
    /\ pc[p] = "register" /\ up
    /\ Fault("loseAck")
    /\ reg' = [reg EXCEPT ![p] = [ulid |-> cur[p], owner |-> "none"]]
    /\ Goto(p, "rollback_reg")
    /\ UNCHANGED <<faults, cpVars, disk, up, loopVars, cliVars, child, ended>>

RegisterFails(p) ==
    /\ pc[p] = "register"
    /\ ~up \/ Fault("refuse")
    /\ Goto(p, "rollback_reg")
    /\ CliFrame /\ UNCHANGED <<cpVars, disk, cliVars>>

\* Registration failed: revoke, then drop the state file ...
RollbackRegister(p) ==
    /\ pc[p] = "rollback_reg"
    /\ kit' = Revoked(cur[p])
    /\ Goto(p, "rollback_remove")
    /\ CliFrame /\ UNCHANGED <<succ, kitOf, due, disk, cliVars>>

\* Mutant: the state file goes although the revoke failed.
RollbackForgets(p) ==
    /\ pc[p] = "rollback_reg"
    /\ Fault("refuse")
    /\ Goto(p, "rollback_remove")
    /\ CliFrame /\ UNCHANGED <<cpVars, disk, cliVars>>

\* ... or keep it, for a later SessionEnd, when the revoke fails too.
RollbackRetained(p) ==
    /\ pc[p] = "rollback_reg"
    /\ Fault("refuse")
    /\ Goto(p, "failed")
    /\ CliFrame /\ UNCHANGED <<cpVars, disk, cliVars>>

RollbackRemove(p) ==
    /\ pc[p] = "rollback_remove"
    /\ disk' = [disk EXCEPT ![SidOf[p]] = NoState]
    /\ Goto(p, "failed")
    /\ CliFrame /\ UNCHANGED <<cpVars, cliVars>>

\* The wrapper starts the wrapped command.
Spawn(p) ==
    /\ pc[p] = "spawn"
    /\ child' = [child EXCEPT ![p] = "alive"]
    /\ Goto(p, "owner_load")
    /\ UNCHANGED <<faults, cpVars, disk, daemonVars, cliVars, ended>>

SpawnFails(p) ==
    /\ pc[p] = "spawn"
    /\ Fault("refuse")
    /\ Goto(p, "end_load")
    /\ CliFrame /\ UNCHANGED <<cpVars, disk, cliVars>>

\* What updateSessionOwner writes: a wrapper manages its child (unless the
\* child's creation identity cannot be read), a hook only names its parent.
OwnerOf(p) == IF p \in Runner
              THEN {"managed"} \cup (IF Fault("refuse") THEN {"unverifiable"} ELSE {})
              ELSE {"advisory"}
AfterOwner(p) == IF p \in Runner THEN "running" ELSE "done"

OwnerLoad(p) ==
    /\ pc[p] = "owner_load"
    /\ \/ /\ Saved(SidOf[p])
          /\ \E o \in OwnerOf(p) :
                st' = [st EXCEPT ![p] = [disk[SidOf[p]] EXCEPT !.owner = o]]
          /\ Goto(p, "owner_save")
       \/ /\ ~Saved(SidOf[p])
          /\ UNCHANGED st
          /\ Goto(p, AfterOwner(p))
    /\ CliFrame /\ UNCHANGED <<cpVars, disk, cur, unregErr, replacing, retried>>

OwnerSave(p) ==
    /\ pc[p] = "owner_save"
    /\ \/ disk' = [disk EXCEPT ![SidOf[p]] = st[p]]
       \/ Fault("persist") /\ UNCHANGED disk
    /\ Goto(p, "owner_send")
    /\ CliFrame /\ UNCHANGED <<cpVars, cliVars>>

\* SetOwner: only an already registered session gets an owner.
OwnerSend(p) ==
    /\ pc[p] = "owner_send" /\ up
    /\ LET h == st[p].handle
       IN  reg' = IF Registered(h) THEN [reg EXCEPT ![h].owner = st[p].owner] ELSE reg
    /\ Goto(p, AfterOwner(p))
    /\ UNCHANGED <<faults, cpVars, disk, up, loopVars, cliVars, child, ended>>

OwnerSendFails(p) ==
    /\ pc[p] = "owner_send"
    /\ ~up \/ Fault("refuse")
    /\ Goto(p, AfterOwner(p))
    /\ CliFrame /\ UNCHANGED <<cpVars, disk, cliVars>>

\* The wrapped command exits (or is stopped by a forwarded signal).
ChildExit(p) ==
    /\ child[p] = "alive"
    /\ child' = [child EXCEPT ![p] = "exited"]
    /\ UNCHANGED <<faults, cpVars, disk, daemonVars, pc, cliVars, ended>>

RunEnds(p) ==
    /\ pc[p] = "running"
    /\ child[p] = "exited"
    /\ Goto(p, "end_load")
    /\ CliFrame /\ UNCHANGED <<cpVars, disk, cliVars>>

-----------------------------------------------------------------------------
(* hookSessionEnd, run by SessionEnd hooks, by wrappers when their child is  *)
(* gone, and by a repeated SessionStart.                                     *)

\* A failed end: a wrapper's deferred endSession tries once more (not when
\* it is the start that cannot end an earlier instance).
EndFails(p) ==
    LET again == p \in Runner /\ ~retried[p] /\ ~replacing[p]
    IN  /\ Goto(p, IF again THEN "end_load" ELSE "failed")
        /\ retried' = [retried EXCEPT ![p] = again \/ @]

EndLoad(p) ==
    /\ pc[p] = "end_load"
    /\ Saved(SidOf[p])
    /\ st' = [st EXCEPT ![p] = disk[SidOf[p]]]
    /\ cur' = [cur EXCEPT ![p] = disk[SidOf[p]].ulid]
    /\ unregErr' = [unregErr EXCEPT ![p] = FALSE]
    /\ Goto(p, "unregister")
    /\ CliFrame /\ UNCHANGED <<cpVars, disk, replacing, retried>>

EndNoState(p) ==
    /\ pc[p] = "end_load"
    /\ ~Saved(SidOf[p])
    /\ EndFails(p)
    /\ CliFrame /\ UNCHANGED <<cpVars, disk, cur, st, unregErr, replacing>>

\* SessionRegistry.Take: the entry is removed (and was read) under the lock.
Take(h) == [reg EXCEPT ![h] = NoEntry]

\* Mutant: the ULID of the state file is revoked, renewed or not.
LoadedUlid(h, loaded) == loaded

\* The daemon's snapshot, if it had the session, replaces what was loaded.
CurrentUlid(h, loaded) == IF Registered(h) THEN reg[h].ulid ELSE loaded

Unregister(p) ==
    /\ pc[p] = "unregister" /\ up
    /\ LET h == st[p].handle
           ulid == CurrentUlid(h, st[p].ulid)
       IN  /\ reg' = Take(h)
           /\ cur' = [cur EXCEPT ![p] = ulid]
           /\ st' = [st EXCEPT ![p].ulid = ulid]
           /\ Goto(p, IF Registered(h) THEN "end_save" ELSE "revoke")
    /\ UNCHANGED <<faults, cpVars, disk, up, loopVars, unregErr, replacing, retried, child, ended>>

\* The daemon took the session, but its answer never came.
UnregisterUnacked(p) ==
    /\ pc[p] = "unregister" /\ up
    /\ Fault("loseAck")
    /\ reg' = Take(st[p].handle)
    /\ unregErr' = [unregErr EXCEPT ![p] = TRUE]
    /\ Goto(p, "revoke")
    /\ UNCHANGED <<faults, cpVars, disk, up, loopVars, cur, st, replacing, retried, child, ended>>

UnregisterFails(p) ==
    /\ pc[p] = "unregister"
    /\ ~up \/ Fault("refuse")
    /\ unregErr' = [unregErr EXCEPT ![p] = TRUE]
    /\ Goto(p, "revoke")
    /\ CliFrame /\ UNCHANGED <<cpVars, disk, cur, st, replacing, retried>>

\* The renewed identity is kept for a retry; a failed write is ignored.
EndSave(p) ==
    /\ pc[p] = "end_save"
    /\ \/ disk' = [disk EXCEPT ![SidOf[p]] = st[p]]
       \/ Fault("persist") /\ UNCHANGED disk
    /\ Goto(p, "revoke")
    /\ CliFrame /\ UNCHANGED <<cpVars, cliVars>>

EndRevoke(p) ==
    /\ pc[p] = "revoke"
    /\ kit' = Revoked(cur[p])
    /\ IF unregErr[p]
       THEN EndFails(p)
       ELSE Goto(p, "end_remove") /\ UNCHANGED retried
    /\ CliFrame /\ UNCHANGED <<succ, kitOf, due, disk, cur, st, unregErr, replacing>>

\* The revoke fails, or its answer is lost: the state file stays.
EndRevokeFails(p) ==
    /\ pc[p] = "revoke"
    /\ \/ Fault("refuse") /\ UNCHANGED kit
       \/ Fault("loseAck") /\ kit' = Revoked(cur[p])
    /\ EndFails(p)
    /\ CliFrame /\ UNCHANGED <<succ, kitOf, due, disk, cur, st, unregErr, replacing>>

EndRemove(p) ==
    /\ pc[p] = "end_remove"
    /\ disk' = [disk EXCEPT ![SidOf[p]] = NoState]
    /\ ended' = ended \cup {st[p].handle}
    /\ Goto(p, IF replacing[p] THEN "mint" ELSE "done")
    /\ replacing' = [replacing EXCEPT ![p] = FALSE]
    /\ UNCHANGED <<faults, cpVars, daemonVars, cur, st, unregErr, retried, child>>

\* kill -9, a hook timeout, a closed terminal.
Kill(p) ==
    /\ Fault("kill")
    /\ Active(p)
    /\ Goto(p, "killed")
    /\ CliFrame /\ UNCHANGED <<cpVars, disk, cliVars>>

-----------------------------------------------------------------------------
(* The daemon's renewal loop.                                                *)

LoopFrame == UNCHANGED <<faults, up, pc, cliVars, child>>
\* The loop is done with the session it is working on.
NextSession ==
    /\ todo' = [todo EXCEPT ![th] = NoEntry]
    /\ th' = None
    /\ tkit' = None
    /\ tpc' = "scan"

\* Mutant: the cleanup test is inverted.
StillRegisteredInverted == {h \in dead : ~Registered(h)}

\* deadOwners keeps only handles of the snapshot (the code drops the others
\* at the end of the pass, which never looks at them).
DeadStillRegistered == {h \in dead : Registered(h)}

Tick ==
    /\ up /\ tpc = "wait"
    /\ todo' = reg
    /\ dueNow' = due
    /\ dead' = DeadStillRegistered
    /\ tpc' = "scan"
    /\ LoopFrame /\ UNCHANGED <<cpVars, disk, reg, th, tkit, ended>>

TickDone ==
    /\ tpc = "scan"
    /\ todo = [h \in Handle |-> NoEntry]
    /\ tpc' = "wait"
    /\ LoopFrame /\ UNCHANGED <<dueNow, cpVars, disk, reg, todo, th, tkit, dead, ended>>

InScan(h) == tpc = "scan" /\ todo[h] # NoEntry
OwnerGone(h) == todo[h].owner = "managed" /\ child[h] # "alive"
Skip(h) == todo' = [todo EXCEPT ![h] = NoEntry]

\* Not renewed in this pass: no verifiable owner, an owner that cannot be
\* checked, or a KIT that is not due.
ScanSkip(h) ==
    /\ InScan(h)
    /\ \/ todo[h].owner = "unverifiable" /\ UNCHANGED dead
       \/ todo[h].owner = "managed" /\ Fault("refuse") /\ UNCHANGED dead
       \/ /\ todo[h].owner # "unverifiable"
          /\ ~OwnerGone(h)
          /\ todo[h].ulid \notin dueNow
          /\ dead' = IF todo[h].owner = "managed" THEN dead \ {h} ELSE dead
    /\ Skip(h)
    /\ LoopFrame /\ UNCHANGED <<dueNow, cpVars, disk, reg, tpc, th, tkit, ended>>

\* First sight of a dead owner: leave its wrapper one interval to clean up.
ScanOwnerGone(h) ==
    /\ InScan(h)
    /\ OwnerGone(h)
    /\ h \notin dead
    /\ dead' = dead \cup {h}
    /\ Skip(h)
    /\ LoopFrame /\ UNCHANGED <<dueNow, cpVars, disk, reg, tpc, th, tkit, ended>>

\* Second sight: retireExitedSession takes the latest registry value.  With
\* Prompt, no end takes a polling interval from reading the state file to
\* reaching the daemon's socket ("give the wrapper one polling interval").
ScanRetire(h) ==
    /\ InScan(h)
    /\ OwnerGone(h)
    /\ h \in dead
    /\ Prompt => ~\E p \in Proc : pc[p] = "unregister" /\ st[p].handle = h
    /\ dead' = dead \ {h}
    /\ reg' = Take(h)
    /\ IF Registered(h)
       THEN /\ th' = h
            /\ tkit' = reg[h].ulid
            /\ tpc' = "retire_revoke"
            /\ UNCHANGED todo
       ELSE /\ Skip(h)
            /\ UNCHANGED <<th, tkit, tpc>>
    /\ LoopFrame /\ UNCHANGED <<dueNow, cpVars, disk, ended>>

ScanRenew(h) ==
    /\ InScan(h)
    /\ todo[h].owner # "unverifiable"
    /\ ~OwnerGone(h)
    /\ todo[h].ulid \in dueNow
    /\ dead' = IF todo[h].owner = "managed" THEN dead \ {h} ELSE dead
    /\ th' = h
    /\ tpc' = "renew_create"
    /\ LoopFrame /\ UNCHANGED <<dueNow, cpVars, disk, reg, todo, tkit, ended>>

RenewCreate ==
    /\ tpc = "renew_create"
    /\ \E k \in Kit : ReplaceKit(todo[th].ulid, k) /\ tkit' = k
    /\ tpc' = "renew_routes"
    /\ LoopFrame /\ UNCHANGED <<dueNow, disk, reg, todo, th, dead, ended>>

RenewRefused ==
    /\ tpc = "renew_create"
    /\ Fault("refuse") \/ Irreplaceable(todo[th].ulid)
    /\ NextSession
    /\ LoopFrame /\ UNCHANGED <<dueNow, cpVars, disk, reg, dead, ended>>

RenewLost ==
    /\ tpc = "renew_create"
    /\ Fault("leak")
    /\ \E k \in Kit : ReplaceKit(todo[th].ulid, k)
    /\ NextSession
    /\ LoopFrame /\ UNCHANGED <<dueNow, disk, reg, dead, ended>>

\* The routes of the replacement; only a live KIT can fetch them.
RenewRoutes ==
    /\ tpc = "renew_routes"
    /\ \/ kit[tkit] = "live" /\ tpc' = "renew_swap"
       \/ (kit[tkit] # "live" \/ Fault("refuse")) /\ tpc' = "renew_discard"
    /\ LoopFrame /\ UNCHANGED <<dueNow, cpVars, disk, reg, todo, th, tkit, dead, ended>>

\* Mutant: the swap does not check what the handle names now.
AlwaysExpected(h, ulid) == TRUE

\* ReplaceWith's check, under the registry lock.
StillExpected(h, ulid) == reg[h].ulid = ulid

\* Mutant: the state file keeps the superseded ULID.
UnrenewedState(h) == [handle |-> h, ulid |-> todo[h].ulid, owner |-> todo[h].owner]

\* What the renewal saves: the snapshot's handle and owner, the new KIT.
RenewedState(h) == [handle |-> h, ulid |-> tkit, owner |-> todo[h].owner]

\* ReplaceWith: swap and save under one lock, if the handle still names the
\* KIT the loop set out to renew.
RenewSwap ==
    /\ tpc = "renew_swap"
    /\ IF StillExpected(th, todo[th].ulid)
       THEN /\ reg' = [reg EXCEPT ![th] = [todo[th] EXCEPT !.ulid = tkit]]
            /\ \/ disk' = [disk EXCEPT ![SidOf[th]] = RenewedState(th)]
               \/ Fault("persist") /\ UNCHANGED disk
            /\ NextSession
       ELSE /\ tpc' = "renew_discard"
            /\ UNCHANGED <<disk, reg, todo, th, tkit>>
    /\ LoopFrame /\ UNCHANGED <<dueNow, cpVars, dead, ended>>

\* Mutant: the replacement of an ended session is dropped, not revoked.
RenewForgets ==
    /\ tpc = "renew_discard"
    /\ NextSession
    /\ LoopFrame /\ UNCHANGED <<dueNow, cpVars, disk, reg, dead, ended>>

\* A replacement that cannot be installed is revoked; a failure is ignored.
RenewDiscard ==
    /\ tpc = "renew_discard"
    /\ \/ kit' = Revoked(tkit)
       \/ Fault("leak") /\ UNCHANGED kit
    /\ NextSession
    /\ LoopFrame /\ UNCHANGED <<dueNow, succ, kitOf, due, disk, reg, dead, ended>>

RetireRevoke ==
    /\ tpc = "retire_revoke"
    /\ kit' = Revoked(tkit)
    /\ tpc' = "retire_remove"
    /\ LoopFrame /\ UNCHANGED <<dueNow, succ, kitOf, due, disk, reg, todo, th, tkit, dead, ended>>

RetireRevokeFails ==
    /\ tpc = "retire_revoke"
    /\ Fault("refuse")
    /\ NextSession
    /\ LoopFrame /\ UNCHANGED <<dueNow, cpVars, disk, reg, dead, ended>>

RetireRemove ==
    /\ tpc = "retire_remove"
    /\ disk' = [disk EXCEPT ![SidOf[th]] = NoState]
    /\ ended' = ended \cup {th}
    /\ NextSession
    /\ LoopFrame /\ UNCHANGED <<dueNow, cpVars, reg, dead>>

\* The registry and the loop live in memory only.
DaemonCrash ==
    /\ up
    /\ Fault("crash")
    /\ up' = FALSE
    /\ reg' = [h \in Handle |-> NoEntry]
    /\ tpc' = "wait" /\ th' = None /\ tkit' = None /\ dead' = {} /\ dueNow' = {}
    /\ todo' = [h \in Handle |-> NoEntry]
    /\ UNCHANGED <<faults, cpVars, disk, pc, cliVars, child, ended>>

DaemonStart ==
    /\ ~up
    /\ up' = TRUE
    /\ UNCHANGED <<faults, cpVars, disk, reg, loopVars, pc, cliVars, child, ended>>

-----------------------------------------------------------------------------
StartStep(p) ==
    \/ StartLoad(p) \/ Mint(p) \/ MintRefused(p) \/ MintLost(p)
    \/ Routes(p) \/ RoutesRejected(p) \/ Save(p) \/ SaveFails(p)
    \/ RollbackRevoke(p) \/ Register(p) \/ RegisterUnacked(p) \/ RegisterFails(p)
    \/ RollbackRegister(p) \/ RollbackRetained(p) \/ RollbackRemove(p)
    \/ OwnerLoad(p) \/ OwnerSave(p) \/ OwnerSend(p) \/ OwnerSendFails(p)

RunStep(p) == Spawn(p) \/ SpawnFails(p) \/ RunEnds(p)

EndStep(p) ==
    \/ EndLoad(p) \/ EndNoState(p)
    \/ Unregister(p) \/ UnregisterUnacked(p) \/ UnregisterFails(p)
    \/ EndSave(p) \/ EndRevoke(p) \/ EndRevokeFails(p) \/ EndRemove(p)

ScanStep(h) ==
    ScanSkip(h) \/ ScanOwnerGone(h) \/ ScanRetire(h) \/ ScanRenew(h)

LoopStep ==
    \/ Tick \/ TickDone \/ \E h \in Handle : ScanStep(h)
    \/ RenewCreate \/ RenewRefused \/ RenewLost \/ RenewRoutes \/ RenewSwap
    \/ RenewDiscard \/ RetireRevoke \/ RetireRevokeFails \/ RetireRemove

Next ==
    \/ \E k \in Kit : Age(k)
    \/ \E p \in Proc : Launch(p) \/ EndStep(p) \/ Kill(p)
    \/ \E p \in Handle : StartStep(p)
    \/ \E p \in Runner : RunStep(p) \/ ChildExit(p)
    \/ LoopStep
    \/ DaemonCrash
    \/ DaemonStart

Spec == Init /\ [][Next]_vars

\* A started CLI process keeps running unless it is killed, a killed
\* wrapper's child ends some day, and the daemon's loop is scheduled; nothing
\* makes a process start, a fault happen or a KIT age.
FairSpec ==
    /\ Spec
    /\ \A p \in Handle : WF_vars(StartStep(p))
    /\ \A p \in Proc : WF_vars(EndStep(p))
    /\ \A p \in Runner : WF_vars(RunStep(p)) /\ WF_vars(ChildExit(p))
    /\ WF_vars(LoopStep)
    /\ WF_vars(DaemonStart)

-----------------------------------------------------------------------------
(* Properties.                                                               *)

\* Every variable keeps its type.
TypeOK ==
    /\ faults \subseteq FaultClass
    /\ kit \in [Kit -> KitStatus]
    /\ succ \in [Kit -> Kit \cup {None}]
    /\ kitOf \in [Kit -> Handle \cup {None}]
    /\ due \subseteq Kit
    /\ disk \in [Sid -> State]
    /\ up \in BOOLEAN
    /\ reg \in [Handle -> Entry]
    /\ tpc \in LoopPc
    /\ todo \in [Handle -> Entry]
    /\ th \in Handle \cup {None}
    /\ tkit \in Kit \cup {None}
    /\ dueNow \subseteq Kit
    /\ dead \subseteq Handle
    /\ pc \in [Proc -> ProcPc]
    /\ cur \in [Proc -> Kit \cup {None}]
    /\ st \in [Proc -> State]
    /\ unregErr \in [Proc -> BOOLEAN]
    /\ replacing \in [Proc -> BOOLEAN]
    /\ retried \in [Proc -> BOOLEAN]
    /\ child \in [Runner -> {"none", "alive", "exited"}]
    /\ ended \subseteq Handle

Live(k) == kit[k] = "live"

\* Someone is still going to install or revoke k.
Held(k) ==
    \/ \E h \in Handle : reg[h].ulid = k
    \/ \E s \in Sid : disk[s].ulid = k
    \/ tkit = k
    \/ \E p \in Proc :
          /\ cur[p] = k
          /\ pc[p] \in {"routes", "save", "register", "end_save", "revoke"} \cup RollbackPc

\* Failures the cleanup of starts, ends, renewals and retirements copes with:
\* calls fail and answers get lost, or state files cannot be written, but not
\* both; no mint or rollback answer is lost and nothing dies.
Survivable ==
    /\ faults \cap {"leak", "kill", "crash"} = {}
    /\ "persist" \in faults => faults \cap {"refuse", "loseAck"} = {}

\* No credential is orphaned: every live KIT is registered, on disk, or in the
\* hands of a step that will install or revoke it - whatever calls fail, acks
\* get lost, renewals, ends and retirements cross (hook.go: "so its ULID is
\* never orphaned").
LiveKitHeld == Survivable => \A k \in Kit : Live(k) => Held(k)

\* A session that was reported ended (hookSessionEnd returned 0, or the
\* daemon retired it) has no live KIT left, except one that a renewal still
\* in flight obtained and is going to discard.
EndedIsDead ==
    Survivable => \A k \in Kit : Live(k) /\ kitOf[k] \in ended => tkit = k

\* The KITs that act for a session that was not reported ended: what
\* SessionContract promises about, as long as the failures are survivable.
Current == {k \in Kit : Live(k) /\ kitOf[k] \notin ended}
InForce == {<<kitOf[k], k>> : k \in Current}
Issued == Kit \ Unused
Promised(set) == IF Survivable THEN set ELSE {}

\* The starts, renewals, ends and retirements of all sessions together keep
\* the contract: an instance starts once, when no earlier instance of its
\* session has a live KIT ("a repeated SessionStart revokes the previous
\* instance before replacing it", README.md:573); a renewal hands over in one
\* step; and a session whose KIT was withdrawn never has one again.
Contract == INSTANCE SessionContract WITH
                Instance <- Handle,
                Credential <- Kit,
                live <- Promised(InForce),
                started <- Promised({kitOf[k] : k \in Issued}),
                issued <- Promised(Issued)
ContractSpec == Contract!Spec

\* ReplaceWith saves under the registry lock, "preventing SessionEnd from
\* unregistering the renewed identity before its durable state has been
\* replaced": the state file of a registered session names its handle and its
\* current KIT, unless a rollback already revoked that KIT.
DurableCoversRegistry ==
    "persist" \notin faults => \A h \in Handle :
        Registered(h) /\ kit[reg[h].ulid] # "revoked"
            => disk[SidOf[h]].handle = h /\ disk[SidOf[h]].ulid = reg[h].ulid

\* An ended session never comes back into the registry, however late a
\* renewal, an owner update or a registration arrives.
EndedStaysUnregistered == [][\A h \in ended : reg'[h] = NoEntry]_vars

\* The strengthening EndedStaysUnregistered rests on.  A start has not
\* registered its handle before the pc's of PreSave and "register"; until then
\* nothing else knows the handle.
PreSave(h) ==
    \/ pc[h] \in {"idle", "start", "mint", "routes", "save"}
    \/ pc[h] \in EndPc /\ replacing[h]
PreRegister(h) == PreSave(h) \/ pc[h] = "register"

\* Shapes: presence is the ulid; each process has what its step needs.
Shape ==
    /\ \A h \in Handle : reg[h].ulid = None => reg[h] = NoEntry
    /\ \A h \in Handle : todo[h].ulid = None => todo[h] = NoEntry
    /\ \A p \in Proc :
          /\ pc[p] \in {"routes", "save", "register"} => p \in Handle /\ cur[p] # None
          /\ replacing[p] => pc[p] \in EndPc \cup FinalPc
    /\ tpc \in {"renew_create", "renew_routes", "renew_swap", "renew_discard"}
          => th \in Handle /\ todo[th].ulid # None
    /\ tpc \in {"renew_routes", "renew_swap"} => tkit # None
    /\ tpc \in {"retire_revoke", "retire_remove"} => th \in Handle

\* CLI processes of one session id do not overlap.
Serial ==
    \A p, q \in Proc : Active(p) /\ Active(q) /\ SidOf[p] = SidOf[q] => p = q

\* State files, loaded records, registry entries and a retirement only know
\* handles whose start has come that far; an end that took its session and a
\* retirement find it gone from the registry.
SavedHandles ==
    \A s \in Sid : Saved(s) =>
        disk[s].handle \in Handle /\ SidOf[disk[s].handle] = s /\ ~PreSave(disk[s].handle)
Loaded(p) == pc[p] \in (EndPc \ {"end_load"}) \cup {"owner_save", "owner_send"}
LoadedHandles ==
    \A p \in Proc : Loaded(p) =>
        LET h == st[p].handle
        IN  h \in Handle /\ SidOf[h] = SidOf[p] /\ ~PreRegister(h)
Taken(p) ==
    \/ pc[p] \in {"end_save", "end_remove"}
    \/ pc[p] = "revoke" /\ ~unregErr[p]
RegisteredHandles ==
    /\ \A h \in Handle : Registered(h) => ~PreRegister(h)
    /\ \A p \in Proc : Taken(p) => ~Registered(st[p].handle)
    /\ tpc \in {"retire_revoke", "retire_remove"} => ~PreRegister(th) /\ ~Registered(th)

\* An ended session is out of the registry, and its start can no longer
\* register it.
EndedHandles == \A h \in ended : ~Registered(h) /\ ~PreRegister(h)

EndedInv ==
    /\ TypeOK /\ Shape /\ Serial /\ SavedHandles /\ LoadedHandles
    /\ RegisteredHandles /\ EndedHandles

\* Whatever was in flight when a session ended, its KITs die.
EndedDies ==
    \A k \in Kit : (kitOf[k] \in ended /\ faults \cap {"leak", "crash"} = {}) ~> (kitOf[k] \in ended /\ ~Live(k))

\* A managed session whose process is gone does not stay registered (and is
\* not renewed for ever): the wrapper ends it or the daemon retires it.
ExitedOwnerIsRetired ==
    \A h \in Runner :
        (reg[h].owner = "managed" /\ child[h] = "exited" /\ "refuse" \notin faults)
            ~> ~Registered(h)

\* run.go:57-59, "OS-level hard kills are handled by the daemon's
\* managed-owner liveness check": a registered session whose wrapper was
\* killed has an owner the daemon can watch.
HardKillIsWatched ==
    \A p \in Runner : pc[p] = "killed" /\ Registered(p) => reg[p].owner = "managed"

=============================================================================
