----------------------------- MODULE ProxyControl -----------------------------
(***************************************************************************)
(* The life of the proxy daemon: "keydris proxy up" starts it in the       *)
(* background, "proxy down" stops it, "reset" stops it and deletes its     *)
(* files.  Nothing supervises the daemon.  The commands find it through    *)
(* what it and they leave on the machine: the pid file, an advisory lock   *)
(* between commands, the reset guard, the session socket and its secret,   *)
(* the listening port, and, in the transparent plane, the packet rules and *)
(* a sysctl.  Any process may be killed between two steps.                 *)
(*                                                                         *)
(* A process is named by its identity (pid and start time), so a daemon    *)
(* stands for the record that names it; a pid that the system gave to      *)
(* another program is in `recycled`.                                       *)
(***************************************************************************)
EXTENDS FiniteSets, Naturals

CONSTANTS
  Cmd,        \* terminals, each running one command at a time
  Daemon,     \* child processes that proxy up may start
  Caller,     \* hooks and inits, which come to use the session secret once
  Planes,     \* data planes to configure, of {"sandbox", "transparent"}
  MaxRuns,    \* bound: commands in all
  MaxKills,   \* bound: processes killed by the system or the user
  None,       \* no file, no holder, no child
  Torn        \* a pid file truncated by a write that did not finish

ASSUME ControlAssumption ==
  /\ Planes \subseteq {"sandbox", "transparent"}
  /\ MaxRuns \in Nat /\ MaxKills \in Nat
  /\ IsFiniteSet(Daemon) /\ IsFiniteSet(Cmd)
  /\ None \notin Daemon \cup Cmd \cup {Torn, "left"}
               \cup ({"empty", "full"} \X (Daemon \cup Caller))
  /\ Torn \notin Daemon /\ "left" \notin Cmd /\ Caller \cap Daemon = {}

VARIABLES
  plane,      \* the configured data plane
  op,         \* what a command was asked to do
  cpc,        \* where the command is
  child,      \* the daemon an up has started
  target,     \* the daemon a down is stopping
  plan,       \* the files a reset found when it was confirmed
  pidFile, lock, guard, secret, sock, port,
  rules,      \* the KEYDRIS chain: "none", "chain", or "jump" once OUTPUT enters it
  localnet,   \* the sysctl route_localnet
  dpc,        \* where a daemon is
  asked,      \* daemons with a SIGTERM delivered and caught
  mine,       \* the secret a daemon loaded, by its creator
  saved,      \* daemons that remember a route_localnet to restore
  conn,       \* the connection a daemon's worker is busy with
  hpc,        \* where a caller is with the secret
  recycled,   \* dead daemons whose pid another program has
  runs, kills,
  orphans,    \* history: daemons whose proxy up was killed before recording them
  overlap,    \* history: a reset found no pid file while an up was at work
  wiped,      \* history: a reset deleted the secret under a daemon
  withdrawn,  \* history: a creator that failed removed a secret others may have read,
              \* or the file another had created since
  leftRules,  \* history: rules stayed behind, at a kill or a teardown that failed,
              \* and no teardown has succeeded since
  leftLocalnet, \* history: so did the sysctl
  localnet0   \* history: the sysctl before Keydris first ran

cmdVars == <<op, cpc, child, target, plan>>
fileVars == <<pidFile, lock, guard>>
sharedVars == <<secret, sock, port>>
netVars == <<rules, localnet, saved>>
daemonVars == <<dpc, asked, mine, conn>>
historyVars == <<orphans, overlap, wiped, withdrawn, leftRules, leftLocalnet, localnet0>>
vars == <<plane, cmdVars, fileVars, sharedVars, netVars, daemonVars,
          hpc, recycled, runs, kills, historyVars>>

Starting == {"start", "secret", "write_secret", "sync_secret"}
Marked == {"running", "draining", "unhook", "flush"}
UpStage == {"up_inspect", "up_record", "up_write", "up_poll", "up_reap"}

\* Terminals are alike, and so are the processes the system makes: a command begins
\* in a certain one that is free, and its child is a certain new one.
FirstChild == CHOOSE d \in Daemon : TRUE
NextChild == CHOOSE d \in Daemon : dpc[d] = "none"
NextTerminal == CHOOSE c \in Cmd : cpc[c] = "idle"

\* A machine where Keydris never ran.
Fresh ==
  /\ pidFile = None /\ secret = None /\ sock = None /\ port = None
  /\ rules = "none" /\ localnet = localnet0 /\ saved = {}
  /\ dpc = [d \in Daemon |-> "none"] /\ mine = [d \in Daemon |-> None]

\* One where an earlier proxy up has succeeded.
AlreadyUp(d) ==
  /\ pidFile = d /\ secret = <<"full", d>> /\ sock = d /\ port = d
  /\ dpc = [e \in Daemon |-> IF e = d THEN "running" ELSE "none"]
  /\ mine = [e \in Daemon |-> IF e = d THEN d ELSE None]
  /\ IF plane = "sandbox" THEN rules = "none" /\ localnet = localnet0 /\ saved = {}
     ELSE rules = "jump" /\ localnet = "1" /\ saved = {e \in {d} : localnet0 = "0"}

Init ==
  /\ plane \in Planes
  /\ op = [c \in Cmd |-> None] /\ cpc = [c \in Cmd |-> "idle"]
  /\ child = [c \in Cmd |-> None] /\ target = [c \in Cmd |-> None]
  /\ plan = [c \in Cmd |-> {}]
  /\ lock = None /\ guard = None
  /\ localnet0 \in IF plane = "sandbox" THEN {"0"} ELSE {"0", "1"}
  /\ Fresh \/ \E d \in Daemon : d = FirstChild /\ AlreadyUp(d)
  /\ asked = {} /\ conn = [d \in Daemon |-> "none"]
  /\ hpc = [h \in Caller |-> "idle"]
  /\ recycled = {} /\ runs = 0 /\ kills = 0
  /\ orphans = {} /\ overlap = FALSE /\ wiped = FALSE /\ withdrawn = FALSE
  /\ leftRules = FALSE /\ leftLocalnet = FALSE

-----------------------------------------------------------------------------
(* What commands see. *)

Alive(d) == dpc[d] \notin {"none", "dead"}

\* The session socket answers with the daemon's own pid, says it is ready, and
\* the port accepts.  The secret comes from the file.
Healthy(d) ==
  /\ dpc[d] \in Marked
  /\ sock = d /\ secret = <<"full", mine[d]>>
  /\ port # None

\* "unverified" is the error that names no process.
InspectProxy ==
  IF pidFile = Torn \/ pidFile \in recycled THEN "unverified"
  ELSE IF pidFile # None /\ Alive(pidFile) THEN IF Healthy(pidFile) THEN "ok" ELSE "error"
  ELSE IF port # None THEN "unverified" ELSE "inactive"

Unlock(c) == lock' = IF lock = c THEN None ELSE lock

\* A process ends, by itself or not: what it knew is gone, its lock released.
Leave(c) ==
  /\ op' = [op EXCEPT ![c] = None] /\ cpc' = [cpc EXCEPT ![c] = "idle"]
  /\ child' = [child EXCEPT ![c] = None] /\ target' = [target EXCEPT ![c] = None]
  /\ plan' = [plan EXCEPT ![c] = {}]
  /\ Unlock(c)

\* A command returns; the guard goes by a deferred call of the reset that made it.
Finish(c) ==
  /\ Leave(c)
  /\ guard' = IF guard = c THEN None ELSE guard

-----------------------------------------------------------------------------
(* proxy up, the parent. *)

Begin(c, what) ==
  /\ cpc[c] = "idle" /\ c = NextTerminal /\ runs < MaxRuns
  /\ runs' = runs + 1
  /\ op' = [op EXCEPT ![c] = what]

\* The bound: there is a child process for every up.
UpBegin(c) ==
  /\ Cardinality({d \in Daemon : dpc[d] = "none"})
       > Cardinality({e \in Cmd : cpc[e] \in {"up_lock", "up_inspect"}})
  /\ guard = None
  /\ Begin(c, "up")
  /\ cpc' = [cpc EXCEPT ![c] = "up_lock"]
  /\ UNCHANGED <<plane, child, target, plan, fileVars, sharedVars, netVars, daemonVars,
                 hpc, recycled, kills, historyVars>>

\* Mutant: the lock is not waited for, and not needed.
UpWithoutLock(c) ==
  /\ cpc[c] = "up_lock"
  /\ \/ /\ guard = None
        /\ lock' = c /\ cpc' = [cpc EXCEPT ![c] = "up_inspect"]
        /\ UNCHANGED <<op, child, target, plan, guard>>
     \/ guard # None /\ Finish(c)
  /\ UNCHANGED <<plane, pidFile, sharedVars, netVars, daemonVars, hpc, recycled, runs, kills, historyVars>>

\* Non-blocking; with the lock the guard is read again.
UpLock(c) ==
  /\ cpc[c] = "up_lock"
  /\ \/ /\ lock = None /\ guard = None
        /\ lock' = c /\ cpc' = [cpc EXCEPT ![c] = "up_inspect"]
        /\ UNCHANGED <<op, child, target, plan, guard>>
     \/ /\ lock # None \/ guard # None
        /\ Finish(c)
  /\ UNCHANGED <<plane, pidFile, sharedVars, netVars, daemonVars, hpc, recycled, runs, kills, historyVars>>

\* Something runs already, or the child cannot be started, or it is.
UpInspect(c) ==
  /\ cpc[c] = "up_inspect"
  /\ \/ Finish(c) /\ UNCHANGED dpc
     \/ /\ InspectProxy = "inactive"
        /\ \E d \in {e \in Daemon : dpc[e] = "none" /\ e = NextChild} :
             /\ child' = [child EXCEPT ![c] = d]
             /\ dpc' = [dpc EXCEPT ![d] = "start"]
        /\ cpc' = [cpc EXCEPT ![c] = "up_record"]
        /\ UNCHANGED <<op, target, plan, lock, guard>>
  /\ UNCHANGED <<plane, pidFile, sharedVars, netVars, asked, mine, conn,
                 hpc, recycled, runs, kills, historyVars>>

\* A SIGTERM before the daemon catches signals ends it at once.
Terminate(d) ==
  IF dpc[d] = "start" THEN dpc' = [dpc EXCEPT ![d] = "dead"] /\ asked' = asked
  ELSE asked' = asked \cup {d} /\ dpc' = dpc

\* The pid file is truncated, then written.  A child already gone has no
\* identity to record.
UpRecord(c) ==
  /\ cpc[c] = "up_record"
  /\ IF Alive(child[c])
     THEN pidFile' = Torn /\ cpc' = [cpc EXCEPT ![c] = "up_write"]
     ELSE pidFile' = pidFile /\ cpc' = [cpc EXCEPT ![c] = "up_reap"]
  /\ UNCHANGED <<plane, op, child, target, plan, lock, guard, sharedVars, netVars, daemonVars,
                 hpc, recycled, runs, kills, historyVars>>

UpWrite(c) ==
  /\ cpc[c] = "up_write"
  /\ pidFile' = child[c]
  /\ cpc' = [cpc EXCEPT ![c] = "up_poll"]
  /\ UNCHANGED <<plane, op, child, target, plan, lock, guard, sharedVars, netVars, daemonVars,
                 hpc, recycled, runs, kills, historyVars>>

\* No identity, or no record: the child is asked to stop and waited for.  What a
\* failed write left stays.
UpAbandon(c) ==
  /\ cpc[c] \in {"up_record", "up_write"}
  /\ cpc' = [cpc EXCEPT ![c] = "up_reap"]
  /\ IF Alive(child[c]) THEN Terminate(child[c]) ELSE UNCHANGED <<dpc, asked>>
  /\ UNCHANGED <<plane, op, child, target, plan, fileVars, sharedVars, netVars, mine,
                 conn, hpc, recycled, runs, kills, historyVars>>

\* Up to eight seconds: the child is gone (its record goes too), or healthy, or
\* time is up and the process is kept.
UpPoll(c) ==
  /\ cpc[c] = "up_poll"
  /\ pidFile' = IF Alive(child[c]) THEN pidFile ELSE None
  /\ Finish(c)
  /\ UNCHANGED <<plane, sharedVars, netVars, daemonVars, hpc, recycled, runs, kills, historyVars>>

UpReap(c) ==
  /\ cpc[c] = "up_reap" /\ ~Alive(child[c])
  /\ Finish(c)
  /\ UNCHANGED <<plane, pidFile, sharedVars, netVars, daemonVars, hpc, recycled, runs, kills, historyVars>>

-----------------------------------------------------------------------------
(* proxy down, and the same steps within reset. *)

DownBegin(c) ==
  /\ Begin(c, "down")
  /\ cpc' = [cpc EXCEPT ![c] = "down_read"]
  /\ UNCHANGED <<plane, child, target, plan, fileVars, sharedVars, netVars, daemonVars,
                 hpc, recycled, kills, historyVars>>

\* A reset goes on once the proxy is stopped.
Stopped(c) ==
  IF op[c] = "down" THEN Finish(c)
  ELSE /\ cpc' = [cpc EXCEPT ![c] = "reset_revoke"]
       /\ Unlock(c)
       /\ UNCHANGED <<op, child, target, plan, guard>>

\* Some up holds the lock and has passed the guard.
UpAtWork == \E c \in Cmd : cpc[c] \in UpStage

\* Without a pid file the proxy counts as stopped, whoever holds the lock.
DownRead(c) ==
  /\ cpc[c] = "down_read"
  /\ IF pidFile = None
     THEN /\ Stopped(c)
          /\ overlap' = (overlap \/ (op[c] = "reset" /\ UpAtWork))
     ELSE /\ cpc' = [cpc EXCEPT ![c] = "down_lock"]
          /\ UNCHANGED <<op, child, target, plan, lock, guard, overlap>>
  /\ UNCHANGED <<plane, pidFile, sharedVars, netVars, daemonVars,
                 hpc, recycled, runs, kills, orphans, wiped, withdrawn,
                 leftRules, leftLocalnet, localnet0>>

\* Under the lock the file is read again.  The identity is compared and the
\* signal sent in one step.
DownLock(c) ==
  /\ cpc[c] = "down_lock"
  /\ \/ /\ lock # None \/ pidFile = Torn \/ pidFile \in recycled
        /\ Finish(c)
        /\ UNCHANGED <<pidFile, dpc, asked>>
     \/ /\ lock = None /\ pidFile \in {None} \cup {d \in Daemon \ recycled : ~Alive(d)}
        /\ pidFile' = None
        /\ Stopped(c)
        /\ UNCHANGED <<dpc, asked>>
     \/ /\ lock = None /\ pidFile \in {d \in Daemon : Alive(d)}
        /\ Terminate(pidFile)
        /\ target' = [target EXCEPT ![c] = pidFile]
        /\ cpc' = [cpc EXCEPT ![c] = "down_wait"]
        /\ lock' = c
        /\ UNCHANGED <<op, child, plan, pidFile, guard>>
  /\ UNCHANGED <<plane, sharedVars, netVars, mine, conn, hpc, recycled, runs, kills, historyVars>>

\* Mutant: the pid file goes when time is up, too.
DownForgets(c) ==
  /\ cpc[c] = "down_wait"
  /\ pidFile' = None
  /\ IF Alive(target[c]) THEN Finish(c) ELSE Stopped(c)
  /\ UNCHANGED <<plane, sharedVars, netVars, daemonVars, hpc, recycled, runs, kills, historyVars>>

\* Mutant: a reset goes on although the daemon did not end in time.
ResetPresses(c) ==
  /\ cpc[c] = "down_wait"
  /\ pidFile' = IF Alive(target[c]) THEN pidFile ELSE None
  /\ Stopped(c)
  /\ UNCHANGED <<plane, sharedVars, netVars, daemonVars, hpc, recycled, runs, kills, historyVars>>

\* Three seconds; the record stays if the daemon does not end.
DownWait(c) ==
  /\ cpc[c] = "down_wait"
  /\ IF Alive(target[c]) THEN UNCHANGED pidFile /\ Finish(c)
     ELSE pidFile' = None /\ Stopped(c)
  /\ UNCHANGED <<plane, sharedVars, netVars, daemonVars, hpc, recycled, runs, kills, historyVars>>

-----------------------------------------------------------------------------
(* reset: plan, guard, stop, revoke, delete what the plan names.  The lock   *)
(* file is always in the plan.                                               *)

ResetPlan(c) ==
  /\ Begin(c, "reset")
  /\ plan' = [plan EXCEPT ![c] = {t \in {"pid"} : pidFile # None}
                \cup {t \in {"sock"} : sock # None} \cup {t \in {"secret"} : secret # None}]
  /\ cpc' = [cpc EXCEPT ![c] = "reset_guard"]
  /\ UNCHANGED <<plane, child, target, fileVars, sharedVars, netVars, daemonVars,
                 hpc, recycled, kills, historyVars>>

\* Created exclusively: one reset at a time, and none after one was killed.
ResetGuard(c) ==
  /\ cpc[c] = "reset_guard"
  /\ \/ /\ guard = None
        /\ guard' = c /\ cpc' = [cpc EXCEPT ![c] = "reset_inspect"]
        /\ UNCHANGED <<op, child, target, plan, lock>>
     \/ guard # None /\ Finish(c)
  /\ UNCHANGED <<plane, pidFile, sharedVars, netVars, daemonVars, hpc, recycled, runs, kills, historyVars>>

\* Live agent sessions or an unverified process stop it here.
ResetInspect(c) ==
  /\ cpc[c] = "reset_inspect"
  /\ \/ /\ InspectProxy # "unverified"
        /\ cpc' = [cpc EXCEPT ![c] = "down_read"]
        /\ UNCHANGED <<op, child, target, plan, lock, guard>>
     \/ Finish(c)
  /\ UNCHANGED <<plane, pidFile, sharedVars, netVars, daemonVars, hpc, recycled, runs, kills, historyVars>>

\* Sessions are revoked, trust is removed, settings are edited.
ResetRevoke(c) ==
  /\ cpc[c] = "reset_revoke"
  /\ cpc' = [cpc EXCEPT ![c] = "reset_pid"]
  /\ UNCHANGED <<plane, op, child, target, plan, fileVars, sharedVars, netVars, daemonVars,
                 hpc, recycled, runs, kills, historyVars>>

\* Each of these may fail, and so may a deletion; the files that are left stay.
ResetFails(c) ==
  /\ cpc[c] \in {"reset_revoke", "reset_pid", "reset_secret"}
  /\ Finish(c)
  /\ UNCHANGED <<plane, pidFile, sharedVars, netVars, daemonVars, hpc, recycled, runs, kills, historyVars>>

\* In the order of their paths, proxy.lock and proxy.pid first.  The next file at
\* the lock's path is another lock.
ResetDeletePid(c) ==
  /\ cpc[c] = "reset_pid"
  /\ cpc' = [cpc EXCEPT ![c] = "reset_secret"]
  /\ lock' = None
  /\ pidFile' = IF "pid" \in plan[c] THEN None ELSE pidFile
  /\ UNCHANGED <<plane, op, child, target, plan, guard, sharedVars, netVars, daemonVars,
                 hpc, recycled, runs, kills, historyVars>>

\* registry.sock and session.auth.
ResetDeleteSecret(c) ==
  /\ cpc[c] = "reset_secret"
  /\ sock' = IF "sock" \in plan[c] THEN None ELSE sock
  /\ secret' = IF "secret" \in plan[c] THEN None ELSE secret
  /\ wiped' = (wiped \/ ("secret" \in plan[c] /\ \E d \in Daemon : Alive(d)))
  /\ Finish(c)
  /\ UNCHANGED <<plane, pidFile, port, netVars, daemonVars, hpc, recycled, runs, kills,
                 orphans, overlap, withdrawn, leftRules, leftLocalnet, localnet0>>

-----------------------------------------------------------------------------
(* The daemon.  Its deferred calls run in reverse order on every return, and *)
(* not at all if it is killed or a goroutine panics.                         *)

Goto(d, stage) == dpc' = [dpc EXCEPT ![d] = stage]
ClosePort(d) == port' = IF port = d THEN None ELSE port

\* The guard, once more in the child; from here signals are caught.  Identity,
\* client, scope and ledger follow, each of which may fail.
Start(d) ==
  /\ dpc[d] = "start"
  /\ Goto(d, IF guard = None THEN "secret" ELSE "dead")
  /\ UNCHANGED <<plane, cmdVars, fileVars, sharedVars, netVars, asked, mine, conn,
                 hpc, recycled, runs, kills, historyVars>>

\* What is at the path, for a process that has created the file and goes on; the
\* file may have been deleted since.
FillsSecret(x) == secret' = IF secret = <<"empty", x>> THEN <<"full", x>> ELSE secret

\* A write, Sync or Close that fails: the creator removes whatever is at the path.
WithdrawsSecret(x) ==
  /\ secret' = None
  /\ withdrawn' = (withdrawn \/ secret \notin {None, <<"empty", x>>})

\* Mutant: an empty file is taken for none.
CreateSecret(d) ==
  /\ dpc[d] = "secret"
  /\ \/ /\ secret \in {None} \cup ({"empty"} \X (Daemon \cup Caller))
        /\ secret' = <<"empty", d>> /\ Goto(d, "write_secret")
        /\ UNCHANGED mine
     \/ /\ secret # None /\ secret[1] = "full"
        /\ mine' = [mine EXCEPT ![d] = secret[2]] /\ Goto(d, "serve")
        /\ UNCHANGED secret
  /\ UNCHANGED <<plane, cmdVars, fileVars, sock, port, netVars, asked, conn,
                 hpc, recycled, runs, kills, historyVars>>

\* The exclusive creation decides who writes; a reader waits while it is empty.
LoadOrCreateSecret(d) ==
  /\ dpc[d] = "secret"
  /\ \/ /\ secret = None
        /\ secret' = <<"empty", d>> /\ Goto(d, "write_secret")
        /\ UNCHANGED mine
     \/ /\ secret # None /\ secret[1] = "full"
        /\ mine' = [mine EXCEPT ![d] = secret[2]] /\ Goto(d, "serve")
        /\ UNCHANGED secret
  /\ UNCHANGED <<plane, cmdVars, fileVars, sock, port, netVars, asked, conn,
                 hpc, recycled, runs, kills, historyVars>>

\* From here on others can read it.
WriteSecret(d) ==
  /\ dpc[d] = "write_secret"
  /\ FillsSecret(d)
  /\ Goto(d, "sync_secret")
  /\ UNCHANGED <<plane, cmdVars, fileVars, sock, port, netVars, asked, mine, conn,
                 hpc, recycled, runs, kills, historyVars>>

\* Sync and Close.
SyncSecret(d) ==
  /\ dpc[d] = "sync_secret"
  /\ mine' = [mine EXCEPT ![d] = d]
  /\ Goto(d, "serve")
  /\ UNCHANGED <<plane, cmdVars, fileVars, sharedVars, netVars, asked, conn,
                 hpc, recycled, runs, kills, historyVars>>

\* A hook, a session's wrapper or an init that finds no secret; one that finds
\* a secret only reads it.
CallerCreates(h) ==
  /\ hpc[h] = "idle" /\ secret = None
  /\ secret' = <<"empty", h>>
  /\ hpc' = [hpc EXCEPT ![h] = "write"]
  /\ UNCHANGED <<plane, cmdVars, fileVars, sock, port, netVars, daemonVars,
                 recycled, runs, kills, historyVars>>

CallerWrites(h) ==
  /\ hpc[h] = "write"
  /\ FillsSecret(h)
  /\ hpc' = [hpc EXCEPT ![h] = "sync"]
  /\ UNCHANGED <<plane, cmdVars, fileVars, sock, port, netVars, daemonVars,
                 recycled, runs, kills, historyVars>>

\* After Sync and Close nothing of the caller is left to tell.
CallerFails(h) ==
  /\ hpc[h] \in {"write", "sync"}
  /\ WithdrawsSecret(h)
  /\ hpc' = [hpc EXCEPT ![h] = "done"]
  /\ UNCHANGED <<plane, cmdVars, fileVars, sock, port, netVars, daemonVars,
                 recycled, runs, kills, orphans, overlap, wiped, leftRules, leftLocalnet, localnet0>>

\* Twenty reads of an empty file.
SecretGivesUp(d) ==
  /\ dpc[d] = "secret" /\ secret # None /\ secret[1] = "empty"
  /\ Goto(d, "dead")
  /\ UNCHANGED <<plane, cmdVars, fileVars, sharedVars, netVars, asked, mine, conn,
                 hpc, recycled, runs, kills, historyVars>>

\* Whatever is at the path is removed first.
Serve(d) ==
  /\ dpc[d] = "serve"
  /\ sock' = d
  /\ Goto(d, "plane")
  /\ UNCHANGED <<plane, cmdVars, fileVars, secret, port, netVars, asked, mine, conn,
                 hpc, recycled, runs, kills, historyVars>>

BuildDataPlane(d) ==
  /\ dpc[d] = "plane"
  /\ IF port = None
     THEN port' = d /\ Goto(d, IF plane = "transparent" THEN "rules" ELSE "ready")
     ELSE port' = port /\ Goto(d, "flush")
  /\ UNCHANGED <<plane, cmdVars, fileVars, secret, sock, netVars, asked, mine, conn,
                 hpc, recycled, runs, kills, historyVars>>

\* iptables -D, -F and -X, each of which may fail without a word: what may be left.
Leftover == [none |-> {"none"}, chain |-> {"none", "chain"}, jump |-> {"none", "chain", "jump"}]

ChainDown ==
  /\ rules' \in Leftover[rules]
  /\ leftRules' = (rules' # "none")

\* The daemon exits without another try if the sysctl cannot be written.
RestoreLocalnet(d) ==
  \/ /\ localnet' = IF d \in saved THEN "0" ELSE localnet
     /\ saved' = saved \ {d}
     /\ UNCHANGED leftLocalnet
  \/ /\ d \in saved
     /\ leftLocalnet' = TRUE
     /\ UNCHANGED <<localnet, saved>>

\* Mutant: the sysctl is not put back.
RulesRemoved(d) == ChainDown /\ UNCHANGED <<localnet, saved, leftLocalnet>>

RulesDown(d) == ChainDown /\ RestoreLocalnet(d)

\* Down first, then the sysctl (best effort, remembered if it changed), then the
\* chain, which must not be there any more.
RulesUp(d) ==
  /\ dpc[d] = "rules"
  /\ rules' = "chain" /\ leftRules' = FALSE
  /\ \/ localnet = "0" /\ localnet' = "1" /\ saved' = saved \cup {d}
     \/ UNCHANGED <<localnet, saved>>
  /\ Goto(d, "hook")
  /\ UNCHANGED <<plane, cmdVars, fileVars, sharedVars, asked, mine, conn, hpc, recycled,
                 runs, kills, orphans, overlap, wiped, withdrawn, leftLocalnet, localnet0>>

RulesHook(d) ==
  /\ dpc[d] = "hook" /\ rules # "none"
  /\ rules' = "jump"
  /\ Goto(d, "ready")
  /\ UNCHANGED <<plane, cmdVars, fileVars, sharedVars, localnet, saved, asked, mine, conn,
                 hpc, recycled, runs, kills, historyVars>>

\* An error return before the secret or the socket is there.
SecretFails(d) ==
  /\ \/ dpc[d] \in {"secret", "serve"} /\ UNCHANGED <<secret, withdrawn>>
     \/ dpc[d] \in {"write_secret", "sync_secret"} /\ WithdrawsSecret(d)
  /\ Goto(d, "dead")
  /\ UNCHANGED <<port, netVars, leftRules, leftLocalnet>>

\* netfilter.Up fails: at the chain, when Down has left one or for another reason,
\* it restores the sysctl it may have changed; after that it undoes all.
UpFails(d) ==
  /\ \/ /\ dpc[d] = "rules"
        /\ ChainDown
        /\ \/ UNCHANGED <<localnet, saved, leftLocalnet>>
           \/ /\ localnet = "0" /\ localnet' = "1" /\ saved' = saved \cup {d}
              /\ leftLocalnet' = TRUE
     \/ dpc[d] = "hook" /\ RulesDown(d)
  /\ ClosePort(d) /\ Goto(d, "flush")
  /\ UNCHANGED <<secret, withdrawn>>

\* An error return before the flow loop, through the deferred calls made so far.
DaemonFails(d) ==
  /\ \/ SecretFails(d)
     \/ /\ dpc[d] = "plane" /\ Goto(d, "flush")
        /\ UNCHANGED <<secret, withdrawn, port, netVars, leftRules, leftLocalnet>>
     \/ UpFails(d)
  /\ UNCHANGED <<plane, cmdVars, fileVars, sock, asked, mine, conn, hpc,
                 recycled, runs, kills, orphans, overlap, wiped, localnet0>>

MarkReady(d) ==
  /\ dpc[d] = "ready"
  /\ Goto(d, "running")
  /\ UNCHANGED <<plane, cmdVars, fileVars, sharedVars, netVars, asked, mine, conn,
                 hpc, recycled, runs, kills, historyVars>>

\* A signal caught earlier takes effect here: only now is anyone listening to it.
ClosePlane(d) ==
  /\ dpc[d] = "running" /\ d \in asked
  /\ ClosePort(d)
  /\ Goto(d, "draining")
  /\ UNCHANGED <<plane, cmdVars, fileVars, secret, sock, netVars, asked, mine, conn,
                 hpc, recycled, runs, kills, historyVars>>

\* Mutant: both planes wait for their workers.
LoopWaits(d) ==
  /\ dpc[d] = "draining" /\ conn[d] = "none"
  /\ Goto(d, IF plane = "transparent" THEN "unhook" ELSE "flush")
  /\ UNCHANGED <<plane, cmdVars, fileVars, sharedVars, netVars, asked, mine, conn,
                 hpc, recycled, runs, kills, historyVars>>

\* The flows channel closes: at once in the sandbox plane, after the workers in
\* the transparent one.
LoopEnds(d) ==
  /\ dpc[d] = "draining"
  /\ plane = "sandbox" \/ conn[d] = "none"
  /\ Goto(d, IF plane = "transparent" THEN "unhook" ELSE "flush")
  /\ UNCHANGED <<plane, cmdVars, fileVars, sharedVars, netVars, asked, mine, conn,
                 hpc, recycled, runs, kills, historyVars>>

Unhook(d) ==
  /\ dpc[d] = "unhook"
  /\ RulesDown(d)
  /\ Goto(d, "flush")
  /\ UNCHANGED <<plane, cmdVars, fileVars, sharedVars, asked, mine, conn,
                 hpc, recycled, runs, kills, orphans, overlap, wiped, withdrawn, localnet0>>

\* The meter has flushed; the socket's path is unlinked, whoever it leads to.
Exit(d) ==
  /\ dpc[d] = "flush"
  /\ sock' = None
  /\ Goto(d, "dead")
  /\ conn' = [conn EXCEPT ![d] = "none"]
  /\ UNCHANGED <<plane, cmdVars, fileVars, secret, port, netVars, asked, mine,
                 hpc, recycled, runs, kills, historyVars>>

\* A worker reads a request of its connection, then hands the flow to the loop.
Accept(d) ==
  /\ port = d /\ conn[d] = "none"
  /\ conn' = [conn EXCEPT ![d] = "reading"]
  /\ UNCHANGED <<plane, cmdVars, fileVars, sharedVars, netVars, dpc, asked, mine,
                 hpc, recycled, runs, kills, historyVars>>

BuildFlow(d) ==
  /\ Alive(d) /\ conn[d] = "reading"
  /\ \E next \in {"sending", "none"} : conn' = [conn EXCEPT ![d] = next]
  /\ UNCHANGED <<plane, cmdVars, fileVars, sharedVars, netVars, dpc, asked, mine,
                 hpc, recycled, runs, kills, historyVars>>

TakeFlow(d) ==
  /\ dpc[d] \in {"running", "draining"} /\ conn[d] = "sending"
  /\ conn' = [conn EXCEPT ![d] = "none"]
  /\ UNCHANGED <<plane, cmdVars, fileVars, sharedVars, netVars, dpc, asked, mine,
                 hpc, recycled, runs, kills, historyVars>>

\* The process is gone: the system closes its port, the files stay.
Gone(d) ==
  /\ Goto(d, "dead") /\ ClosePort(d)
  /\ conn' = [conn EXCEPT ![d] = "none"]
  /\ UNCHANGED <<plane, cmdVars, fileVars, secret, sock, netVars, asked, mine, hpc, recycled>>

\* The sandbox plane closes the channel under a worker that is about to send.
Panic(d) ==
  /\ plane = "sandbox" /\ dpc[d] = "flush" /\ conn[d] = "sending"
  /\ Gone(d)
  /\ UNCHANGED <<runs, kills, historyVars>>

-----------------------------------------------------------------------------
(* The environment. *)

KillDaemon(d) ==
  /\ Alive(d) /\ kills < MaxKills
  /\ kills' = kills + 1
  /\ Gone(d)
  /\ leftRules' = (leftRules \/ rules # "none")
  /\ leftLocalnet' = (leftLocalnet \/ d \in saved)
  /\ UNCHANGED <<runs, orphans, overlap, wiped, withdrawn, localnet0>>

\* The guard of a reset that was killed stays for ever.
KillCmd(c) ==
  /\ cpc[c] # "idle" /\ kills < MaxKills
  /\ kills' = kills + 1
  /\ Leave(c)
  /\ guard' = IF guard = c THEN "left" ELSE guard
  /\ orphans' = IF cpc[c] \in {"up_record", "up_write", "up_reap"} THEN orphans \cup {child[c]} ELSE orphans
  /\ UNCHANGED <<plane, pidFile, sharedVars, netVars, daemonVars, hpc, recycled, runs,
                 overlap, wiped, withdrawn, leftRules, leftLocalnet, localnet0>>

KillCaller(h) ==
  /\ hpc[h] = "write" /\ kills < MaxKills
  /\ kills' = kills + 1
  /\ hpc' = [hpc EXCEPT ![h] = "done"]
  /\ UNCHANGED <<plane, cmdVars, fileVars, sharedVars, netVars, daemonVars,
                 recycled, runs, historyVars>>

\* The system gives a pid away once the parent has waited for the child; it
\* matters while the pid is on record.
Recycle(d) ==
  /\ dpc[d] = "dead" /\ pidFile = d /\ d \notin recycled
  /\ \A c \in Cmd : child[c] # d
  /\ recycled' = recycled \cup {d}
  /\ UNCHANGED <<plane, cmdVars, fileVars, sharedVars, netVars, daemonVars,
                 hpc, runs, kills, historyVars>>

Up(c) == UpLock(c) \/ UpInspect(c) \/ UpRecord(c) \/ UpWrite(c) \/ UpPoll(c) \/ UpReap(c)
Down(c) == DownRead(c) \/ DownLock(c) \/ DownWait(c)
Reset(c) ==
  \/ ResetGuard(c) \/ ResetInspect(c) \/ ResetRevoke(c)
  \/ ResetDeletePid(c) \/ ResetDeleteSecret(c) \/ ResetFails(c)
Run(c) == Up(c) \/ Down(c) \/ Reset(c)
Work(d) ==
  \/ Start(d) \/ LoadOrCreateSecret(d) \/ WriteSecret(d) \/ SyncSecret(d) \/ SecretGivesUp(d)
  \/ Serve(d) \/ BuildDataPlane(d) \/ RulesUp(d) \/ RulesHook(d) \/ MarkReady(d)
  \/ ClosePlane(d) \/ LoopEnds(d) \/ Unhook(d) \/ Exit(d)
Traffic(d) == Accept(d) \/ BuildFlow(d) \/ TakeFlow(d)

Next ==
  \/ \E c \in Cmd : UpBegin(c) \/ DownBegin(c) \/ ResetPlan(c) \/ Run(c) \/ UpAbandon(c) \/ KillCmd(c)
  \/ \E d \in Daemon : Work(d) \/ DaemonFails(d) \/ Traffic(d) \/ Panic(d) \/ KillDaemon(d) \/ Recycle(d)
  \/ \E h \in Caller : CallerCreates(h) \/ CallerWrites(h) \/ CallerFails(h) \/ KillCaller(h)

\* Daemons run; commands, clients, failures and kills need not.
Fairness == \A d \in Daemon : WF_vars(Work(d))

Spec == Init /\ [][Next]_vars /\ Fairness

-----------------------------------------------------------------------------
(* Properties. *)

\* proxy.go:232, 144: no daemon escapes the commands.  One that runs is the one
\* in the pid file, or the up that started it still holds it, unless that up
\* was killed first or a reset did not see it.
Recorded ==
  \A d \in Daemon : Alive(d) /\ d \notin orphans /\ ~overlap =>
     \/ pidFile = d
     \/ \E c \in Cmd : child[c] = d /\ lock = c /\ cpc[c] \in UpStage

\* proxy.go:261-283: whatever order ups, downs and resets come in, no second
\* daemon runs beside the first.
OneDaemon ==
  overlap \/ \A d, e \in Daemon \ orphans : Alive(d) /\ Alive(e) => d = e

\* sessionsock.go:366-368, "safe under concurrent CLI/daemon startup": daemons and
\* hooks that create the secret at the same time agree on it, and on what clients
\* read, even when the writer is killed or fails; unless a reset deletes it under
\* them, or a creator whose Sync fails removes what they have already read.
SecretAgrees ==
  \A d \in Daemon :
    Alive(d) /\ dpc[d] \notin Starting /\ ~wiped /\ ~withdrawn => secret = <<"full", mine[d]>>

\* rules.go:41, daemon.go:113: once no daemon runs, packets are no longer redirected
\* and the sysctl is as it was.  After a kill, or a teardown that failed, the next
\* one that succeeds ("stale rules from a previous run are removed on every Up()",
\* rules.go:4-5) makes up for the rules; nothing does for the sysctl.
HostRestored ==
  (\A d \in Daemon : ~Alive(d)) =>
    /\ ~leftRules => rules = "none"
    /\ ~leftLocalnet => localnet = localnet0

\* reset.go:241: a reset that succeeds leaves no daemon and none of the files it
\* announced, although other commands ran meanwhile.
ResetLeavesNothing ==
  [][\A c \in Cmd : ResetDeleteSecret(c) /\ ~overlap /\ orphans = {} =>
       /\ \A d \in Daemon : ~Alive(d)
       /\ pidFile = None /\ lock = None
       /\ "sock" \in plan[c] => sock' = None]_vars

\* daemon.go:119: a daemon of the sandbox plane that was asked to stop does, at
\* whatever point of its start or service the signal came.
AskedEnds == \A d \in Daemon : (plane = "sandbox" /\ d \in asked) ~> ~Alive(d)

=============================================================================
