------------------------- MODULE ProxyControlProofs -------------------------
(***************************************************************************)
(* Theorems about ProxyControl: no daemon escapes the commands, no second  *)
(* one runs beside the first, daemons agree on the socket's secret, the    *)
(* host is as it was once no daemon runs, and a reset that succeeds leaves *)
(* nothing - for any number of terminals, daemons, commands and kills, in  *)
(* whatever order they interleave.                                         *)
(***************************************************************************)
EXTENDS ProxyControl, TLAPS

-----------------------------------------------------------------------------
(* What hooks and inits do with the secret touches nothing else. *)

CallerStep(h) == CallerCreates(h) \/ CallerWrites(h) \/ CallerFails(h) \/ KillCaller(h)

LEMMA CallersKeep ==
  ASSUME NEW h \in Caller, CallerStep(h)
  PROVE  /\ UNCHANGED <<plane, cmdVars, fileVars, netVars, daemonVars, orphans, overlap>>
         /\ UNCHANGED <<wiped, leftRules, leftLocalnet, localnet0>>
BY DEF CallerStep, CallerCreates, CallerWrites, CallerFails, KillCaller, historyVars

-----------------------------------------------------------------------------
(* The commands, and the daemons they keep track of. *)

Deleting == {"reset_revoke", "reset_pid", "reset_secret"}
Stopping == {"down_read", "down_lock", "down_wait"}
Holding == {"up_record", "up_write", "up_poll", "up_reap"}
CmdState ==
  {"idle", "up_lock", "reset_guard", "reset_inspect"} \cup UpStage \cup Stopping \cup Deleting
DaemonState ==
  {"none", "dead", "serve", "plane", "rules", "hook", "ready"} \cup Starting \cup Marked

ControlType ==
  /\ op \in [Cmd -> {None, "up", "down", "reset"}]
  /\ cpc \in [Cmd -> CmdState]
  /\ child \in [Cmd -> Daemon \cup {None}]
  /\ target \in [Cmd -> Daemon \cup {None}]
  /\ pidFile \in Daemon \cup {None, Torn}
  /\ lock \in Cmd \cup {None}
  /\ guard \in Cmd \cup {None, "left"}
  /\ dpc \in [Daemon -> DaemonState]

\* Whoever works under the lock holds it, and so does a reset its guard.
Held ==
  /\ \A c \in Cmd : cpc[c] \in UpStage \cup {"down_wait"} <=> lock = c
  /\ \A c \in Cmd : cpc[c] = "reset_guard" => op[c] = "reset"
  /\ \A c \in Cmd : cpc[c] \in {"reset_inspect"} \cup Deleting => op[c] = "reset" /\ guard = c
  /\ \A c \in Cmd : cpc[c] \in Stopping => op[c] = "down" \/ (op[c] = "reset" /\ guard = c)

\* What the command that holds the lock has made of the pid file.
UpOnFile(c) ==
  /\ cpc[c] \in Holding <=> child[c] # None
  /\ cpc[c] \in Holding => dpc[child[c]] # "none"
  /\ cpc[c] = "up_record" => pidFile = None \/ (pidFile \in Daemon /\ ~Alive(pidFile))
  /\ cpc[c] = "up_write" => pidFile = Torn
  /\ cpc[c] = "up_poll" => pidFile = child[c]
  /\ cpc[c] = "up_reap" => pidFile \in {None, Torn} \/ ~Alive(pidFile)
DownOnFile(c) == cpc[c] = "down_wait" => pidFile = target[c] /\ target[c] \in Daemon
OnFile ==
  /\ pidFile \in Daemon => dpc[pidFile] # "none"
  /\ \A c \in Cmd : UpOnFile(c) /\ DownOnFile(c)

\* Once a reset has stopped the proxy nothing can start it again.
Cleared == \A c \in Cmd : cpc[c] \in Deleting => pidFile = None /\ lock = None

Tracked ==
  \A d \in Daemon \ orphans : Alive(d) =>
     pidFile = d \/ \E c \in Cmd : child[c] = d /\ lock = c


ControlParts == Held /\ OnFile /\ Cleared /\ Tracked
ControlInv == ControlType /\ (overlap \/ ControlParts)

LEMMA ControlInit == Init => ControlInv
<1> SUFFICES ASSUME Init PROVE ControlInv
  OBVIOUS
<1> USE ControlAssumption DEF Init, Fresh, AlreadyUp
<1>1. ControlType
  BY DEF ControlType, CmdState, DaemonState, UpStage, Stopping, Deleting, Starting, Marked
<1>2. Held /\ Cleared
  BY DEF Held, Cleared, UpStage, Stopping, Deleting
<1>3. OnFile
  BY DEF OnFile, UpOnFile, DownOnFile, Holding
<1>4. Tracked
  BY DEF Tracked, Alive
<1> QED
  BY <1>1, <1>2, <1>3, <1>4 DEF ControlInv, ControlParts

\* A daemon moves, and none comes back from the dead.
LEMMA DaemonMoves ==
  ASSUME ControlType, ControlParts, UNCHANGED <<cmdVars, fileVars, orphans>>,
         dpc' \in [Daemon -> DaemonState],
         \A d \in Daemon : /\ dpc[d] = "none" <=> dpc'[d] = "none"
                           /\ dpc'[d] \notin {"none", "dead"} => Alive(d)
  PROVE  ControlParts'
<1> USE DEF ControlParts, cmdVars, fileVars
<1>1. Held' /\ Cleared'
  BY DEF Held, Cleared
<1>2. OnFile'
  BY ControlAssumption DEF OnFile, UpOnFile, DownOnFile, ControlType, Alive, Holding
<1>3. Tracked'
  BY DEF Tracked, Alive
<1> QED
  BY <1>1, <1>2, <1>3

\* A command that ends loses track of no daemon.
LEMMA CommandLeaves ==
  ASSUME ControlType, ControlParts, NEW c \in Cmd, Leave(c), UNCHANGED dpc,
         guard' = guard \/ (guard = c /\ guard' \in {None, "left"}),
         \/ pidFile' = pidFile
         \/ pidFile' = None /\ lock \in {c, None} /\ (pidFile \in Daemon => ~Alive(pidFile)),
         orphans \subseteq orphans',
         child[c] \in Daemon /\ lock = c =>
           ~Alive(child[c]) \/ pidFile' = child[c] \/ child[c] \in orphans'
  PROVE  ControlParts'
<1> USE ControlAssumption DEF ControlParts, ControlType
<1>1. /\ cpc'[c] = "idle" /\ child'[c] = None
      /\ \A e \in Cmd \ {c} : /\ cpc'[e] = cpc[e] /\ child'[e] = child[e]
                              /\ target'[e] = target[e] /\ op'[e] = op[e]
      /\ lock' = IF lock = c THEN None ELSE lock
  BY DEF Leave, Unlock
<1>2. Held'
  BY <1>1 DEF Held, UpStage, Stopping, Deleting
<1>3. OnFile'
  <2>1. pidFile' \in Daemon => dpc'[pidFile'] # "none"
    BY DEF OnFile
  <2>2. ASSUME NEW e \in Cmd \ {c}, pidFile' # pidFile
        PROVE  cpc[e] \notin Holding \cup {"down_wait"}
    BY <2>2 DEF Held, Holding, UpStage
  <2>3. ASSUME NEW e \in Cmd \ {c}
        PROVE  UpOnFile(e)' /\ DownOnFile(e)'
    BY <1>1, <2>2, <2>3 DEF OnFile, UpOnFile, DownOnFile, Alive, Holding
  <2>4. UpOnFile(c)' /\ cpc'[c] # "down_wait"
    BY <1>1 DEF UpOnFile, Holding
  <2> QED
    BY <2>1, <2>3, <2>4 DEF OnFile, DownOnFile
<1>4. Cleared'
  BY <1>1 DEF Cleared, Deleting
<1>5. Tracked'
  BY <1>1 DEF Tracked, Alive
<1> QED
  BY <1>2, <1>3, <1>4, <1>5

\* A reset that has found the proxy stopped, or has stopped it, is alone.
LEMMA ResetGoesOn ==
  ASSUME ControlType, ControlParts, NEW c \in Cmd, op[c] # "down",
         cpc[c] \in Stopping, cpc' = [cpc EXCEPT ![c] = "reset_revoke"], Unlock(c),
         UNCHANGED <<op, child, target, guard, orphans, dpc>>,
         pidFile' = None, lock \in {c, None}, pidFile \in Daemon => ~Alive(pidFile)
  PROVE  ControlParts'
<1> USE ControlAssumption DEF ControlParts, ControlType
<1>1. /\ cpc'[c] = "reset_revoke" /\ \A e \in Cmd \ {c} : cpc'[e] = cpc[e]
      /\ lock' = None
  BY DEF Unlock
<1>2. Held'
  BY <1>1 DEF Held, UpStage, Stopping, Deleting
<1>3. \A e \in Cmd \ {c} : cpc[e] \notin UpStage \cup {"down_wait"}
  BY DEF Held
<1>4. child[c] = None
  BY DEF OnFile, UpOnFile, Holding, Stopping
<1>5. OnFile'
  <2>1. ASSUME NEW e \in Cmd
        PROVE  UpOnFile(e)' /\ cpc'[e] # "down_wait"
    BY <1>1, <1>3, <1>4, <2>1 DEF OnFile, UpOnFile, DownOnFile, Holding, UpStage
  <2> QED
    BY <2>1 DEF OnFile, DownOnFile
<1>6. Cleared'
  BY <1>1 DEF Cleared, Deleting
<1>7. Tracked'
  BY <1>1, <1>4 DEF Tracked, Alive
<1> QED
  BY <1>2, <1>5, <1>6, <1>7

\* Commands, daemons and files stay what they are.
LEMMA ControlTypeInductive == ControlType /\ [Next]_vars => ControlType'
<1> SUFFICES ASSUME ControlType, [Next]_vars PROVE ControlType'
  OBVIOUS
<1> USE ControlAssumption DEF ControlType, CmdState, DaemonState, UpStage, Stopping, Deleting,
      Starting, Marked
<1>1. CASE UNCHANGED vars
  BY <1>1 DEF vars, cmdVars, fileVars, daemonVars
<1>2. ASSUME NEW c \in Cmd,
             UpBegin(c) \/ DownBegin(c) \/ ResetPlan(c) \/ Run(c) \/ UpAbandon(c) \/ KillCmd(c)
      PROVE  ControlType'
  <2> USE DEF Begin, Finish, Leave, Unlock, Stopped, daemonVars, fileVars, cmdVars
  <2>1. CASE UpBegin(c) \/ DownBegin(c) \/ ResetPlan(c)
    BY <2>1 DEF UpBegin, DownBegin, ResetPlan
  <2>2. CASE UpLock(c)
    BY <2>2 DEF UpLock
  <2>3. CASE UpInspect(c)
    BY <2>3 DEF UpInspect
  <2>4. CASE UpRecord(c) \/ UpWrite(c)
    BY <2>4 DEF UpRecord, UpWrite
  <2>5. CASE UpPoll(c) \/ UpReap(c)
    BY <2>5 DEF UpPoll, UpReap
  <2>6. CASE UpAbandon(c)
    BY <2>6 DEF UpAbandon, Terminate
  <2>7. CASE DownRead(c) \/ DownWait(c)
    BY <2>7 DEF DownRead, DownWait
  <2>8. CASE DownLock(c)
    BY <2>8 DEF DownLock, Terminate
  <2>9. CASE ResetGuard(c) \/ ResetInspect(c) \/ ResetRevoke(c) \/ ResetFails(c)
    BY <2>9 DEF ResetGuard, ResetInspect, ResetRevoke, ResetFails
  <2>10. CASE ResetDeletePid(c) \/ ResetDeleteSecret(c)
    BY <2>10 DEF ResetDeletePid, ResetDeleteSecret
  <2>11. CASE KillCmd(c)
    BY <2>11 DEF KillCmd
  <2> QED
    BY <1>2, <2>1, <2>2, <2>3, <2>4, <2>5, <2>6, <2>7, <2>8, <2>9, <2>10, <2>11
       DEF Run, Up, Down, Reset
<1>3. ASSUME NEW d \in Daemon,
             Work(d) \/ DaemonFails(d) \/ Traffic(d) \/ Panic(d) \/ KillDaemon(d) \/ Recycle(d)
      PROVE  ControlType'
  <2>1. UNCHANGED <<cmdVars, fileVars>> /\ (UNCHANGED dpc \/ \E x \in DaemonState : Goto(d, x))
    BY <1>3 DEF Work, DaemonFails, SecretFails, UpFails, Traffic, Panic, KillDaemon, Recycle, Gone, Goto, Start,
       LoadOrCreateSecret, WriteSecret, SyncSecret, SecretGivesUp, Serve, BuildDataPlane, RulesUp, RulesHook,
       MarkReady, ClosePlane, LoopEnds, Unhook, Exit, Accept, BuildFlow, TakeFlow, daemonVars
  <2> QED
    BY <2>1 DEF Goto, cmdVars, fileVars
<1>4. ASSUME NEW h \in Caller, CallerStep(h)
      PROVE  ControlType'
  BY <1>4, CallersKeep DEF cmdVars, fileVars, daemonVars
<1> QED
  BY <1>1, <1>2, <1>3, <1>4 DEF Next, CallerStep

\* No step of a daemon does more than DaemonMoves allows.
LEMMA DaemonsKeepControl ==
  ASSUME ControlType, ControlParts, NEW d \in Daemon,
         Work(d) \/ DaemonFails(d) \/ Traffic(d) \/ Panic(d) \/ KillDaemon(d) \/ Recycle(d)
  PROVE  ControlParts'
<1>1. /\ UNCHANGED <<cmdVars, fileVars, orphans>>
      /\ \/ UNCHANGED dpc
         \/ /\ dpc[d] # "none"
            /\ \/ Goto(d, "dead")
               \/ dpc[d] # "dead" /\ \E x \in DaemonState \ {"none", "dead"} : Goto(d, x)
  BY DEF Work, DaemonFails, SecretFails, UpFails, Traffic, Panic, KillDaemon, Recycle, Gone, Goto, Start, Alive,
     LoadOrCreateSecret, WriteSecret, SyncSecret, SecretGivesUp, Serve, BuildDataPlane, RulesUp, RulesHook,
     MarkReady, ClosePlane, LoopEnds, Unhook, Exit, Accept, BuildFlow, TakeFlow, daemonVars,
     historyVars, DaemonState, Starting, Marked
<1>2. /\ dpc' \in [Daemon -> DaemonState]
      /\ \A e \in Daemon : /\ dpc[e] = "none" <=> dpc'[e] = "none"
                           /\ dpc'[e] \notin {"none", "dead"} => Alive(e)
  BY <1>1 DEF Goto, ControlType, DaemonState, Alive
<1> QED
  BY <1>1, <1>2, DaemonMoves

\* A command that ends, with what Finish or a kill does to the guard.
LEMMA CommandsEndWell ==
  ASSUME ControlType, ControlParts, NEW c \in Cmd,
         \/ UpLock(c) /\ Finish(c)
         \/ UpInspect(c) /\ Finish(c) /\ UNCHANGED dpc
         \/ UpPoll(c) \/ UpReap(c)
         \/ DownLock(c) /\ Finish(c) /\ UNCHANGED dpc
         \/ DownWait(c) /\ Finish(c)
         \/ ResetGuard(c) /\ Finish(c)
         \/ ResetInspect(c) /\ Finish(c)
         \/ ResetFails(c) \/ ResetDeleteSecret(c) \/ KillCmd(c)
  PROVE  ControlParts'
<1> USE ControlAssumption
<1>1. /\ Leave(c) /\ UNCHANGED dpc /\ orphans \subseteq orphans'
      /\ guard' = guard \/ (guard = c /\ guard' \in {None, "left"})
  BY DEF UpLock, UpInspect, UpPoll, UpReap, DownLock, DownWait, ResetGuard, ResetInspect,
     ResetFails, ResetDeleteSecret, KillCmd, Finish, daemonVars, historyVars
<1>2. CASE KillCmd(c)
  <2>1. pidFile' = pidFile
    BY <1>2 DEF KillCmd
  <2>2. child[c] \in Daemon =>
          \/ pidFile' = child[c]
          \/ cpc[c] \in {"up_record", "up_write", "up_reap"} /\ child[c] \in orphans'
    BY <1>2, <2>1 DEF KillCmd, ControlParts, OnFile, UpOnFile, Holding
  <2> QED
    BY <1>1, <2>1, <2>2, CommandLeaves
<1>3. CASE UpPoll(c)
  <2>1. lock = c /\ pidFile = child[c] /\ pidFile' = IF Alive(child[c]) THEN pidFile ELSE None
    BY <1>3 DEF UpPoll, ControlParts, Held, OnFile, UpOnFile, UpStage
  <2> QED
    BY <1>1, <2>1, CommandLeaves
<1>4. CASE UpReap(c)
  BY <1>1, <1>4, CommandLeaves DEF UpReap
<1>5. CASE ~KillCmd(c) /\ ~UpPoll(c) /\ ~UpReap(c)
  <2>1. cpc[c] \notin Holding
    BY <1>5 DEF UpLock, UpInspect, DownLock, DownWait, ResetGuard, ResetInspect, ResetFails,
       ResetDeleteSecret, Holding
  <2>2. child[c] = None
    BY <2>1 DEF ControlParts, OnFile, UpOnFile
  <2>3. CASE DownLock(c)
    <3>1. \/ pidFile' = pidFile
          \/ /\ pidFile' = None /\ lock = None
             /\ pidFile \in {None} \cup {d \in Daemon \ recycled : ~Alive(d)}
      BY <2>3 DEF DownLock
    <3> QED
      BY <1>1, <2>2, <3>1, CommandLeaves
  <2>4. CASE DownWait(c)
    <3>1. lock = c /\ pidFile = target[c]
      BY <2>4 DEF DownWait, ControlParts, Held, OnFile, DownOnFile
    <3>2. pidFile' = pidFile \/ (pidFile' = None /\ ~Alive(pidFile))
      BY <2>4, <3>1 DEF DownWait
    <3> QED
      BY <1>1, <2>2, <3>1, <3>2, CommandLeaves
  <2>5. CASE ~DownLock(c) /\ ~DownWait(c)
    <3>1. pidFile' = pidFile
      BY <1>5, <2>5 DEF UpLock, UpInspect, ResetGuard, ResetInspect, ResetFails, ResetDeleteSecret
    <3> QED
      BY <1>1, <2>2, <3>1, CommandLeaves
  <2> QED
    BY <2>3, <2>4, <2>5
<1> QED
  BY <1>2, <1>3, <1>4, <1>5

\* A command that begins touches no file.
LEMMA CommandsBegin ==
  ASSUME ControlType, ControlParts, NEW c \in Cmd, UpBegin(c) \/ DownBegin(c) \/ ResetPlan(c)
  PROVE  ControlParts'
<1> USE ControlAssumption DEF ControlParts, ControlType
<1>1. /\ cpc[c] = "idle" /\ cpc'[c] \in {"up_lock", "down_read", "reset_guard"}
      /\ cpc'[c] = "down_read" => op'[c] = "down"
      /\ cpc'[c] = "reset_guard" => op'[c] = "reset"
      /\ \A e \in Cmd \ {c} : cpc'[e] = cpc[e] /\ op'[e] = op[e]
      /\ UNCHANGED <<child, target, fileVars, dpc, orphans>>
  BY DEF UpBegin, DownBegin, ResetPlan, Begin, daemonVars, historyVars
<1>2. Held'
  BY <1>1 DEF Held, UpStage, Stopping, Deleting, fileVars
<1>3. OnFile'
  <2>1. child[c] = None
    BY <1>1 DEF OnFile, UpOnFile, Holding
  <2>2. ASSUME NEW e \in Cmd
        PROVE  UpOnFile(e)' /\ DownOnFile(e)'
    BY <1>1, <2>1, <2>2 DEF OnFile, UpOnFile, DownOnFile, Holding, fileVars, Alive
  <2> QED
    BY <1>1, <2>2 DEF OnFile, fileVars
<1>4. Cleared'
  BY <1>1 DEF Cleared, Deleting, fileVars
<1>5. Tracked'
  BY <1>1 DEF Tracked, Alive, fileVars
<1> QED
  BY <1>2, <1>3, <1>4, <1>5

\* proxy up takes the lock, with no reset between its stages.
LEMMA UpLocks ==
  ASSUME ControlType, ControlParts, NEW c \in Cmd, UpLock(c)
  PROVE  ControlParts'
<1> USE ControlAssumption DEF ControlType
<1>1. CASE Finish(c)
  BY <1>1, CommandsEndWell
<1>2. CASE ~Finish(c)
  <2> USE DEF ControlParts
  <2>1. /\ lock = None /\ guard = None /\ lock' = c /\ cpc[c] = "up_lock"
        /\ cpc'[c] = "up_inspect" /\ \A e \in Cmd \ {c} : cpc'[e] = cpc[e]
        /\ UNCHANGED <<op, child, target, pidFile, guard, dpc, orphans>>
    BY <1>2 DEF UpLock, daemonVars, historyVars
  <2>2. Held'
    BY <2>1 DEF Held, UpStage, Stopping, Deleting
  <2>3. OnFile'
    <3>1. ASSUME NEW e \in Cmd
          PROVE  UpOnFile(e)' /\ DownOnFile(e)'
      BY <2>1, <3>1 DEF OnFile, UpOnFile, DownOnFile, Holding, Alive
    <3> QED
      BY <2>1, <3>1 DEF OnFile
  <2>4. Cleared'
    BY <2>1 DEF Cleared, Held, Deleting
  <2>5. Tracked'
    BY <2>1 DEF Tracked, Alive
  <2> QED
    BY <2>2, <2>3, <2>4, <2>5
<1> QED
  BY <1>1, <1>2

\* A step under the lock that starts a daemon, records it or gives it up.
LEMMA UpGoesOn ==
  ASSUME ControlType, ControlParts, NEW c \in Cmd, cpc[c] \in UpStage, cpc'[c] \in Holding,
         \A e \in Cmd \ {c} : cpc'[e] = cpc[e] /\ child'[e] = child[e],
         UNCHANGED <<op, target, lock, guard, orphans>>,
         child'[c] \in Daemon, cpc[c] \in Holding => child'[c] = child[c],
         UpOnFile(c)', pidFile' \in Daemon => dpc'[pidFile'] # "none",
         \A d \in Daemon : /\ dpc[d] # "none" => dpc'[d] # "none"
                           /\ Alive(d)' => Alive(d) \/ child'[c] = d,
         pidFile \in Daemon /\ Alive(pidFile) => pidFile' = pidFile
  PROVE  ControlParts'
<1> USE ControlAssumption DEF ControlParts, ControlType
<1>1. lock = c /\ \A e \in Cmd \ {c} : cpc[e] \notin UpStage \cup {"down_wait"}
  BY DEF Held
<1>2. Held'
  BY <1>1 DEF Held, UpStage, Stopping, Deleting, Holding
<1>3. OnFile'
  <2>1. ASSUME NEW e \in Cmd \ {c}
        PROVE  UpOnFile(e)' /\ cpc'[e] # "down_wait"
    BY <1>1, <2>1 DEF OnFile, UpOnFile, DownOnFile, Holding, UpStage
  <2> QED
    BY <2>1 DEF OnFile, DownOnFile, Holding
<1>4. Cleared'
  BY <1>1 DEF Cleared, Deleting, Holding
<1>5. Tracked'
  <2>1. ASSUME NEW d \in Daemon \ orphans, Alive(d)', child'[c] # d
        PROVE  pidFile' = d
    <3>1. pidFile = d \/ \E e \in Cmd : child[e] = d /\ lock = e
      BY <2>1 DEF Tracked
    <3>2. ASSUME child[c] = d PROVE FALSE
      BY <2>1, <3>2 DEF OnFile, UpOnFile
    <3> QED
      BY <1>1, <2>1, <3>1, <3>2
  <2> QED
    BY <1>1, <2>1 DEF Tracked
<1> QED
  BY <1>2, <1>3, <1>4, <1>5

\* The steps of proxy up between the lock and the poll.
LEMMA UpKeepsControl ==
  ASSUME ControlType, ControlParts, NEW c \in Cmd,
         UpInspect(c) \/ UpRecord(c) \/ UpWrite(c) \/ UpAbandon(c)
  PROVE  ControlParts'
<1> USE ControlAssumption DEF ControlType
<1>1. CASE UpInspect(c)
  <2>1. CASE Finish(c) /\ UNCHANGED dpc
    BY <1>1, <2>1, CommandsEndWell
  <2>2. CASE ~(Finish(c) /\ UNCHANGED dpc)
    <3>1. PICK d \in Daemon :
            /\ dpc[d] = "none" /\ InspectProxy = "inactive" /\ cpc[c] = "up_inspect"
            /\ child' = [child EXCEPT ![c] = d] /\ dpc' = [dpc EXCEPT ![d] = "start"]
            /\ cpc' = [cpc EXCEPT ![c] = "up_record"]
            /\ UNCHANGED <<op, target, pidFile, lock, guard, orphans>>
      BY <1>1, <2>2 DEF UpInspect, historyVars
    <3>2. pidFile = None \/ (pidFile \in Daemon /\ ~Alive(pidFile))
      BY <3>1 DEF InspectProxy
    <3>3. pidFile \in Daemon => pidFile # d
      BY <3>1 DEF ControlParts, OnFile
    <3>4. UpOnFile(c)'
      BY <3>1, <3>2, <3>3 DEF UpOnFile, Holding, Alive
    <3>5. \A e \in Daemon : /\ dpc[e] # "none" => dpc'[e] # "none"
                            /\ Alive(e)' => Alive(e) \/ child'[c] = e
      BY <3>1 DEF Alive
    <3>6. pidFile' \in Daemon => dpc'[pidFile'] # "none"
      BY <3>1, <3>3 DEF ControlParts, OnFile
    <3>7. cpc[c] \in UpStage \ Holding /\ cpc'[c] \in Holding /\ child'[c] \in Daemon
      BY <3>1 DEF UpStage, Holding
    <3>8. \A e \in Cmd \ {c} : cpc'[e] = cpc[e] /\ child'[e] = child[e]
      BY <3>1
    <3> QED
      BY <3>1, <3>4, <3>5, <3>6, <3>7, <3>8, UpGoesOn
  <2> QED
    BY <2>1, <2>2
<1>2. CASE UpRecord(c) \/ UpWrite(c) \/ UpAbandon(c)
  <2>1. /\ cpc[c] \in UpStage \cap Holding /\ child[c] \in Daemon /\ dpc[child[c]] # "none"
        /\ pidFile \in Daemon => dpc[pidFile] # "none"
        /\ cpc[c] = "up_record" => pidFile = None \/ (pidFile \in Daemon /\ ~Alive(pidFile))
        /\ cpc[c] = "up_write" => pidFile = Torn
    BY <1>2 DEF UpRecord, UpWrite, UpAbandon, ControlParts, OnFile, UpOnFile, Holding,
       UpStage
  <2>2. /\ cpc'[c] \in Holding
        /\ \A e \in Cmd \ {c} : cpc'[e] = cpc[e]
        /\ UNCHANGED <<op, target, child, lock, guard, orphans>>
    BY <1>2 DEF UpRecord, UpWrite, UpAbandon, Holding, fileVars, historyVars
  <2>3. \A d \in Daemon : /\ dpc[d] # "none" => dpc'[d] # "none"
                          /\ Alive(d)' => Alive(d)
    BY <1>2 DEF UpRecord, UpWrite, UpAbandon, Terminate, daemonVars, Alive
  <2>4. /\ pidFile \in Daemon /\ Alive(pidFile) => pidFile' = pidFile
        /\ pidFile' \in {pidFile, Torn, child[c]}
    BY <1>2, <2>1 DEF UpRecord, UpWrite, UpAbandon, fileVars
  <2>5. UpOnFile(c)'
    <3>1. cpc'[c] \in Holding /\ child'[c] # None /\ dpc'[child'[c]] # "none"
      BY <2>1, <2>2, <2>3
    <3>2. CASE UpRecord(c)
      BY <2>1, <2>2, <3>1, <3>2 DEF UpRecord, UpOnFile, Alive, daemonVars
    <3>3. CASE UpWrite(c)
      BY <2>1, <2>2, <3>1, <3>3 DEF UpWrite, UpOnFile
    <3>4. CASE UpAbandon(c)
      <4>1. cpc'[c] = "up_reap" /\ pidFile' = pidFile
        BY <3>4 DEF UpAbandon, fileVars
      <4>2. pidFile \in {None, Torn} \/ (pidFile \in Daemon /\ ~Alive(pidFile)')
        BY <2>1, <2>3, <3>4, <4>1 DEF UpAbandon
      <4> QED
        BY <3>1, <4>1, <4>2 DEF UpOnFile, Alive
    <3> QED
      BY <1>2, <3>2, <3>3, <3>4
  <2>6. pidFile' \in Daemon => dpc'[pidFile'] # "none"
    BY <2>1, <2>3, <2>4
  <2> QED
    BY <2>1, <2>2, <2>3, <2>4, <2>5, <2>6, UpGoesOn
<1> QED
  BY <1>1, <1>2

\* A step of proxy down or reset that neither ends nor deletes.
LEMMA Proceeds ==
  ASSUME ControlType, ControlParts, NEW c \in Cmd,
         \/ cpc[c] = "reset_guard" /\ cpc'[c] = "reset_inspect" /\ guard = None /\ guard' = c
         \/ cpc[c] = "reset_inspect" /\ cpc'[c] = "down_read" /\ guard' = guard
         \/ cpc[c] = "down_read" /\ cpc'[c] = "down_lock" /\ guard' = guard
         \/ cpc[c] \in Deleting /\ cpc'[c] \in Deleting /\ guard' = guard,
         \A e \in Cmd \ {c} : cpc'[e] = cpc[e],
         UNCHANGED <<op, child, target, pidFile, lock, dpc, orphans>>
  PROVE  ControlParts'
<1> USE ControlAssumption DEF ControlParts, ControlType
<1>1. Held'
  BY DEF Held, UpStage, Stopping, Deleting
<1>2. OnFile'
  <2>1. cpc[c] \notin Holding /\ cpc'[c] \notin Holding \cup {"down_wait"}
    BY DEF Holding, UpStage, Stopping, Deleting
  <2>2. ASSUME NEW e \in Cmd
        PROVE  UpOnFile(e)' /\ DownOnFile(e)'
    BY <2>1, <2>2 DEF OnFile, UpOnFile, DownOnFile, Alive, Holding
  <2> QED
    BY <2>2 DEF OnFile
<1>3. Cleared' /\ Tracked'
  BY DEF Cleared, Deleting, Tracked, Alive
<1> QED
  BY <1>1, <1>2, <1>3

\* proxy down, alone or within a reset that saw no up at work.
LEMMA DownKeepsControl ==
  ASSUME ControlType, ControlParts, NEW c \in Cmd, ~overlap',
         DownRead(c) \/ DownLock(c) \/ DownWait(c)
  PROVE  ControlParts'
<1> USE ControlAssumption DEF ControlType
<1>1. CASE DownRead(c)
  <2>1. UNCHANGED <<pidFile, dpc, orphans>> /\ cpc[c] = "down_read"
    BY <1>1 DEF DownRead, daemonVars
  <2>2. child[c] = None /\ lock # c
    BY <2>1 DEF ControlParts, Held, OnFile, UpOnFile, Holding, UpStage
  <2>3. CASE pidFile = None /\ op[c] = "down"
    BY <1>1, <2>1, <2>2, <2>3, CommandLeaves DEF DownRead, Stopped, Finish
  <2>4. CASE pidFile = None /\ op[c] # "down"
    <3>1. op[c] = "reset"
      BY <2>1, <2>4 DEF ControlParts, Held, Stopping
    <3>2. ~UpAtWork
      BY <1>1, <2>4, <3>1 DEF DownRead
    <3>3. lock = None
      BY <2>4, <3>2 DEF UpAtWork, ControlParts, Held, OnFile, DownOnFile
    <3> QED
      BY <1>1, <2>1, <2>4, <3>3, ResetGoesOn DEF DownRead, Stopped, Stopping
  <2>5. CASE pidFile # None
    <3>1. /\ cpc' = [cpc EXCEPT ![c] = "down_lock"]
          /\ UNCHANGED <<op, child, target, lock, guard>>
      BY <1>1, <2>5 DEF DownRead
    <3> QED
      BY <2>1, <2>5, <3>1, Proceeds DEF Deleting
  <2> QED
    BY <2>3, <2>4, <2>5
<1>2. CASE DownLock(c)
  <2>1. CASE Finish(c) /\ UNCHANGED dpc
    BY <1>2, <2>1, CommandsEndWell
  <2>2. CASE ~Finish(c) /\ Stopped(c) /\ UNCHANGED dpc /\ pidFile' = None
    <3>1. /\ op[c] # "down" /\ cpc[c] = "down_lock" /\ lock \in {None, c} /\ Unlock(c)
          /\ cpc' = [cpc EXCEPT ![c] = "reset_revoke"]
          /\ pidFile \in Daemon => ~Alive(pidFile)
          /\ UNCHANGED <<op, child, target, guard, orphans>>
      BY <1>2, <2>2 DEF DownLock, Stopped, historyVars
    <3> QED
      BY <2>2, <3>1, ResetGoesOn DEF Stopping
  <2>3. CASE cpc' = [cpc EXCEPT ![c] = "down_wait"]
    <3> USE DEF ControlParts
    <3>1. /\ cpc[c] = "down_lock" /\ lock = None /\ pidFile \in Daemon /\ Alive(pidFile)
          /\ cpc' = [cpc EXCEPT ![c] = "down_wait"] /\ target' = [target EXCEPT ![c] = pidFile]
          /\ lock' = c /\ UNCHANGED <<op, child, pidFile, guard, orphans>>
          /\ Terminate(pidFile)
      BY <1>2, <2>3 DEF DownLock, Stopped, Finish, Leave, historyVars
    <3>2. \A d \in Daemon : /\ dpc'[d] = "none" <=> dpc[d] = "none"
                            /\ Alive(d)' => Alive(d)
      BY <3>1 DEF Terminate, Alive
    <3>3. Held'
      BY <3>1 DEF Held, UpStage, Stopping, Deleting
    <3>4. OnFile'
      <4>1. \A e \in Cmd : cpc[e] \notin UpStage \cup {"down_wait"}
        BY <3>1 DEF Held
      <4>2. ASSUME NEW e \in Cmd
            PROVE  UpOnFile(e)' /\ DownOnFile(e)'
        BY <3>1, <4>1, <4>2 DEF OnFile, UpOnFile, DownOnFile, Holding, UpStage
      <4> QED
        BY <3>1, <3>2, <4>2 DEF OnFile, DownOnFile
    <3>5. Cleared' /\ Tracked'
      BY <3>1, <3>2 DEF Cleared, Deleting, Tracked
    <3> QED
      BY <3>3, <3>4, <3>5
  <2> QED
    <3>1. \/ Finish(c) /\ UNCHANGED dpc
          \/ Stopped(c) /\ UNCHANGED dpc /\ pidFile' = None
          \/ cpc' = [cpc EXCEPT ![c] = "down_wait"]
      BY <1>2 DEF DownLock
    <3> QED
      BY <2>1, <2>2, <2>3, <3>1
<1>3. CASE DownWait(c)
  <2>1. CASE Finish(c)
    BY <1>3, <2>1, CommandsEndWell
  <2>2. CASE ~Finish(c)
    <3>1. /\ ~Alive(target[c]) /\ pidFile' = None /\ Stopped(c)
          /\ cpc[c] = "down_wait" /\ UNCHANGED <<dpc, orphans>>
      BY <1>3, <2>2 DEF DownWait, daemonVars, historyVars
    <3>2. lock = c /\ pidFile = target[c]
      BY <3>1 DEF ControlParts, Held, OnFile, DownOnFile
    <3> QED
      BY <2>2, <3>1, <3>2, ResetGoesOn DEF Stopped, Stopping
  <2> QED
    BY <2>1, <2>2
<1> QED
  BY <1>1, <1>2, <1>3

\* reset, around the stop.
LEMMA ResetKeepsControl ==
  ASSUME ControlType, ControlParts, NEW c \in Cmd, Reset(c)
  PROVE  ControlParts'
<1> USE ControlAssumption DEF ControlType
<1>1. CASE ResetFails(c) \/ ResetDeleteSecret(c)
  BY <1>1, CommandsEndWell
<1>2. CASE ResetGuard(c)
  <2>1. CASE Finish(c)
    BY <1>2, <2>1, CommandsEndWell
  <2>2. CASE ~Finish(c)
    BY <1>2, <2>2, Proceeds DEF ResetGuard, UpStage, Stopping, Deleting, daemonVars, historyVars
  <2> QED
    BY <2>1, <2>2
<1>3. CASE ResetInspect(c)
  <2>1. CASE Finish(c)
    BY <1>3, <2>1, CommandsEndWell
  <2>2. CASE ~Finish(c)
    BY <1>3, <2>2, Proceeds DEF ResetInspect, UpStage, Stopping, Deleting, daemonVars, historyVars
  <2> QED
    BY <2>1, <2>2
<1>4. CASE ResetRevoke(c)
  BY <1>4, Proceeds DEF ResetRevoke, Deleting, fileVars, daemonVars, historyVars
<1>5. CASE ResetDeletePid(c)
  <2>1. pidFile = None /\ lock = None
    BY <1>5 DEF ResetDeletePid, ControlParts, Cleared, Deleting
  <2> QED
    BY <1>5, <2>1, Proceeds DEF ResetDeletePid, Deleting, daemonVars, historyVars
<1> QED
  BY <1>1, <1>2, <1>3, <1>4, <1>5 DEF Reset

LEMMA ControlInductive == ControlInv /\ [Next]_vars => ControlInv'
<1> SUFFICES ASSUME ControlInv, [Next]_vars, ~overlap' PROVE ControlInv'
  BY ControlTypeInductive DEF ControlInv
<1>1. ControlType /\ ControlType'
  BY ControlTypeInductive DEF ControlInv
<1>2. ~overlap
  <2>1. CASE \E h \in Caller : CallerStep(h)
    BY <2>1, CallersKeep
  <2>2. CASE ~\E h \in Caller : CallerStep(h)
    BY <2>2 DEF CallerStep, Next, vars, Run, Up, Down, Reset, UpBegin, DownBegin, ResetPlan, UpAbandon,
     KillCmd, UpLock, UpInspect, UpRecord, UpWrite, UpPoll, UpReap, DownRead, DownLock, DownWait,
     ResetGuard, ResetInspect, ResetRevoke, ResetDeletePid, ResetDeleteSecret, ResetFails,
     Work, DaemonFails, SecretFails, UpFails, Traffic, Panic, KillDaemon, Recycle, Start,
     LoadOrCreateSecret, WriteSecret, SyncSecret, SecretGivesUp, Serve, BuildDataPlane, RulesUp,
     RulesHook, MarkReady, ClosePlane, LoopEnds, Unhook, Exit, Accept, BuildFlow, TakeFlow,
     historyVars
  <2> QED
    BY <2>1, <2>2
<1>3. ControlParts
  BY <1>2 DEF ControlInv
<1>4. CASE UNCHANGED vars
  BY <1>1, <1>3, <1>4 DEF ControlInv, ControlParts, Held, OnFile, UpOnFile, DownOnFile,
     Cleared, Tracked, Alive,
     vars, cmdVars, fileVars, daemonVars, historyVars
<1>5. ASSUME NEW c \in Cmd, UpBegin(c) \/ DownBegin(c) \/ ResetPlan(c)
      PROVE  ControlParts'
  BY <1>1, <1>3, <1>5, CommandsBegin
<1>6. ASSUME NEW c \in Cmd, Up(c) \/ UpAbandon(c)
      PROVE  ControlParts'
  BY <1>1, <1>3, <1>6, UpLocks, UpKeepsControl, CommandsEndWell DEF Up
<1>7. ASSUME NEW c \in Cmd, Down(c)
      PROVE  ControlParts'
  BY <1>1, <1>3, <1>7, DownKeepsControl DEF Down
<1>8. ASSUME NEW c \in Cmd, Reset(c)
      PROVE  ControlParts'
  BY <1>1, <1>3, <1>8, ResetKeepsControl
<1>9. ASSUME NEW c \in Cmd, KillCmd(c)
      PROVE  ControlParts'
  BY <1>1, <1>3, <1>9, CommandsEndWell
<1>10. ASSUME NEW d \in Daemon,
             Work(d) \/ DaemonFails(d) \/ Traffic(d) \/ Panic(d) \/ KillDaemon(d) \/ Recycle(d)
      PROVE  ControlParts'
  BY <1>1, <1>3, <1>10, DaemonsKeepControl
<1>11. ASSUME NEW h \in Caller, CallerStep(h)
       PROVE  ControlParts'
  BY <1>1, <1>3, <1>11, CallersKeep, DaemonMoves DEF daemonVars, ControlType, Alive
<1> QED
  BY <1>1, <1>4, <1>5, <1>6, <1>7, <1>8, <1>9, <1>10, <1>11 DEF Next, Run, ControlInv, CallerStep

LEMMA ControlHolds == Spec => []ControlInv
BY ControlInit, ControlInductive, PTL DEF Spec

\* A daemon that runs is the one in the pid file, or the proxy up that started it
\* still holds it and the lock: none escapes proxy down and reset, unless its up
\* was killed before it wrote the record, or a reset did not see that up.
THEOREM DaemonsAreRecorded == Spec => []Recorded
<1>1. ControlInv => Recorded
  <2> SUFFICES ASSUME ControlInv, ~overlap, NEW d \in Daemon \ orphans, Alive(d), pidFile # d
               PROVE  \E c \in Cmd : child[c] = d /\ lock = c /\ cpc[c] \in UpStage
    BY DEF Recorded
  <2>1. PICK c \in Cmd : child[c] = d /\ lock = c
    BY DEF ControlInv, ControlParts, Tracked
  <2>2. cpc[c] \in Holding
    BY <2>1, ControlAssumption DEF ControlInv, ControlParts, OnFile, UpOnFile
  <2> QED
    BY <2>1, <2>2 DEF Holding, UpStage
<1> QED
  BY <1>1, ControlHolds, PTL

\* Whatever order ups, downs and resets come in, and wherever they are killed, no
\* second daemon runs beside the first, orphans and overlapping resets aside.
THEOREM OneDaemonAtATime == Spec => []OneDaemon
<1>1. ControlInv => OneDaemon
  <2> SUFFICES ASSUME ControlInv, ~overlap, NEW d \in Daemon \ orphans, NEW e \in Daemon \ orphans,
                      Alive(d), Alive(e)
               PROVE  d = e
    BY DEF OneDaemon
  <2> USE DEF ControlInv, ControlParts
  <2>1. ASSUME NEW c \in Cmd, NEW f \in Daemon, child[c] = f, Alive(f), NEW g \in Daemon,
               pidFile = g, Alive(g)
        PROVE  f = g
    <3>1. cpc[c] \in Holding
      BY <2>1, ControlAssumption DEF OnFile, UpOnFile
    <3>2. CASE cpc[c] = "up_poll"
      BY <2>1, <3>2 DEF OnFile, UpOnFile
    <3>3. CASE cpc[c] # "up_poll"
      BY <2>1, <3>1, <3>3, ControlAssumption DEF OnFile, UpOnFile, Holding
    <3> QED
      BY <3>2, <3>3
  <2> QED
    BY <2>1 DEF Tracked
<1> QED
  BY <1>1, ControlHolds, PTL

\* A reset that gets to its last deletion leaves no daemon, no pid file and no
\* lock, and no socket if it had announced one, although other commands ran
\* meanwhile.
THEOREM ResetIsComplete == Spec => ResetLeavesNothing
<1>1. ASSUME ControlInv, NEW c \in Cmd, ResetDeleteSecret(c), ~overlap, orphans = {}
      PROVE  /\ \A d \in Daemon : ~Alive(d)
             /\ pidFile = None /\ lock = None
             /\ "sock" \in plan[c] => sock' = None
  <2>1. pidFile = None /\ lock = None
    BY <1>1 DEF ControlInv, ControlParts, Cleared, Deleting, ResetDeleteSecret
  <2>2. \A d \in Daemon : ~Alive(d)
    BY <1>1, <2>1, ControlAssumption DEF ControlInv, ControlParts, Tracked
  <2> QED
    BY <1>1, <2>1, <2>2 DEF ResetDeleteSecret
<1>2. ControlInv /\ [Next]_vars =>
        [\A c \in Cmd : ResetDeleteSecret(c) /\ ~overlap /\ orphans = {} =>
           /\ \A d \in Daemon : ~Alive(d)
           /\ pidFile = None /\ lock = None
           /\ "sock" \in plan[c] => sock' = None]_vars
  BY <1>1
<1> QED
  BY <1>2, ControlHolds, PTL DEF Spec, ResetLeavesNothing

-----------------------------------------------------------------------------
(* The secret. *)

Creator == Daemon \cup Caller

\* A daemon that is creating the file, or is past it, and a file that fits.
SecretFits(d) ==
  /\ dpc[d] = "write_secret" => secret = <<"empty", d>>
  /\ dpc[d] = "sync_secret" => secret = <<"full", d>>
  /\ Alive(d) /\ dpc[d] \notin Starting => mine[d] \in Creator /\ secret = <<"full", mine[d]>>

SecretInv ==
  /\ dpc \in [Daemon -> DaemonState] /\ mine \in [Daemon -> Creator \cup {None}]
  /\ secret \in {None} \cup ({"empty", "full"} \X Creator)
  /\ wiped \/ withdrawn \/ \A d \in Daemon : SecretFits(d)

LEMMA SecretInit == Init => SecretInv
BY ControlAssumption DEF Init, SecretInv, SecretFits, Creator, Fresh, AlreadyUp, DaemonState, Starting, Marked, Alive

LEMMA SecretInductive == SecretInv /\ [Next]_vars => SecretInv'
<1> SUFFICES ASSUME SecretInv, [Next]_vars PROVE SecretInv'
  OBVIOUS
<1> USE ControlAssumption DEF SecretInv, SecretFits, Creator, DaemonState, Starting, Marked, Alive
<1>1. CASE UNCHANGED vars
  BY <1>1 DEF vars, sharedVars, daemonVars, historyVars
<1>2. ASSUME NEW c \in Cmd,
             UpBegin(c) \/ DownBegin(c) \/ ResetPlan(c) \/ Run(c) \/ UpAbandon(c) \/ KillCmd(c)
      PROVE  SecretInv'
  <2>1. CASE ResetDeleteSecret(c)
    BY <2>1 DEF ResetDeleteSecret, daemonVars
  <2>2. CASE ~ResetDeleteSecret(c)
    <3>1. /\ UNCHANGED <<secret, mine, wiped, withdrawn>>
          /\ \/ UNCHANGED dpc
             \/ \E d \in Daemon : /\ dpc[d] \in {"none", "start"}
                                  /\ \E x \in {"start", "dead"} : dpc' = [dpc EXCEPT ![d] = x]
      BY <1>2, <2>2 DEF UpBegin, DownBegin, ResetPlan, Run, Up, Down, Reset, UpAbandon, KillCmd,
         UpLock, UpInspect, UpRecord, UpWrite, UpPoll, UpReap, DownRead, DownLock, DownWait,
         ResetGuard, ResetInspect, ResetRevoke, ResetDeletePid, ResetFails,
         Terminate, daemonVars, historyVars, sharedVars
    <3> QED
      BY <3>1
  <2> QED
    BY <2>1, <2>2
<1>3. ASSUME NEW d \in Daemon,
             Work(d) \/ DaemonFails(d) \/ Traffic(d) \/ Panic(d) \/ KillDaemon(d) \/ Recycle(d)
      PROVE  SecretInv'
  <2>1. CASE Start(d)
    BY <2>1 DEF Start, Goto, sharedVars, historyVars
  <2>2. CASE LoadOrCreateSecret(d)
    <3>1. CASE /\ secret = None /\ secret' = <<"empty", d>>
               /\ Goto(d, "write_secret") /\ UNCHANGED mine
      <4>1. /\ secret' = <<"empty", d>> /\ UNCHANGED <<mine, wiped, withdrawn>>
            /\ dpc' = [dpc EXCEPT ![d] = "write_secret"]
        BY <2>2, <3>1 DEF LoadOrCreateSecret, Goto, historyVars
      <4>2. ASSUME ~wiped, ~withdrawn, NEW f \in Daemon
            PROVE  dpc[f] \notin {"write_secret", "sync_secret"} /\ ~(Alive(f) /\ dpc[f] \notin Starting)
        <5>1. <<"empty", f>> # None /\ \A e \in Creator : <<"full", e>> # None
          OBVIOUS
        <5> QED
          BY <3>1, <4>2, <5>1
      <4> QED
        BY <4>1, <4>2
    <3>2. CASE /\ secret # None /\ secret[1] = "full"
               /\ mine' = [mine EXCEPT ![d] = secret[2]] /\ Goto(d, "serve")
               /\ UNCHANGED secret
      <4>1. PICK e \in Creator : secret = <<"full", e>>
        BY <3>2
      <4>2. /\ mine' = [mine EXCEPT ![d] = e] /\ dpc' = [dpc EXCEPT ![d] = "serve"]
            /\ secret' = <<"full", e>> /\ UNCHANGED <<wiped, withdrawn>> /\ dpc[d] = "secret"
        BY <2>2, <3>2, <4>1 DEF LoadOrCreateSecret, Goto, historyVars
      <4>3. ASSUME ~wiped, ~withdrawn, NEW f \in Daemon, Alive(f), dpc[f] \notin Starting
            PROVE  mine[f] = e
        BY <4>1, <4>3
      <4>4. ASSUME ~wiped, ~withdrawn, NEW f \in Daemon
            PROVE  SecretFits(f)'
        BY <4>1, <4>2, <4>3, <4>4
      <4> QED
        BY <4>2, <4>4
    <3> QED
      BY <2>2, <3>1, <3>2 DEF LoadOrCreateSecret
  <2>3. CASE WriteSecret(d)
    <3>1. /\ dpc[d] = "write_secret" /\ dpc' = [dpc EXCEPT ![d] = "sync_secret"]
          /\ secret' = IF secret = <<"empty", d>> THEN <<"full", d>> ELSE secret
          /\ UNCHANGED <<mine, wiped, withdrawn>>
      BY <2>3 DEF WriteSecret, FillsSecret, Goto, historyVars
    <3>2. ASSUME ~wiped, ~withdrawn, NEW f \in Daemon
          PROVE  SecretFits(f)'
      <4>1. secret = <<"empty", d>> /\ secret' = <<"full", d>>
        BY <3>1, <3>2
      <4>2. f # d => dpc'[f] = dpc[f] /\ dpc[f] \notin {"write_secret", "sync_secret"}
                     /\ ~(Alive(f) /\ dpc[f] \notin Starting)
        BY <3>1, <3>2, <4>1
      <4> QED
        BY <3>1, <4>1, <4>2
    <3> QED
      BY <3>1, <3>2
  <2>3a. CASE SyncSecret(d)
    <3>1. /\ dpc[d] = "sync_secret" /\ dpc' = [dpc EXCEPT ![d] = "serve"]
          /\ mine' = [mine EXCEPT ![d] = d]
          /\ UNCHANGED <<secret, wiped, withdrawn>>
      BY <2>3a DEF SyncSecret, Goto, sharedVars, historyVars
    <3> QED
      BY <3>1
  <2>4. CASE SecretGivesUp(d)
    BY <2>4 DEF SecretGivesUp, Goto, sharedVars, historyVars
  <2>5. CASE DaemonFails(d)
    <3>1. UNCHANGED <<mine, wiped>>
      BY <2>5 DEF DaemonFails
    <3>2. CASE UNCHANGED <<secret, withdrawn>>
      <4>1. \E x \in {"dead", "flush"} : Goto(d, x) /\ (x = "dead" \/ dpc[d] \in {"plane", "rules", "hook"})
        BY <2>5 DEF DaemonFails, SecretFails, UpFails
      <4> QED
        BY <3>1, <3>2, <4>1 DEF Goto
    <3>3. CASE WithdrawsSecret(d) /\ Goto(d, "dead") /\ dpc[d] \in {"write_secret", "sync_secret"}
      <4>1. dpc' = [dpc EXCEPT ![d] = "dead"] /\ secret' = None
            /\ withdrawn' = (withdrawn \/ secret \notin {None, <<"empty", d>>})
        BY <3>3 DEF Goto, WithdrawsSecret
      <4>2. ASSUME ~wiped, ~withdrawn', NEW f \in Daemon
            PROVE  SecretFits(f)'
        <5>1. secret \in {None, <<"empty", d>>}
          BY <4>1, <4>2
        <5>2. f # d => dpc'[f] = dpc[f] /\ dpc[f] \notin {"write_secret", "sync_secret"}
                       /\ ~(Alive(f) /\ dpc[f] \notin Starting)
          <6>1. \A e \in Creator : /\ <<"full", e>> \notin {None, <<"empty", d>>}
                                   /\ <<"empty", e>> # None
                                   /\ <<"empty", e>> = <<"empty", d>> => e = d
            OBVIOUS
          <6>2. SecretFits(f) /\ f \in Creator
            BY <4>1, <4>2
          <6>3. f # d => dpc'[f] = dpc[f]
            BY <4>1
          <6> QED
            BY <5>1, <6>1, <6>2, <6>3
        <5> QED
          BY <4>1, <5>2
      <4> QED
        BY <3>1, <4>1, <4>2
    <3> QED
      BY <2>5, <3>2, <3>3 DEF DaemonFails, SecretFails, UpFails
  <2>6. CASE Serve(d) \/ BuildDataPlane(d) \/ RulesUp(d) \/ RulesHook(d) \/ MarkReady(d)
             \/ ClosePlane(d) \/ LoopEnds(d) \/ Unhook(d) \/ Exit(d)
    <3>1. /\ UNCHANGED <<secret, mine, wiped, withdrawn>>
          /\ Alive(d) /\ dpc[d] \notin Starting
          /\ \E x \in DaemonState \ (Starting \cup {"none"}) : dpc' = [dpc EXCEPT ![d] = x]
      BY <2>6 DEF Serve, BuildDataPlane, RulesUp, RulesHook, MarkReady, ClosePlane,
         LoopEnds, Unhook, Exit, Goto, sharedVars, historyVars
    <3> QED
      BY <3>1
  <2>7. CASE Traffic(d) \/ Panic(d) \/ KillDaemon(d) \/ Recycle(d)
    <3>1. /\ UNCHANGED <<secret, mine, wiped, withdrawn>>
          /\ UNCHANGED dpc \/ dpc' = [dpc EXCEPT ![d] = "dead"]
      BY <2>7 DEF Traffic, Accept, BuildFlow, TakeFlow, Panic, KillDaemon, Recycle, Gone,
         Goto, sharedVars, daemonVars, historyVars
    <3> QED
      BY <3>1
  <2> QED
    BY <1>3, <2>1, <2>2, <2>3, <2>3a, <2>4, <2>5, <2>6, <2>7 DEF Work
<1>4. ASSUME NEW h \in Caller, CallerStep(h)
      PROVE  SecretInv'
  <2>1. UNCHANGED <<dpc, mine, wiped>>
    BY <1>4, CallersKeep DEF daemonVars
  <2>2. CASE UNCHANGED <<secret, withdrawn>>
    BY <2>1, <2>2
  <2>3. CASE secret \in {None, <<"empty", h>>} /\ secret' \in {None, <<"empty", h>>, <<"full", h>>}
             /\ withdrawn' = withdrawn
    <3>1. ASSUME ~wiped, ~withdrawn, NEW d \in Daemon
          PROVE  SecretFits(d)'
      <4>1. /\ dpc[d] \notin {"write_secret", "sync_secret"}
            /\ ~(Alive(d) /\ dpc[d] \notin Starting)
        BY <2>3, <3>1
      <4> QED
        BY <2>1, <4>1
    <3> QED
      BY <2>1, <2>3, <3>1
  <2>4. CASE withdrawn' /\ secret' = None
    BY <2>1, <2>4
  <2> QED
    <3>1. CASE CallerCreates(h)
      BY <2>3, <3>1 DEF CallerCreates, historyVars
    <3>2. CASE CallerWrites(h)
      BY <2>2, <2>3, <3>2 DEF CallerWrites, FillsSecret, historyVars
    <3>3. CASE CallerFails(h)
      <4>1. secret' = None /\ withdrawn' = (withdrawn \/ secret \notin {None, <<"empty", h>>})
        BY <3>3 DEF CallerFails, WithdrawsSecret
      <4>2. CASE secret \in {None, <<"empty", h>>} /\ ~withdrawn
        BY <2>1, <4>1, <4>2
      <4>3. CASE secret \notin {None, <<"empty", h>>} \/ withdrawn
        BY <2>4, <4>1, <4>3
      <4> QED
        BY <4>2, <4>3
    <3>4. CASE KillCaller(h)
      BY <2>2, <3>4 DEF KillCaller, sharedVars, historyVars
    <3> QED
      BY <1>4, <3>1, <3>2, <3>3, <3>4 DEF CallerStep
<1> QED
  BY <1>1, <1>2, <1>3, <1>4 DEF Next, CallerStep

\* Daemons and hooks that come to the secret at the same time agree on it, and on
\* what clients read from the file, for any number of them, even when the one that
\* created the file is killed or fails before it has written it, as long as no reset
\* deletes the file under a daemon and no creator removes it after others could
\* read it (a Sync or Close that fails).
THEOREM DaemonsAgree == Spec => []SecretAgrees
<1>1. SecretInv => SecretAgrees
  BY DEF SecretInv, SecretFits, SecretAgrees
<1> QED
  BY SecretInit, SecretInductive, <1>1, PTL DEF Spec

-----------------------------------------------------------------------------
(* Packets and the sysctl. *)

Redirecting == {"hook", "ready", "running", "draining", "unhook"}

HostInv ==
  /\ plane \in {"sandbox", "transparent"}
  /\ dpc \in [Daemon -> DaemonState] /\ saved \subseteq Daemon
  /\ rules \in {"none", "chain", "jump"}
  /\ localnet \in {"0", "1"} /\ localnet0 \in {"0", "1"}
  /\ plane = "sandbox" =>
       /\ rules = "none" /\ localnet = localnet0 /\ saved = {}
       /\ \A d \in Daemon : dpc[d] \notin {"rules", "hook", "unhook"}
  /\ plane # "sandbox" =>
       /\ leftRules \/ rules = "none" \/ \E d \in Daemon : dpc[d] \in Redirecting
       /\ leftLocalnet \/
            /\ \A d \in saved : dpc[d] \in Redirecting
            /\ \A d, e \in saved : d = e
            /\ localnet0 = "1" => localnet = "1" /\ saved = {}
            /\ localnet0 = "0" => (localnet = "1" <=> saved # {})

LEMMA HostInit == Init => HostInv
<1> SUFFICES ASSUME Init PROVE HostInv
  OBVIOUS
<1>1. plane \in {"sandbox", "transparent"} /\ localnet0 \in {"0", "1"}
  BY ControlAssumption DEF Init
<1>2. CASE Fresh
  BY <1>1, <1>2 DEF Fresh, HostInv, DaemonState
<1>3. ASSUME NEW d \in Daemon, AlreadyUp(d)
      PROVE  HostInv
  <2>1. /\ dpc = [e \in Daemon |-> IF e = d THEN "running" ELSE "none"]
        /\ dpc \in [Daemon -> DaemonState]
    BY <1>3 DEF AlreadyUp, DaemonState, Marked
  <2>2. CASE plane = "sandbox"
    BY <1>1, <1>3, <2>1, <2>2 DEF AlreadyUp, HostInv
  <2>3. CASE plane # "sandbox"
    <3>1. /\ rules = "jump" /\ localnet = "1" /\ saved \subseteq {d}
          /\ localnet0 = "1" => saved = {}
          /\ localnet0 = "0" => saved = {d}
      BY <1>3, <2>3 DEF AlreadyUp
    <3> QED
      BY <1>1, <2>1, <2>3, <3>1 DEF HostInv, Redirecting
  <2> QED
    BY <2>2, <2>3
<1> QED
  BY <1>2, <1>3 DEF Init

\* What iptables may leave behind, and that it is remembered.
LEMMA ChainLeft ==
  ASSUME rules \in {"none", "chain", "jump"}, ChainDown
  PROVE  rules' \in {"none", "chain", "jump"} /\ (leftRules' \/ rules' = "none")
<1>1. CASE rules = "none"
  BY <1>1 DEF ChainDown, Leftover
<1>2. CASE rules = "chain"
  BY <1>2 DEF ChainDown, Leftover
<1>3. CASE rules = "jump"
  BY <1>3 DEF ChainDown, Leftover
<1> QED
  BY <1>1, <1>2, <1>3

\* A teardown in the transparent plane, by a daemon that is then done with the rules.
LEMMA RulesGoDown ==
  ASSUME HostInv, NEW d \in Daemon, dpc[d] \in {"hook", "unhook"}, RulesDown(d),
         UNCHANGED <<plane, localnet0>>, dpc' = [dpc EXCEPT ![d] = "flush"]
  PROVE  HostInv'
<1> USE DEF HostInv, Redirecting, DaemonState, Starting, Marked
<1>1. plane # "sandbox"
  OBVIOUS
<1>2. rules' \in {"none", "chain", "jump"} /\ (leftRules' \/ rules' = "none")
  BY ChainLeft DEF RulesDown
<1>3. CASE leftLocalnet' /\ UNCHANGED <<localnet, saved>>
  BY <1>1, <1>2, <1>3
<1>4. CASE /\ localnet' = IF d \in saved THEN "0" ELSE localnet
           /\ saved' = saved \ {d} /\ UNCHANGED leftLocalnet
  BY <1>1, <1>2, <1>4
<1> QED
  BY <1>3, <1>4 DEF RulesDown, RestoreLocalnet

LEMMA HostInductive == HostInv /\ [Next]_vars => HostInv'
<1> SUFFICES ASSUME HostInv, [Next]_vars PROVE HostInv'
  OBVIOUS
<1> USE DEF HostInv, Redirecting, DaemonState, Starting, Marked
<1>1. CASE UNCHANGED vars
  BY <1>1 DEF vars, netVars, daemonVars, historyVars
<1>2. ASSUME NEW c \in Cmd,
             UpBegin(c) \/ DownBegin(c) \/ ResetPlan(c) \/ Run(c) \/ UpAbandon(c) \/ KillCmd(c)
      PROVE  HostInv'
  <2>1. /\ UNCHANGED <<plane, netVars, leftRules, leftLocalnet, localnet0>>
        /\ \/ UNCHANGED dpc
           \/ \E d \in Daemon : /\ dpc[d] \in {"none", "start"}
                                /\ \E x \in {"start", "dead"} : dpc' = [dpc EXCEPT ![d] = x]
    BY <1>2 DEF UpBegin, DownBegin, ResetPlan, Run, Up, Down, Reset, UpAbandon, KillCmd,
       UpLock, UpInspect, UpRecord, UpWrite, UpPoll, UpReap, DownRead, DownLock, DownWait,
       ResetGuard, ResetInspect, ResetRevoke, ResetDeletePid, ResetDeleteSecret, ResetFails,
       Terminate, daemonVars, historyVars
  <2> QED
    <3>1. CASE UNCHANGED dpc
      BY <2>1, <3>1 DEF netVars
    <3>2. CASE dpc' # dpc
      <4>. PICK d \in Daemon :
              /\ dpc[d] \in {"none", "start"}
              /\ \E x \in {"start", "dead"} : dpc' = [dpc EXCEPT ![d] = x]
        BY <2>1, <3>2
      <4>1. /\ dpc' \in [Daemon -> DaemonState]
            /\ \A e \in Daemon : e = d \/ dpc'[e] = dpc[e]
            /\ dpc'[d] \in {"start", "dead"}
        OBVIOUS
      <4>2. UNCHANGED <<plane, rules, localnet, saved, leftRules, leftLocalnet, localnet0>>
        BY <2>1 DEF netVars
      <4>3. CASE plane = "sandbox"
        BY <4>1, <4>2, <4>3
      <4>4. CASE plane = "transparent"
        <5>1. \A e \in Daemon : dpc[e] \in Redirecting => dpc'[e] \in Redirecting
          BY <4>1
        <5> QED
          BY <4>1, <4>2, <4>4, <5>1
      <4> QED
        BY <4>3, <4>4
    <3> QED
      BY <3>1, <3>2
<1>3. ASSUME NEW d \in Daemon,
             Work(d) \/ DaemonFails(d) \/ Traffic(d) \/ Panic(d) \/ KillDaemon(d) \/ Recycle(d)
      PROVE  HostInv'
  <2>1. CASE Start(d)
    BY <2>1 DEF Start, Goto, netVars, historyVars
  <2>2. CASE LoadOrCreateSecret(d)
    BY <2>2 DEF LoadOrCreateSecret, Goto, netVars, historyVars
  <2>3. CASE WriteSecret(d)
    BY <2>3 DEF WriteSecret, Goto, netVars, historyVars
  <2>3a. CASE SyncSecret(d)
    BY <2>3a DEF SyncSecret, Goto, netVars, historyVars
  <2>4. CASE SecretGivesUp(d)
    BY <2>4 DEF SecretGivesUp, Goto, netVars, historyVars
  <2>5. CASE Serve(d)
    BY <2>5 DEF Serve, Goto, netVars, historyVars
  <2>6. CASE BuildDataPlane(d)
    BY <2>6 DEF BuildDataPlane, Goto, netVars, historyVars
  <2>7. CASE RulesUp(d)
    BY <2>7 DEF RulesUp, Goto, historyVars
  <2>8. CASE RulesHook(d)
    BY <2>8 DEF RulesHook, Goto, historyVars
  <2>9. CASE MarkReady(d)
    BY <2>9 DEF MarkReady, Goto, netVars, historyVars
  <2>10. CASE ClosePlane(d)
    BY <2>10 DEF ClosePlane, Goto, netVars, historyVars
  <2>11. CASE LoopEnds(d)
    BY <2>11 DEF LoopEnds, Goto, netVars, historyVars
  <2>12. CASE Unhook(d)
    BY <2>12, RulesGoDown DEF Unhook, Goto
  <2>13. CASE Exit(d)
    BY <2>13 DEF Exit, Goto, netVars, historyVars
  <2>14. CASE DaemonFails(d)
    <3>1. CASE \/ SecretFails(d)
               \/ /\ dpc[d] = "plane" /\ Goto(d, "flush")
                  /\ UNCHANGED <<netVars, leftRules, leftLocalnet>>
      <4>1. /\ UNCHANGED <<plane, netVars, leftRules, leftLocalnet, localnet0>>
            /\ dpc[d] \notin Redirecting
            /\ \E x \in {"dead", "flush"} : Goto(d, x)
        BY <2>14, <3>1 DEF DaemonFails, SecretFails
      <4> QED
        BY <4>1 DEF netVars, Goto
    <3>2. CASE UpFails(d) /\ dpc[d] = "hook"
      BY <2>14, <3>2, RulesGoDown DEF DaemonFails, UpFails, Goto
    <3>3. CASE UpFails(d) /\ dpc[d] = "rules"
      <4>1. /\ UNCHANGED <<plane, localnet0>> /\ plane # "sandbox"
            /\ dpc' = [dpc EXCEPT ![d] = "flush"] /\ ChainDown
            /\ \/ UNCHANGED <<localnet, saved, leftLocalnet>>
               \/ leftLocalnet' /\ localnet' = "1" /\ saved' = saved \cup {d}
        BY <2>14, <3>3 DEF DaemonFails, UpFails, Goto
      <4>2. rules' \in {"none", "chain", "jump"} /\ (leftRules' \/ rules' = "none")
        BY <4>1, ChainLeft
      <4> QED
        BY <3>3, <4>1, <4>2
    <3> QED
      BY <2>14, <3>1, <3>2, <3>3 DEF DaemonFails, UpFails
  <2>15. CASE Panic(d)
    BY <2>15 DEF Panic, Goto, Gone, netVars, historyVars
  <2>16. CASE KillDaemon(d)
    <3>1. /\ UNCHANGED <<plane, netVars, localnet0>>
          /\ leftRules' = (leftRules \/ rules # "none")
          /\ leftLocalnet' = (leftLocalnet \/ d \in saved)
          /\ dpc' = [dpc EXCEPT ![d] = "dead"]
      BY <2>16 DEF KillDaemon, Goto, Gone
    <3> QED
      BY <3>1 DEF netVars
  <2>17. CASE Recycle(d)
    BY <2>17 DEF Recycle, netVars, daemonVars, historyVars
  <2>18. CASE Traffic(d)
    BY <2>18 DEF Traffic, Accept, BuildFlow, TakeFlow, netVars, historyVars
  <2> QED
    BY <1>3, <2>1, <2>2, <2>3, <2>3a, <2>4, <2>5, <2>6, <2>7, <2>8, <2>9, <2>10,
       <2>11, <2>12, <2>13, <2>14, <2>15, <2>16, <2>17, <2>18 DEF Work
<1>4. ASSUME NEW h \in Caller, CallerStep(h)
      PROVE  HostInv'
  BY <1>4, CallersKeep DEF netVars, daemonVars
<1> QED
  BY <1>1, <1>2, <1>3, <1>4 DEF Next, CallerStep

\* Once no daemon runs the packet rules are gone, unless one was killed, or failed to
\* remove them, since a teardown last succeeded; and the sysctl is as it was before
\* Keydris first ran, unless one was killed before it wrote it back or could not:
\* however many daemons came and went and wherever each one failed.
THEOREM HostIsRestored == Spec => []HostRestored
<1>1. HostInv => HostRestored
  BY DEF HostInv, HostRestored, Alive, Redirecting
<1> QED
  BY HostInit, HostInductive, <1>1, PTL DEF Spec
=============================================================================
