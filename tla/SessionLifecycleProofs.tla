---------------------- MODULE SessionLifecycleProofs ----------------------
(***************************************************************************)
(* TLAPS proofs about SessionLifecycle, under the assumption that hooks of   *)
(* one session do not overlap and, but for the first, that local steps are   *)
(* quick against the renewal timers:                                         *)
(*                                                                           *)
(*   EndedInv   a session whose end or retirement reported success never     *)
(*              returns to the daemon's registry;                            *)
(*   CoverInv   the state file of a registered session names it and its KIT; *)
(*   OriginInv  whoever holds a KIT agrees with the control plane on the     *)
(*              session it was minted for;                                   *)
(*   KitInv     no live KIT is lost, none outlives its session, and no       *)
(*              session has two.                                             *)
(*                                                                           *)
(* Each is inductive relative to the one before.  Each of its parts is kept  *)
(* by a lemma of its own, which rests on lemmas that say which actions write *)
(* the state that part is about.                                             *)
(***************************************************************************)
EXTENDS SessionLifecycle, TLAPS

(* The null records, and updates of one field inside a table of records.    *)
LEMMA NullRecords == NoEntry \in Entry /\ NoState \in State
  BY DEF Entry, State, NoEntry, NoState, Owner

\* SetOwner and ReplaceWith change one field of a registry entry.
LEMMA EntryUpdate ==
    ASSUME NEW f \in [Handle -> Entry], NEW h \in Handle,
           NEW u \in Kit \cup {None}, NEW o \in Owner
    PROVE  /\ [f EXCEPT ![h].owner = o] \in [Handle -> Entry]
           /\ [f[h] EXCEPT !.ulid = u] \in Entry
           /\ [f[h] EXCEPT !.ulid = u].ulid = u
  BY DEF Entry

\* A registry entry has a ULID (or none) and an owner.
LEMMA EntryFields ==
    ASSUME NEW f \in [Handle -> Entry], NEW h \in Handle
    PROVE  f[h] \in Entry /\ f[h].ulid \in Kit \cup {None} /\ f[h].owner \in Owner
  BY DEF Entry

\* hookSessionEnd replaces the ULID of the state it loaded.
LEMMA StateUpdate ==
    ASSUME NEW f \in [Proc -> State], NEW p \in Proc,
           NEW u \in Kit \cup {None}
    PROVE  /\ [f EXCEPT ![p].ulid = u] \in [Proc -> State]
           /\ f[p].ulid \in Kit \cup {None}
           /\ f[p].owner \in Owner
  BY DEF State

\* updateSessionOwner changes only the owner of the state it loaded.
LEMMA StateOwner ==
    ASSUME NEW s \in State, NEW o \in Owner
    PROVE  /\ [s EXCEPT !.owner = o] \in State
           /\ [s EXCEPT !.owner = o].handle = s.handle
  BY DEF State

\* Every step keeps every variable's type.
LEMMA TypeNext ==
    ASSUME TypeOK, Shape, LoadedHandles, [Next]_vars
    PROVE  TypeOK'
<1> USE ProcAssumption, SidAssumption, NoneAssumption
<1> USE NullRecords
<1> USE DEF Goto, CliFrame, LoopFrame
<1> USE DEF TypeOK, KitStatus, Owner, ProcPc, LoopPc,
        StartPc, RollbackPc, EndPc, FinalPc, Handle, Proc,
        cpVars, daemonVars, loopVars, cliVars
<1>1. ASSUME NEW k \in Kit, Age(k) PROVE TypeOK'
  BY <1>1 DEF Age
<1>2. ASSUME NEW p \in Proc, Launch(p) PROVE TypeOK'
  BY <1>2 DEF Launch
<1>3. ASSUME NEW p \in Proc, EndLoad(p) PROVE TypeOK'
  BY <1>3 DEF EndLoad, State
<1>4. ASSUME NEW p \in Proc, EndNoState(p) PROVE TypeOK'
  BY <1>4 DEF EndNoState, EndFails
<1>5. ASSUME NEW p \in Proc, Unregister(p) PROVE TypeOK'
  <2>1. CurrentUlid(st[p].handle, st[p].ulid) \in Kit \cup {None}
    <3>1. st[p].handle \in Handle
      BY <1>5 DEF LoadedHandles, Loaded, Unregister
    <3> QED  BY <3>1, EntryFields, StateUpdate DEF CurrentUlid
  <2>2. st' \in [Proc -> State]
    BY <1>5, <2>1, StateUpdate DEF Unregister
  <2>3. reg' \in [Handle -> Entry] /\ cur' \in [Proc -> Kit \cup {None}]
    BY <1>5, <2>1 DEF Unregister, Take
  <2> QED  BY <1>5, <2>2, <2>3 DEF Unregister
<1>6. ASSUME NEW p \in Proc, UnregisterUnacked(p) PROVE TypeOK'
  BY <1>6 DEF UnregisterUnacked, Take
<1>7. ASSUME NEW p \in Proc, UnregisterFails(p) PROVE TypeOK'
  BY <1>7 DEF UnregisterFails
<1>8. ASSUME NEW p \in Proc, EndSave(p) PROVE TypeOK'
  BY <1>8 DEF EndSave
<1>9. ASSUME NEW p \in Proc, EndRevoke(p) PROVE TypeOK'
  <2>1. kit' \in [Kit -> KitStatus]
    BY <1>9 DEF EndRevoke, Revoked
  <2>2. pc' \in [Proc -> ProcPc] /\ retried' \in [Proc -> BOOLEAN]
    <3>1. CASE unregErr[p]
      BY <1>9, <3>1 DEF EndRevoke, EndFails
    <3>2. CASE ~unregErr[p]
      BY <1>9, <3>2 DEF EndRevoke
    <3> QED  BY <3>1, <3>2
  <2> QED  BY <1>9, <2>1, <2>2 DEF EndRevoke
<1>10. ASSUME NEW p \in Proc, EndRevokeFails(p) PROVE TypeOK'
  BY <1>10 DEF EndRevokeFails, Revoked, EndFails
<1>11. ASSUME NEW p \in Proc, EndRemove(p) PROVE TypeOK'
  <2>1. ended' \subseteq Handle
    BY <1>11 DEF EndRemove, LoadedHandles, Loaded
  <2> QED  BY <1>11, <2>1 DEF EndRemove
<1>12. ASSUME NEW p \in Proc, Kill(p) PROVE TypeOK'
  BY <1>12 DEF Kill
<1>13. ASSUME NEW p \in Handle, StartLoad(p) PROVE TypeOK'
  BY <1>13 DEF StartLoad, Saved
<1>14. ASSUME NEW p \in Handle, Mint(p) PROVE TypeOK'
  BY <1>14 DEF Mint, MintFor
<1>15. ASSUME NEW p \in Handle, MintRefused(p) PROVE TypeOK'
  BY <1>15 DEF MintRefused
<1>16. ASSUME NEW p \in Handle, MintLost(p) PROVE TypeOK'
  BY <1>16 DEF MintLost, MintFor
<1>17. ASSUME NEW p \in Handle, Routes(p) PROVE TypeOK'
  BY <1>17 DEF Routes
<1>18. ASSUME NEW p \in Handle, RoutesRejected(p) PROVE TypeOK'
  BY <1>18 DEF RoutesRejected
<1>19. ASSUME NEW p \in Handle, Save(p) PROVE TypeOK'
  BY <1>19 DEF Save, Entry, State
<1>20. ASSUME NEW p \in Handle, SaveFails(p) PROVE TypeOK'
  BY <1>20 DEF SaveFails
<1>21. ASSUME NEW p \in Handle, RollbackRevoke(p) PROVE TypeOK'
  BY <1>21 DEF RollbackRevoke, Revoked
<1>22. ASSUME NEW p \in Handle, Register(p) PROVE TypeOK'
  BY <1>22 DEF Register, Entry, State
<1>23. ASSUME NEW p \in Handle, RegisterUnacked(p) PROVE TypeOK'
  BY <1>23 DEF RegisterUnacked, Entry, State
<1>24. ASSUME NEW p \in Handle, RegisterFails(p) PROVE TypeOK'
  BY <1>24 DEF RegisterFails
<1>25. ASSUME NEW p \in Handle, RollbackRegister(p) PROVE TypeOK'
  BY <1>25 DEF RollbackRegister, Revoked
<1>26. ASSUME NEW p \in Handle, RollbackRetained(p) PROVE TypeOK'
  BY <1>26 DEF RollbackRetained
<1>27. ASSUME NEW p \in Handle, RollbackRemove(p) PROVE TypeOK'
  BY <1>27 DEF RollbackRemove
<1>28. ASSUME NEW p \in Handle, OwnerLoad(p) PROVE TypeOK'
  <2>1. CASE Saved(SidOf[p])
    <3>1. PICK o \in OwnerOf(p) : st' = [st EXCEPT ![p] = [disk[SidOf[p]] EXCEPT !.owner = o]]
      BY <1>28, <2>1 DEF OwnerLoad
    <3>2. o \in Owner
      BY DEF OwnerOf
    <3>3. disk[SidOf[p]] \in State
      OBVIOUS
    <3>4. st' \in [Proc -> State]
      BY <3>1, <3>2, <3>3, StateOwner
    <3> QED  BY <1>28, <2>1, <3>4 DEF OwnerLoad
  <2>2. CASE ~Saved(SidOf[p])
    BY <1>28, <2>2 DEF OwnerLoad, AfterOwner
  <2> QED  BY <2>1, <2>2
<1>29. ASSUME NEW p \in Handle, OwnerSave(p) PROVE TypeOK'
  BY <1>29 DEF OwnerSave
<1>30. ASSUME NEW p \in Handle, OwnerSend(p) PROVE TypeOK'
  <2>1. reg' \in [Handle -> Entry]
    <3>1. st[p].owner \in Owner /\ st[p].handle \in Handle
      BY <1>30, StateUpdate DEF OwnerSend, LoadedHandles, Loaded
    <3>2. [reg EXCEPT ![st[p].handle].owner = st[p].owner] \in [Handle -> Entry]
      BY <3>1, EntryUpdate
    <3> QED  BY <1>30, <3>2 DEF OwnerSend
  <2> QED  BY <1>30, <2>1 DEF OwnerSend, AfterOwner
<1>31. ASSUME NEW p \in Handle, OwnerSendFails(p) PROVE TypeOK'
  BY <1>31 DEF OwnerSendFails, AfterOwner
<1>32. ASSUME NEW p \in Runner, Spawn(p) PROVE TypeOK'
  BY <1>32 DEF Spawn
<1>33. ASSUME NEW p \in Runner, SpawnFails(p) PROVE TypeOK'
  BY <1>33 DEF SpawnFails
<1>34. ASSUME NEW p \in Runner, RunEnds(p) PROVE TypeOK'
  BY <1>34 DEF RunEnds
<1>35. ASSUME NEW p \in Runner, ChildExit(p) PROVE TypeOK'
  BY <1>35 DEF ChildExit
<1>36. ASSUME NEW h \in Handle, ScanSkip(h) PROVE TypeOK'
  BY <1>36 DEF ScanSkip, InScan, OwnerGone, Skip
<1>37. ASSUME NEW h \in Handle, ScanOwnerGone(h) PROVE TypeOK'
  BY <1>37 DEF ScanOwnerGone, InScan, OwnerGone, Skip
<1>38. ASSUME NEW h \in Handle, ScanRetire(h) PROVE TypeOK'
  <2>1. CASE Registered(h)
    <3>1. tkit' \in Kit \cup {None}
      BY <1>38, <2>1, EntryFields DEF ScanRetire
    <3> QED  BY <1>38, <2>1, <3>1 DEF ScanRetire, Take
  <2>2. CASE ~Registered(h)
    <3>1. reg' \in [Handle -> Entry] /\ todo' \in [Handle -> Entry]
      BY <1>38, <2>2 DEF ScanRetire, Skip, Take
    <3> QED  BY <1>38, <2>2, <3>1 DEF ScanRetire
  <2> QED  BY <2>1, <2>2
<1>39. ASSUME NEW h \in Handle, ScanRenew(h) PROVE TypeOK'
  BY <1>39 DEF ScanRenew, InScan, OwnerGone
<1>40. ASSUME Tick PROVE TypeOK'
  BY <1>40 DEF Tick, DeadStillRegistered
<1>41. ASSUME TickDone PROVE TypeOK'
  BY <1>41 DEF TickDone
<1>42. ASSUME RenewCreate PROVE TypeOK'
  <2>1. PICK k \in Kit : ReplaceKit(todo[th].ulid, k) /\ tkit' = k
    BY <1>42 DEF RenewCreate
  <2>2. /\ kit' \in [Kit -> KitStatus] /\ succ' \in [Kit -> Kit \cup {None}]
        /\ kitOf' \in [Kit -> Handle \cup {None}] /\ due' \subseteq Kit
    <3>1. CASE UNCHANGED cpVars
      BY <3>1
    <3>2. CASE ~UNCHANGED cpVars
      <4> DEFINE old == todo[th].ulid
      <4>0. th \in Handle /\ old # None
        BY <1>42 DEF RenewCreate, Shape
      <4>1. old \in Kit
        BY <4>0, EntryFields
      <4>2. /\ kit' = [kit EXCEPT ![old] = "replaced", ![k] = "live"]
            /\ kitOf' = [kitOf EXCEPT ![k] = kitOf[old]]
            /\ succ' = [succ EXCEPT ![old] = k]
            /\ due' = due
        BY <2>1, <3>2 DEF ReplaceKit
      <4> QED  BY <4>1, <4>2
    <3> QED  BY <3>1, <3>2
  <2> QED  BY <1>42, <2>1, <2>2 DEF RenewCreate
<1>43. ASSUME RenewRefused PROVE TypeOK'
  BY <1>43 DEF RenewRefused, NextSession, Shape
<1>44. ASSUME RenewLost PROVE TypeOK'
  <2>1. PICK k \in Kit : ReplaceKit(todo[th].ulid, k)
    BY <1>44 DEF RenewLost
  <2>2. /\ kit' \in [Kit -> KitStatus] /\ succ' \in [Kit -> Kit \cup {None}]
        /\ kitOf' \in [Kit -> Handle \cup {None}] /\ due' \subseteq Kit
    <3>1. CASE UNCHANGED cpVars
      BY <3>1
    <3>2. CASE ~UNCHANGED cpVars
      <4> DEFINE old == todo[th].ulid
      <4>0. th \in Handle /\ old # None
        BY <1>44 DEF RenewLost, Shape
      <4>1. old \in Kit
        BY <4>0, EntryFields
      <4>2. /\ kit' = [kit EXCEPT ![old] = "replaced", ![k] = "live"]
            /\ kitOf' = [kitOf EXCEPT ![k] = kitOf[old]]
            /\ succ' = [succ EXCEPT ![old] = k]
            /\ due' = due
        BY <2>1, <3>2 DEF ReplaceKit
      <4> QED  BY <4>1, <4>2
    <3> QED  BY <3>1, <3>2
  <2> QED  BY <1>44, <2>1, <2>2 DEF RenewLost, NextSession
<1>45. ASSUME RenewRoutes PROVE TypeOK'
  BY <1>45 DEF RenewRoutes, Shape
<1>46. ASSUME RenewSwap PROVE TypeOK'
  <2>1. th \in Handle
    BY <1>46 DEF RenewSwap, Shape
  <2>2. CASE StillExpected(th, todo[th].ulid)
    <3>1. RenewedState(th) \in State
      BY <2>1, EntryFields DEF RenewedState, State
    <3>2. reg' \in [Handle -> Entry]
      <4>1. [todo[th] EXCEPT !.ulid = tkit] \in Entry
        BY <2>1, EntryUpdate
      <4> QED  BY <1>46, <2>1, <2>2, <4>1 DEF RenewSwap
    <3>3. disk' \in [Sid -> State]
      BY <1>46, <2>2, <3>1 DEF RenewSwap
    <3>4. todo' \in [Handle -> Entry] /\ th' = None /\ tkit' = None /\ tpc' = "scan"
      BY <1>46, <2>2 DEF RenewSwap, NextSession
    <3> QED  BY <1>46, <2>2, <3>2, <3>3, <3>4 DEF RenewSwap
  <2>3. CASE ~StillExpected(th, todo[th].ulid)
    BY <1>46, <2>3 DEF RenewSwap
  <2> QED  BY <2>2, <2>3
<1>47. ASSUME RenewDiscard PROVE TypeOK'
  BY <1>47 DEF RenewDiscard, Revoked, NextSession, Shape
<1>48. ASSUME RetireRevoke PROVE TypeOK'
  BY <1>48 DEF RetireRevoke, Revoked, Shape
<1>49. ASSUME RetireRevokeFails PROVE TypeOK'
  BY <1>49 DEF RetireRevokeFails, NextSession, Shape
<1>50. ASSUME RetireRemove PROVE TypeOK'
  BY <1>50 DEF RetireRemove, NextSession, Shape
<1>51. ASSUME DaemonCrash PROVE TypeOK'
  BY <1>51 DEF DaemonCrash
<1>52. ASSUME DaemonStart PROVE TypeOK'
  BY <1>52 DEF DaemonStart
<1>53. CASE UNCHANGED vars
  BY <1>53 DEF vars
<1> QED
  BY <1>1, <1>2, <1>3, <1>4, <1>5, <1>6, <1>7, <1>8, <1>9, <1>10, <1>11, <1>12, <1>13, <1>14, <1>15, <1>16, <1>17, <1>18, <1>19, <1>20, <1>21, <1>22, <1>23, <1>24, <1>25, <1>26, <1>27, <1>28, <1>29, <1>30, <1>31, <1>32, <1>33, <1>34, <1>35, <1>36, <1>37, <1>38, <1>39, <1>40, <1>41, <1>42, <1>43, <1>44, <1>45, <1>46, <1>47, <1>48, <1>49, <1>50, <1>51, <1>52, <1>53 DEF Next, StartStep, RunStep, EndStep, ScanStep, LoopStep

-----------------------------------------------------------------------------
(* Which actions write the state files, the registry, a loaded record and a  *)
(* process's program counter.                                                *)
LEMMA DiskWriters ==
    ASSUME [Next]_vars, disk' # disk
    PROVE  \/ \E p \in Handle : Save(p) \/ RollbackRemove(p) \/ OwnerSave(p)
           \/ \E p \in Proc : EndSave(p) \/ EndRemove(p)
           \/ RenewSwap
           \/ RetireRemove
  BY DEF Next, vars, StartStep, RunStep, EndStep, ScanStep, LoopStep,
         Goto, CliFrame, LoopFrame,
         Age, Launch, StartLoad, Mint, MintRefused, MintLost, Routes, RoutesRejected,
         SaveFails, RollbackRevoke, Register, RegisterUnacked, RegisterFails,
         RollbackRegister, RollbackRetained, OwnerLoad, OwnerSend, OwnerSendFails,
         Spawn, SpawnFails, ChildExit, RunEnds, EndLoad, EndNoState, Unregister,
         UnregisterUnacked, UnregisterFails, EndRevoke, EndRevokeFails, Kill,
         Tick, TickDone, ScanSkip, ScanOwnerGone, ScanRetire, ScanRenew,
         RenewCreate, RenewRefused, RenewLost, RenewRoutes, RenewDiscard,
         RetireRevoke, RetireRevokeFails, DaemonCrash, DaemonStart

\* Registry.Register, SetOwner, Take and ReplaceWith are the only writers.
LEMMA RegistryWriters ==
    ASSUME [Next]_vars, reg' # reg
    PROVE  \/ \E p \in Handle : Register(p) \/ RegisterUnacked(p) \/ OwnerSend(p)
           \/ \E p \in Proc : Unregister(p) \/ UnregisterUnacked(p)
           \/ \E h \in Handle : ScanRetire(h)
           \/ RenewSwap
           \/ DaemonCrash
  BY DEF Next, vars, StartStep, RunStep, EndStep, ScanStep, LoopStep,
         Goto, CliFrame, LoopFrame,
         Age, Launch, StartLoad, Mint, MintRefused, MintLost, Routes, RoutesRejected,
         Save, SaveFails, RollbackRevoke, RegisterFails, RollbackRemove, OwnerSave,
         RollbackRegister, RollbackRetained, OwnerLoad, OwnerSendFails,
         Spawn, SpawnFails, ChildExit, RunEnds, EndLoad, EndNoState,
         UnregisterFails, EndSave, EndRevoke, EndRevokeFails, EndRemove, Kill,
         Tick, TickDone, ScanSkip, ScanOwnerGone, ScanRenew,
         RenewCreate, RenewRefused, RenewLost, RenewRoutes, RenewDiscard,
         RetireRevoke, RetireRevokeFails, RetireRemove, DaemonStart,
         daemonVars, loopVars

(* A process becomes active only through Launch, and once a start is past   *)
(* saving or registering its handle it stays past it.                       *)
Forward(x) ==
    /\ ~Active(x) /\ Active(x)' => Launch(x)
    /\ x \in Handle /\ PreSave(x)' => PreSave(x)
    /\ x \in Handle /\ PreRegister(x)' => PreRegister(x)

\* Every step only moves processes forward: hookSessionStart has no loop.
LEMMA NoWayBack ==
    ASSUME TypeOK, Shape, [Next]_vars, NEW x \in Proc
    PROVE  Forward(x)
<1> USE DEF Goto, CliFrame, LoopFrame, Forward
<1> DEFINE Goal == Forward(x)
<1> USE DEF Active, FinalPc, PreSave, PreRegister, EndPc, Handle, Proc, TypeOK, cliVars
<1>1. CASE UNCHANGED <<pc, replacing>>
  BY <1>1
<1>2. ASSUME NEW p \in Proc, Launch(p) PROVE Goal
  BY <1>2 DEF Launch
<1>3. ASSUME NEW p \in Proc, EndLoad(p) PROVE Goal
  BY <1>3 DEF EndLoad
<1>4. ASSUME NEW p \in Proc, EndNoState(p) PROVE Goal
  BY <1>4 DEF EndNoState, EndFails
<1>5. ASSUME NEW p \in Proc, Unregister(p) PROVE Goal
  BY <1>5 DEF Unregister
<1>6. ASSUME NEW p \in Proc, UnregisterUnacked(p) PROVE Goal
  BY <1>6 DEF UnregisterUnacked
<1>7. ASSUME NEW p \in Proc, UnregisterFails(p) PROVE Goal
  BY <1>7 DEF UnregisterFails
<1>8. ASSUME NEW p \in Proc, EndSave(p) PROVE Goal
  BY <1>8 DEF EndSave
<1>9. ASSUME NEW p \in Proc, EndRevoke(p) PROVE Goal
  BY <1>9 DEF EndRevoke, EndFails
<1>10. ASSUME NEW p \in Proc, EndRevokeFails(p) PROVE Goal
  BY <1>10 DEF EndRevokeFails, EndFails
<1>11. ASSUME NEW p \in Proc, EndRemove(p) PROVE Goal
  BY <1>11 DEF EndRemove
<1>12. ASSUME NEW p \in Proc, Kill(p) PROVE Goal
  BY <1>12 DEF Kill
<1>13. ASSUME NEW p \in Handle, StartLoad(p) PROVE Goal
  BY <1>13 DEF StartLoad
<1>14. ASSUME NEW p \in Handle, Mint(p) PROVE Goal
  BY <1>14 DEF Mint
<1>15. ASSUME NEW p \in Handle, MintRefused(p) PROVE Goal
  BY <1>15 DEF MintRefused
<1>16. ASSUME NEW p \in Handle, MintLost(p) PROVE Goal
  BY <1>16 DEF MintLost
<1>17. ASSUME NEW p \in Handle, Routes(p) PROVE Goal
  BY <1>17 DEF Routes
<1>18. ASSUME NEW p \in Handle, RoutesRejected(p) PROVE Goal
  BY <1>18 DEF RoutesRejected
<1>19. ASSUME NEW p \in Handle, Save(p) PROVE Goal
  BY <1>19 DEF Save
<1>20. ASSUME NEW p \in Handle, SaveFails(p) PROVE Goal
  BY <1>20 DEF SaveFails
<1>21. ASSUME NEW p \in Handle, RollbackRevoke(p) PROVE Goal
  BY <1>21 DEF RollbackRevoke
<1>22. ASSUME NEW p \in Handle, Register(p) PROVE Goal
  BY <1>22 DEF Register
<1>23. ASSUME NEW p \in Handle, RegisterUnacked(p) PROVE Goal
  BY <1>23 DEF RegisterUnacked
<1>24. ASSUME NEW p \in Handle, RegisterFails(p) PROVE Goal
  BY <1>24 DEF RegisterFails
<1>25. ASSUME NEW p \in Handle, RollbackRegister(p) PROVE Goal
  BY <1>25 DEF RollbackRegister
<1>26. ASSUME NEW p \in Handle, RollbackRetained(p) PROVE Goal
  BY <1>26 DEF RollbackRetained
<1>27. ASSUME NEW p \in Handle, RollbackRemove(p) PROVE Goal
  BY <1>27 DEF RollbackRemove
<1>28. ASSUME NEW p \in Handle, OwnerLoad(p) PROVE Goal
  BY <1>28 DEF OwnerLoad, AfterOwner
<1>29. ASSUME NEW p \in Handle, OwnerSave(p) PROVE Goal
  BY <1>29 DEF OwnerSave
<1>30. ASSUME NEW p \in Handle, OwnerSend(p) PROVE Goal
  BY <1>30 DEF OwnerSend, AfterOwner
<1>31. ASSUME NEW p \in Handle, OwnerSendFails(p) PROVE Goal
  BY <1>31 DEF OwnerSendFails, AfterOwner
<1>32. ASSUME NEW p \in Runner, Spawn(p) PROVE Goal
  BY <1>32 DEF Spawn
<1>33. ASSUME NEW p \in Runner, SpawnFails(p) PROVE Goal
  BY <1>33 DEF SpawnFails, Shape
<1>34. ASSUME NEW p \in Runner, RunEnds(p) PROVE Goal
  BY <1>34 DEF RunEnds, Shape
<1> QED
  <2>1. CASE \E k \in Kit : Age(k)
    BY <2>1, <1>1 DEF Age
  <2>2. CASE \E p \in Runner : ChildExit(p)
    BY <2>2, <1>1 DEF ChildExit
  <2>3. CASE LoopStep \/ DaemonCrash \/ DaemonStart
    BY <2>3, <1>1 DEF LoopStep, ScanStep, Tick, TickDone, ScanSkip, ScanOwnerGone,
         ScanRetire, ScanRenew, RenewCreate, RenewRefused, RenewLost, RenewRoutes,
         RenewSwap, RenewDiscard, RetireRevoke, RetireRevokeFails, RetireRemove,
         DaemonCrash, DaemonStart
  <2>4. CASE UNCHANGED vars
    BY <2>4, <1>1 DEF vars
  <2> QED
    BY <2>1, <2>2, <2>3, <2>4, <1>2, <1>3, <1>4, <1>5, <1>6, <1>7, <1>8, <1>9, <1>10, <1>11, <1>12, <1>13, <1>14, <1>15, <1>16, <1>17, <1>18, <1>19, <1>20, <1>21, <1>22, <1>23, <1>24, <1>25, <1>26, <1>27, <1>28, <1>29, <1>30, <1>31, <1>32, <1>33, <1>34
       DEF Next, StartStep, RunStep, EndStep

(* The parts of the inductive invariant, one lemma each.                     *)

\* A handle that has been saved or registered stays so.
LEMMA StaysPast ==
    ASSUME TypeOK, Shape, [Next]_vars, NEW h \in Handle
    PROVE  /\ ~PreSave(h) => ~PreSave(h)'
           /\ ~PreRegister(h) => ~PreRegister(h)'
<1>1. h \in Proc
  BY DEF Handle, Proc
<1>2. Forward(h)
  BY <1>1, NoWayBack
<1> QED  BY <1>2 DEF Forward

\* No two CLI processes of one session become active together.
LEMMA SerialNext ==
    ASSUME TypeOK, Shape, Serial, SerialHooks, [Next]_vars
    PROVE  Serial'
<1> USE DEF Goto, CliFrame, LoopFrame
<1> SUFFICES ASSUME NEW p \in Proc, NEW q \in Proc,
                    Active(p)', Active(q)', SidOf[p] = SidOf[q]
             PROVE  p = q
  BY DEF Serial
<1> DEFINE first(x) == IF x \in Ender THEN "end_load" ELSE "start"
<1>1. ASSUME NEW x \in Proc, NEW y \in Proc, SidOf[x] = SidOf[y], x # y,
             ~Active(x), Active(x)', Active(y)'
      PROVE  FALSE
  <2>1. Launch(x)
    BY <1>1, NoWayBack DEF Forward
  <2>2. pc' = [pc EXCEPT ![x] = first(x)]
    BY <2>1 DEF Launch
  <2>3. Active(y)
    BY <1>1, <2>2 DEF Active, TypeOK
  <2> QED  BY <1>1, <2>1, <2>3 DEF Launch
<1>2. CASE Active(p) /\ Active(q)
  BY <1>2 DEF Serial
<1> QED  BY <1>1, <1>2

\* Whatever is written to a state file names a handle that reached Save.
LEMMA SavedNext ==
    ASSUME TypeOK, Shape, SavedHandles, LoadedHandles, RegisteredHandles, [Next]_vars
    PROVE  SavedHandles'
<1> USE DEF Goto, CliFrame, LoopFrame
<1> SUFFICES ASSUME NEW s \in Sid, Saved(s)'
             PROVE  /\ disk'[s].handle \in Handle
                    /\ SidOf[disk'[s].handle] = s
                    /\ ~PreSave(disk[s].handle)'
  BY DEF SavedHandles, Saved
<1> DEFINE Good(x) == x \in Handle /\ SidOf[x] = s /\ ~PreSave(x)
<1>1. ASSUME disk'[s] = disk[s] PROVE Good(disk'[s].handle)
  BY <1>1 DEF SavedHandles, Saved
<1>2. ASSUME NEW x \in Handle, ~PreSave(x) PROVE ~PreSave(x)'
  BY <1>2, StaysPast
<1>3. ASSUME NEW p \in Handle, Save(p), disk'[s] # disk[s]
      PROVE  disk'[s].handle = p /\ SidOf[p] = s /\ ~PreSave(p)'
  BY <1>3, SidAssumption DEF Save, TypeOK, PreSave, EndPc, Handle, Proc, cliVars
<1>4. ASSUME NEW p \in Proc, OwnerSave(p) \/ EndSave(p), disk'[s] # disk[s]
      PROVE  Good(disk'[s].handle)
  BY <1>4, SidAssumption DEF OwnerSave, EndSave, LoadedHandles, Loaded, PreRegister, EndPc, TypeOK
<1>5. ASSUME NEW p \in Proc, RollbackRemove(p) \/ EndRemove(p), disk'[s] # disk[s]
      PROVE  FALSE
  BY <1>5, SidAssumption DEF RollbackRemove, EndRemove, NoState, Saved, TypeOK
<1>6. ASSUME RenewSwap, disk'[s] # disk[s]
      PROVE  Good(disk'[s].handle)
  <2>1. th \in Handle /\ Registered(th)
    BY <1>6 DEF RenewSwap, StillExpected, Shape, Registered
  <2>2. SidOf[th] = s /\ disk'[s] = RenewedState(th)
    BY <1>6, <2>1, SidAssumption DEF RenewSwap, TypeOK
  <2> QED  BY <2>1, <2>2 DEF RenewedState, RegisteredHandles, PreRegister
<1>7. ASSUME RetireRemove, disk'[s] # disk[s]
      PROVE  FALSE
  BY <1>7, SidAssumption DEF RetireRemove, NoState, Saved, TypeOK, Shape
<1> QED
  <2>1. /\ disk'[s].handle \in Handle /\ SidOf[disk'[s].handle] = s
        /\ \A x \in Handle : disk'[s].handle = x => ~PreSave(x)'
    BY <1>1, <1>2, <1>3, <1>4, <1>5, <1>6, <1>7, DiskWriters DEF Handle, Proc
  <2> QED  BY <2>1 DEF PreSave

(* The steps that load the record a CLI process goes on to use.              *)
LEMMA RecordLoaders ==
    ASSUME TypeOK, [Next]_vars, NEW p \in Proc, Loaded(p)'
    PROVE  \/ p \in Handle /\ OwnerLoad(p)
           \/ EndLoad(p) \/ Unregister(p)
           \/ st'[p] = st[p] /\ Loaded(p) /\ (Taken(p)' => Taken(p))
<1> USE DEF Goto, CliFrame, LoopFrame
<1> DEFINE Goal == \/ p \in Handle /\ OwnerLoad(p)
                   \/ EndLoad(p) \/ Unregister(p)
                   \/ st'[p] = st[p] /\ Loaded(p) /\ (Taken(p)' => Taken(p))
<1> USE DEF Loaded, Taken, EndPc, Handle, Proc, TypeOK, cliVars
<1>1. CASE UNCHANGED <<pc, st, unregErr>>
  BY <1>1
<1>2. ASSUME NEW q \in Proc, Launch(q) PROVE Goal
  BY <1>2 DEF Launch
<1>3. ASSUME NEW q \in Proc, EndNoState(q) PROVE Goal
  BY <1>3 DEF EndNoState, EndFails
<1>4. ASSUME NEW q \in Proc, UnregisterUnacked(q) PROVE Goal
  BY <1>4 DEF UnregisterUnacked
<1>5. ASSUME NEW q \in Proc, UnregisterFails(q) PROVE Goal
  BY <1>5 DEF UnregisterFails
<1>6. ASSUME NEW q \in Proc, EndSave(q) PROVE Goal
  BY <1>6 DEF EndSave
<1>7. ASSUME NEW q \in Proc, EndRevoke(q) PROVE Goal
  BY <1>7 DEF EndRevoke, EndFails
<1>8. ASSUME NEW q \in Proc, EndRevokeFails(q) PROVE Goal
  BY <1>8 DEF EndRevokeFails, EndFails
<1>9. ASSUME NEW q \in Proc, EndRemove(q) PROVE Goal
  BY <1>9 DEF EndRemove
<1>10. ASSUME NEW q \in Proc, Kill(q) PROVE Goal
  BY <1>10 DEF Kill
<1>11. ASSUME NEW q \in Handle, StartLoad(q) PROVE Goal
  BY <1>11 DEF StartLoad
<1>12. ASSUME NEW q \in Handle, Mint(q) PROVE Goal
  BY <1>12 DEF Mint
<1>13. ASSUME NEW q \in Handle, MintRefused(q) PROVE Goal
  BY <1>13 DEF MintRefused
<1>14. ASSUME NEW q \in Handle, MintLost(q) PROVE Goal
  BY <1>14 DEF MintLost
<1>15. ASSUME NEW q \in Handle, Routes(q) PROVE Goal
  BY <1>15 DEF Routes
<1>16. ASSUME NEW q \in Handle, RoutesRejected(q) PROVE Goal
  BY <1>16 DEF RoutesRejected
<1>17. ASSUME NEW q \in Handle, Save(q) PROVE Goal
  BY <1>17 DEF Save
<1>18. ASSUME NEW q \in Handle, SaveFails(q) PROVE Goal
  BY <1>18 DEF SaveFails
<1>19. ASSUME NEW q \in Handle, RollbackRevoke(q) PROVE Goal
  BY <1>19 DEF RollbackRevoke
<1>20. ASSUME NEW q \in Handle, Register(q) PROVE Goal
  BY <1>20 DEF Register
<1>21. ASSUME NEW q \in Handle, RegisterUnacked(q) PROVE Goal
  BY <1>21 DEF RegisterUnacked
<1>22. ASSUME NEW q \in Handle, RegisterFails(q) PROVE Goal
  BY <1>22 DEF RegisterFails
<1>23. ASSUME NEW q \in Handle, RollbackRegister(q) PROVE Goal
  BY <1>23 DEF RollbackRegister
<1>24. ASSUME NEW q \in Handle, RollbackRetained(q) PROVE Goal
  BY <1>24 DEF RollbackRetained
<1>25. ASSUME NEW q \in Handle, RollbackRemove(q) PROVE Goal
  BY <1>25 DEF RollbackRemove
<1>26. ASSUME NEW q \in Handle, OwnerSave(q) PROVE Goal
  BY <1>26 DEF OwnerSave
<1>27. ASSUME NEW q \in Handle, OwnerSend(q) PROVE Goal
  BY <1>27 DEF OwnerSend, AfterOwner
<1>28. ASSUME NEW q \in Handle, OwnerSendFails(q) PROVE Goal
  BY <1>28 DEF OwnerSendFails, AfterOwner
<1>29. ASSUME NEW q \in Runner, Spawn(q) PROVE Goal
  BY <1>29 DEF Spawn
<1>30. ASSUME NEW q \in Runner, SpawnFails(q) PROVE Goal
  BY <1>30 DEF SpawnFails
<1>31. ASSUME NEW q \in Runner, RunEnds(q) PROVE Goal
  BY <1>31 DEF RunEnds
<1>32. ASSUME NEW q \in Proc, EndLoad(q) PROVE Goal
  <2>1. CASE q = p
    BY <1>32, <2>1
  <2>2. CASE q # p
    BY <1>32, <2>2 DEF EndLoad
  <2> QED  BY <2>1, <2>2
<1>33. ASSUME NEW q \in Proc, Unregister(q) PROVE Goal
  <2>1. CASE q = p
    BY <1>33, <2>1
  <2>2. CASE q # p
    BY <1>33, <2>2 DEF Unregister
  <2> QED  BY <2>1, <2>2
<1>34. ASSUME NEW q \in Handle, OwnerLoad(q) PROVE Goal
  <2>1. CASE q = p
    BY <1>34, <2>1
  <2>2. CASE q # p
    BY <1>34, <2>2 DEF OwnerLoad, AfterOwner
  <2> QED  BY <2>1, <2>2
<1> QED
  <2>1. CASE \E k \in Kit : Age(k)
    BY <2>1, <1>1 DEF Age
  <2>2. CASE \E q \in Runner : ChildExit(q)
    BY <2>2, <1>1 DEF ChildExit
  <2>3. CASE LoopStep \/ DaemonCrash \/ DaemonStart
    BY <2>3, <1>1 DEF LoopStep, ScanStep, Tick, TickDone, ScanSkip, ScanOwnerGone,
         ScanRetire, ScanRenew, RenewCreate, RenewRefused, RenewLost, RenewRoutes,
         RenewSwap, RenewDiscard, RetireRevoke, RetireRevokeFails, RetireRemove,
         DaemonCrash, DaemonStart
  <2>4. CASE UNCHANGED vars
    BY <2>4, <1>1 DEF vars
  <2> QED
    BY <2>1, <2>2, <2>3, <2>4, <1>2, <1>3, <1>4, <1>5, <1>6, <1>7, <1>8, <1>9, <1>10, <1>11, <1>12, <1>13, <1>14, <1>15, <1>16, <1>17, <1>18, <1>19, <1>20, <1>21, <1>22, <1>23, <1>24, <1>25, <1>26, <1>27, <1>28, <1>29, <1>30, <1>31, <1>32, <1>33, <1>34
       DEF Next, StartStep, RunStep, EndStep

\* A loaded record names a handle that is past registering.
LEMMA LoadedNext ==
    ASSUME TypeOK, Shape, SerialHooks, Serial, SavedHandles, LoadedHandles, [Next]_vars
    PROVE  LoadedHandles'
<1> USE DEF Goto, CliFrame, LoopFrame
<1> DEFINE Good(p, x) == x \in Handle /\ SidOf[x] = SidOf[p] /\ ~PreRegister(x)
<1>1. ASSUME NEW p \in Proc, Loaded(p) PROVE Good(p, st[p].handle)
  BY <1>1 DEF LoadedHandles
\* What is on disk for an active process's session is past registering.
<1>2. ASSUME NEW p \in Proc, pc[p] \in {"owner_load", "end_load"}, Saved(SidOf[p])
      PROVE  Good(p, disk[SidOf[p]].handle)
  <2> DEFINE x == disk[SidOf[p]].handle
  <2>1. x \in Handle /\ SidOf[x] = SidOf[p] /\ ~PreSave(x)
    BY <1>2, SidAssumption DEF SavedHandles
  <2>2. pc[x] # "register"
    BY <1>2, <2>1 DEF Serial, Active, FinalPc, Handle, Proc
  <2> QED  BY <2>1, <2>2 DEF PreRegister
<1>3. ASSUME NEW p \in Handle, OwnerLoad(p), Loaded(p)'
      PROVE  Good(p, st'[p].handle)
  <2>1. p \in Proc
    BY DEF Handle, Proc
  <2>2. CASE Saved(SidOf[p])
    <3>1. PICK o \in OwnerOf(p) : st' = [st EXCEPT ![p] = [disk[SidOf[p]] EXCEPT !.owner = o]]
      BY <1>3, <2>2 DEF OwnerLoad
    <3>2. st'[p].handle = disk[SidOf[p]].handle
      BY <2>1, <3>1, SidAssumption, StateOwner DEF TypeOK, OwnerOf, Owner
    <3> QED  BY <1>2, <1>3, <2>1, <2>2, <3>2 DEF OwnerLoad
  <2>3. CASE ~Saved(SidOf[p])
    BY <1>3, <2>1, <2>3 DEF OwnerLoad, AfterOwner, EndPc, TypeOK, Loaded
  <2> QED  BY <2>2, <2>3
<1>4. ASSUME NEW p \in Proc, EndLoad(p) PROVE Good(p, st'[p].handle)
  BY <1>2, <1>4 DEF EndLoad, TypeOK
<1>5. ASSUME NEW p \in Proc, Unregister(p) PROVE Good(p, st'[p].handle)
  <2>1. st'[p].handle = st[p].handle
    BY <1>5 DEF Unregister, TypeOK, State
  <2>2. Loaded(p)
    BY <1>5 DEF Unregister, TypeOK, EndPc, Loaded
  <2> QED  BY <1>1, <2>1, <2>2
<1>6. ASSUME NEW p \in Proc, Loaded(p)' PROVE Good(p, st'[p].handle)
  BY <1>1, <1>3, <1>4, <1>5, <1>6, RecordLoaders
<1>7. ASSUME NEW p \in Proc, Loaded(p)',
             NEW x \in Handle, st'[p].handle = x
      PROVE  ~PreRegister(x)'
  BY <1>6, <1>7, StaysPast
<1> QED  BY <1>6, <1>7 DEF LoadedHandles, PreRegister, PreSave

(* The loop enters a retirement only by taking a registered session.        *)
LEMMA RetireStarts ==
    ASSUME TypeOK, [Next]_vars, tpc' \in {"retire_revoke", "retire_remove"}
    PROVE  \/ tpc \in {"retire_revoke", "retire_remove"} /\ th' = th
           \/ \E h \in Handle : ScanRetire(h) /\ Registered(h) /\ th' = h
<1>1. CASE UNCHANGED <<tpc, th>>
  BY <1>1
<1>2. CASE LoopStep
  BY <1>2 DEF LoopStep, ScanStep, Tick, TickDone, ScanSkip, ScanOwnerGone, Skip,
         ScanRetire, ScanRenew, RenewCreate, RenewRefused, RenewLost, RenewRoutes,
         RenewSwap, RenewDiscard, RetireRevoke, RetireRevokeFails, RetireRemove,
         NextSession, InScan
<1>3. CASE DaemonCrash
  BY <1>3 DEF DaemonCrash
<1> QED
  <2>1. CASE [Next]_vars /\ ~LoopStep /\ ~DaemonCrash
    BY <1>1, <2>1 DEF Next, vars, StartStep, RunStep, EndStep, CliFrame, daemonVars, loopVars,
         Age, Launch, StartLoad, Mint, MintRefused, MintLost, Routes, RoutesRejected,
         Save, SaveFails, RollbackRevoke, Register, RegisterUnacked, RegisterFails,
         RollbackRegister, RollbackRetained, RollbackRemove, OwnerLoad, OwnerSave,
         OwnerSend, OwnerSendFails, Spawn, SpawnFails, ChildExit, RunEnds, EndLoad,
         EndNoState, Unregister, UnregisterUnacked, UnregisterFails, EndSave, EndRevoke,
         EndRevokeFails, EndRemove, Kill, DaemonStart
  <2> QED  BY <1>2, <1>3, <2>1

(* A session enters the registry only by its own start's registration.      *)
LEMMA RegistryGrows ==
    ASSUME TypeOK, Shape, LoadedHandles, [Next]_vars,
           NEW h \in Handle, ~Registered(h), Registered(h)'
    PROVE  Register(h) \/ RegisterUnacked(h)
<1>1. reg' # reg
  BY DEF Registered
<1>2. ASSUME NEW p \in Handle, Register(p) PROVE p = h
  BY <1>2 DEF Register, Registered, TypeOK
<1>3. ASSUME NEW p \in Handle, RegisterUnacked(p) PROVE p = h
  BY <1>3 DEF RegisterUnacked, Registered, TypeOK
<1>4. ASSUME NEW p \in Handle, OwnerSend(p) PROVE FALSE
  <2>1. reg'[h].ulid = reg[h].ulid
    BY <1>4 DEF OwnerSend, TypeOK, Entry
  <2> QED  BY <2>1 DEF Registered
<1>5. ASSUME NEW p \in Proc, Unregister(p) \/ UnregisterUnacked(p) PROVE FALSE
  BY <1>5 DEF Unregister, UnregisterUnacked, Take, Registered, NoEntry, TypeOK
<1>6. ASSUME NEW x \in Handle, ScanRetire(x) PROVE FALSE
  BY <1>6 DEF ScanRetire, Take, Registered, NoEntry, TypeOK
<1>7. ASSUME RenewSwap PROVE FALSE
  <2>1. th \in Handle /\ todo[th].ulid # None
    BY <1>7 DEF RenewSwap, Shape
  <2>2. Registered(th)
    BY <1>1, <1>7, <2>1 DEF RenewSwap, StillExpected, Registered
  <2>3. th # h
    BY <2>2
  <2> QED  BY <1>7, <2>1, <2>3 DEF RenewSwap, Registered, TypeOK
<1>8. ASSUME DaemonCrash PROVE FALSE
  BY <1>8 DEF DaemonCrash, Registered, NoEntry
<1> QED  BY <1>1, <1>2, <1>3, <1>4, <1>5, <1>6, <1>7, <1>8, RegistryWriters

(* Past its registration, a session that left the registry stays out of it. *)
LEMMA StaysOut ==
    ASSUME TypeOK, Shape, LoadedHandles, [Next]_vars,
           NEW h \in Handle, ~PreRegister(h), ~Registered(h)
    PROVE  ~Registered(h)'
  BY RegistryGrows DEF Register, RegisterUnacked, PreRegister

\* Registered handles are past registering; a taken handle is out.
LEMMA RegisteredNext ==
    ASSUME TypeOK, Shape, SerialHooks, Serial, SavedHandles, LoadedHandles,
           RegisteredHandles, [Next]_vars
    PROVE  RegisteredHandles'
<1> USE DEF Goto, CliFrame, LoopFrame
<1>1. ASSUME NEW h \in Handle, Registered(h)' PROVE ~PreRegister(h)'
  <2>1. CASE Registered(h)
    BY <2>1, StaysPast DEF RegisteredHandles
  <2>2. CASE ~Registered(h)
    <3>1. Register(h) \/ RegisterUnacked(h)
      BY <1>1, <2>2, RegistryGrows
    <3> QED  BY <3>1 DEF Register, RegisterUnacked, PreRegister, PreSave, EndPc,
                  TypeOK, Handle, Proc
  <2> QED  BY <2>1, <2>2
<1>0. ASSUME NEW x \in Handle, ~PreRegister(x), ~Registered(x) PROVE reg'[x].ulid = None
  BY <1>0, StaysOut DEF Registered
<1>2. ASSUME NEW p \in Proc, Taken(p)' PROVE ~Registered(st[p].handle)'
  <2>1. Loaded(p)'
    BY <1>2 DEF Taken, Loaded, EndPc
  <2>2. CASE p \in Handle /\ OwnerLoad(p)
    BY <1>2, <2>2 DEF OwnerLoad, Taken, AfterOwner, TypeOK
  <2>3. CASE EndLoad(p)
    BY <1>2, <2>3 DEF EndLoad, Taken, TypeOK
  <2>4. CASE Unregister(p)
    <3>1. st'[p].handle = st[p].handle /\ st[p].handle \in Handle
      BY <2>4 DEF Unregister, TypeOK, State, LoadedHandles, Loaded, EndPc
    <3> QED  BY <2>4, <3>1 DEF Unregister, Take, Registered, NoEntry, TypeOK
  <2>5. CASE st'[p] = st[p] /\ Loaded(p) /\ (Taken(p)' => Taken(p))
    <3> DEFINE h == st[p].handle
    <3>1. h \in Handle /\ ~PreRegister(h) /\ ~Registered(h)
      BY <1>2, <2>5 DEF LoadedHandles, RegisteredHandles
    <3>2. reg'[h].ulid = None
      BY <3>1, <1>0
    <3> QED  BY <2>5, <3>2 DEF Registered
  <2> QED  BY <2>1, <2>2, <2>3, <2>4, <2>5, RecordLoaders
<1>3. ASSUME tpc' \in {"retire_revoke", "retire_remove"}
      PROVE  ~PreRegister(th)' /\ ~Registered(th)'
  <2>1. CASE tpc \in {"retire_revoke", "retire_remove"} /\ th' = th
    <3>1. th \in Handle /\ ~PreRegister(th) /\ ~Registered(th)
      BY <2>1 DEF Shape, RegisteredHandles
    <3>2. ~PreRegister(th)' /\ reg'[th].ulid = None
      <4> DEFINE x == th
      <4>1. ASSUME NEW y \in Handle, y = th PROVE (~PreRegister(y))' /\ reg'[y].ulid = None
        BY <1>0, <3>1, <4>1, StaysPast
      <4> QED  BY <2>1, <3>1, <4>1 DEF PreRegister, PreSave
    <3> QED  BY <2>1, <3>2 DEF Registered
  <2>2. ASSUME NEW h \in Handle, ScanRetire(h), Registered(h), th' = h
        PROVE  ~PreRegister(th)' /\ ~Registered(th)'
    <3>1. ~PreRegister(h)' /\ th' = h
      BY <2>2, StaysPast DEF RegisteredHandles
    <3>2. ~Registered(th)'
      BY <2>2 DEF ScanRetire, Take, Registered, NoEntry, TypeOK
    <3> QED  BY <3>1, <3>2 DEF PreRegister, PreSave
  <2> QED
    BY <1>3, <2>1, <2>2, RetireStarts
<1> QED  BY <1>1, <1>2, <1>3 DEF RegisteredHandles

(* The parts of Shape: what the CLI processes carry ...                      *)
CliShape(p) ==
    /\ pc[p] \in {"routes", "save", "register"} => p \in Handle /\ cur[p] # None
    /\ replacing[p] => pc[p] \in EndPc \cup FinalPc

\* A started process holds the KIT it minted; a replacing end is an end.
LEMMA CliShapeNext ==
    ASSUME TypeOK, Shape, [Next]_vars, NEW p \in Proc
    PROVE  CliShape(p)'
<1> DEFINE Goal == CliShape(p)'
<1> USE NoneAssumption
<1> USE DEF Goto, CliFrame, LoopFrame, CliShape, Shape, EndPc, FinalPc, Handle, Proc, TypeOK, cliVars
<1>1. CASE UNCHANGED <<pc, cur, replacing>>
  BY <1>1
<1>2. ASSUME NEW q \in Proc, EndLoad(q) PROVE Goal
  BY <1>2 DEF EndLoad
<1>3. ASSUME NEW q \in Proc, EndNoState(q) PROVE Goal
  BY <1>3 DEF EndNoState, EndFails
<1>4. ASSUME NEW q \in Proc, Unregister(q) PROVE Goal
  BY <1>4 DEF Unregister
<1>5. ASSUME NEW q \in Proc, UnregisterUnacked(q) PROVE Goal
  BY <1>5 DEF UnregisterUnacked
<1>6. ASSUME NEW q \in Proc, UnregisterFails(q) PROVE Goal
  BY <1>6 DEF UnregisterFails
<1>7. ASSUME NEW q \in Proc, EndSave(q) PROVE Goal
  BY <1>7 DEF EndSave
<1>8. ASSUME NEW q \in Proc, EndRevoke(q) PROVE Goal
  BY <1>8 DEF EndRevoke, EndFails
<1>9. ASSUME NEW q \in Proc, EndRevokeFails(q) PROVE Goal
  BY <1>9 DEF EndRevokeFails, EndFails
<1>10. ASSUME NEW q \in Proc, EndRemove(q) PROVE Goal
  BY <1>10 DEF EndRemove
<1>11. ASSUME NEW q \in Proc, Kill(q) PROVE Goal
  BY <1>11 DEF Kill
<1>12. ASSUME NEW q \in Proc, Launch(q) PROVE Goal
  BY <1>12 DEF Launch
<1>13. ASSUME NEW q \in Handle, StartLoad(q) PROVE Goal
  BY <1>13 DEF StartLoad
<1>14. ASSUME NEW q \in Handle, Mint(q) PROVE Goal
  BY <1>14 DEF Mint
<1>15. ASSUME NEW q \in Handle, MintRefused(q) PROVE Goal
  BY <1>15 DEF MintRefused
<1>16. ASSUME NEW q \in Handle, MintLost(q) PROVE Goal
  BY <1>16 DEF MintLost
<1>17. ASSUME NEW q \in Handle, Routes(q) PROVE Goal
  BY <1>17 DEF Routes
<1>18. ASSUME NEW q \in Handle, RoutesRejected(q) PROVE Goal
  BY <1>18 DEF RoutesRejected
<1>19. ASSUME NEW q \in Handle, Save(q) PROVE Goal
  BY <1>19 DEF Save
<1>20. ASSUME NEW q \in Handle, SaveFails(q) PROVE Goal
  BY <1>20 DEF SaveFails
<1>21. ASSUME NEW q \in Handle, RollbackRevoke(q) PROVE Goal
  BY <1>21 DEF RollbackRevoke
<1>22. ASSUME NEW q \in Handle, Register(q) PROVE Goal
  BY <1>22 DEF Register
<1>23. ASSUME NEW q \in Handle, RegisterUnacked(q) PROVE Goal
  BY <1>23 DEF RegisterUnacked
<1>24. ASSUME NEW q \in Handle, RegisterFails(q) PROVE Goal
  BY <1>24 DEF RegisterFails
<1>25. ASSUME NEW q \in Handle, RollbackRegister(q) PROVE Goal
  BY <1>25 DEF RollbackRegister
<1>26. ASSUME NEW q \in Handle, RollbackRetained(q) PROVE Goal
  BY <1>26 DEF RollbackRetained
<1>27. ASSUME NEW q \in Handle, RollbackRemove(q) PROVE Goal
  BY <1>27 DEF RollbackRemove
<1>28. ASSUME NEW q \in Handle, OwnerLoad(q) PROVE Goal
  BY <1>28 DEF OwnerLoad, AfterOwner
<1>29. ASSUME NEW q \in Handle, OwnerSave(q) PROVE Goal
  BY <1>29 DEF OwnerSave
<1>30. ASSUME NEW q \in Handle, OwnerSend(q) PROVE Goal
  BY <1>30 DEF OwnerSend, AfterOwner
<1>31. ASSUME NEW q \in Handle, OwnerSendFails(q) PROVE Goal
  BY <1>31 DEF OwnerSendFails, AfterOwner
<1>32. ASSUME NEW q \in Runner, Spawn(q) PROVE Goal
  BY <1>32 DEF Spawn
<1>33. ASSUME NEW q \in Runner, SpawnFails(q) PROVE Goal
  BY <1>33 DEF SpawnFails
<1>34. ASSUME NEW q \in Runner, RunEnds(q) PROVE Goal
  BY <1>34 DEF RunEnds
<1> QED
  <2>1. CASE \E k \in Kit : Age(k)
    BY <2>1, <1>1 DEF Age
  <2>2. CASE \E q \in Runner : ChildExit(q)
    BY <2>2, <1>1 DEF ChildExit
  <2>3. CASE LoopStep \/ DaemonCrash \/ DaemonStart
    BY <2>3, <1>1 DEF LoopStep, ScanStep, Tick, TickDone, ScanSkip, ScanOwnerGone,
         ScanRetire, ScanRenew, RenewCreate, RenewRefused, RenewLost, RenewRoutes,
         RenewSwap, RenewDiscard, RetireRevoke, RetireRevokeFails, RetireRemove,
         DaemonCrash, DaemonStart
  <2>4. CASE UNCHANGED vars
    BY <2>4, <1>1 DEF vars
  <2> QED
    BY <2>1, <2>2, <2>3, <2>4, <1>2, <1>3, <1>4, <1>5, <1>6, <1>7, <1>8, <1>9, <1>10, <1>11, <1>12, <1>13, <1>14, <1>15, <1>16, <1>17, <1>18, <1>19, <1>20, <1>21, <1>22, <1>23, <1>24, <1>25, <1>26, <1>27, <1>28, <1>29, <1>30, <1>31, <1>32, <1>33, <1>34
       DEF Next, StartStep, RunStep, EndStep

(* ... and what the daemon's loop works on.                                 *)
LoopShape ==
    /\ \A h \in Handle : todo[h].ulid = None => todo[h] = NoEntry
    /\ tpc \in {"renew_create", "renew_routes", "renew_swap", "renew_discard"}
          => th \in Handle /\ todo[th].ulid # None
    /\ tpc \in {"renew_routes", "renew_swap"} => tkit # None
    /\ tpc \in {"retire_revoke", "retire_remove"} => th \in Handle

\* The loop renews only snapshot entries, and retires only what it took.
LEMMA LoopShapeNext ==
    ASSUME TypeOK, Shape, [Next]_vars
    PROVE  LoopShape'
<1> USE NoneAssumption, NullRecords
<1> USE DEF LoopShape, Shape, TypeOK
<1>1. CASE UNCHANGED <<todo, tpc, th, tkit>>
  BY <1>1
<1>2. CASE Tick
  BY <1>2 DEF Tick
<1>3. CASE TickDone
  BY <1>3 DEF TickDone
<1>4. ASSUME NEW h \in Handle, ScanSkip(h) \/ ScanOwnerGone(h) PROVE LoopShape'
  BY <1>4 DEF ScanSkip, ScanOwnerGone, InScan, Skip
<1>5. ASSUME NEW h \in Handle, ScanRetire(h) PROVE LoopShape'
  BY <1>5 DEF ScanRetire, InScan, Skip
<1>6. ASSUME NEW h \in Handle, ScanRenew(h) PROVE LoopShape'
  BY <1>6 DEF ScanRenew, InScan
<1>7. CASE RenewCreate
  <2>1. tkit' # None
    BY <1>7 DEF RenewCreate
  <2> QED  BY <1>7, <2>1 DEF RenewCreate
<1>8. ASSUME NextSession PROVE LoopShape'
  BY <1>8 DEF NextSession
<1>9. CASE RenewRoutes
  BY <1>9 DEF RenewRoutes
<1>10. CASE RenewSwap
  <2>1. CASE StillExpected(th, todo[th].ulid)
    BY <1>8, <1>10, <2>1 DEF RenewSwap
  <2>2. CASE ~StillExpected(th, todo[th].ulid)
    BY <1>10, <2>2 DEF RenewSwap
  <2> QED  BY <2>1, <2>2
<1>11. CASE RetireRevoke
  BY <1>11 DEF RetireRevoke
<1>12. CASE DaemonCrash
  BY <1>12 DEF DaemonCrash
<1>13. CASE RenewRefused \/ RenewLost \/ RenewDiscard \/ RetireRevokeFails \/ RetireRemove
  BY <1>8, <1>13 DEF RenewRefused, RenewLost, RenewDiscard, RetireRevokeFails, RetireRemove
<1> QED
  <2>1. CASE LoopStep
    BY <2>1, <1>2, <1>3, <1>4, <1>5, <1>6, <1>7, <1>9, <1>10, <1>11, <1>13
       DEF LoopStep, ScanStep
  <2>2. CASE [Next]_vars /\ ~LoopStep /\ ~DaemonCrash
    BY <1>1, <2>2 DEF Next, vars, StartStep, RunStep, EndStep, CliFrame, daemonVars, loopVars,
         Age, Launch, StartLoad, Mint, MintRefused, MintLost, Routes, RoutesRejected,
         Save, SaveFails, RollbackRevoke, Register, RegisterUnacked, RegisterFails,
         RollbackRegister, RollbackRetained, RollbackRemove, OwnerLoad, OwnerSave,
         OwnerSend, OwnerSendFails, Spawn, SpawnFails, ChildExit, RunEnds, EndLoad,
         EndNoState, Unregister, UnregisterUnacked, UnregisterFails, EndSave, EndRevoke,
         EndRevokeFails, EndRemove, Kill, DaemonStart
  <2> QED  BY <1>12, <2>1, <2>2

\* Shape is preserved: the registry here, the rest by the lemmas above.
LEMMA ShapeNext ==
    ASSUME TypeOK, Shape, LoadedHandles, [Next]_vars
    PROVE  Shape'
<1>1. ASSUME NEW h \in Handle, reg'[h].ulid = None PROVE reg'[h] = NoEntry
  <2> USE NoneAssumption DEF Shape, TypeOK
  <2>1. CASE reg' = reg
    BY <1>1, <2>1
  <2>2. ASSUME NEW p \in Handle, Register(p) \/ RegisterUnacked(p) PROVE reg'[h] = NoEntry
    BY <1>1, <2>2 DEF Register, RegisterUnacked, Handle, Proc
  <2>3. ASSUME NEW p \in Handle, OwnerSend(p) PROVE reg'[h] = NoEntry
    BY <1>1, <2>3 DEF OwnerSend, Registered, Entry
  <2>4. ASSUME NEW p \in Proc, Unregister(p) \/ UnregisterUnacked(p) PROVE reg'[h] = NoEntry
    BY <1>1, <2>4 DEF Unregister, UnregisterUnacked, Take
  <2>5. ASSUME NEW x \in Handle, ScanRetire(x) PROVE reg'[h] = NoEntry
    BY <1>1, <2>5 DEF ScanRetire, Take
  <2>6. CASE RenewSwap
    <3>1. th \in Handle /\ tkit # None
      BY <2>6 DEF RenewSwap
    <3>2. [todo[th] EXCEPT !.ulid = tkit].ulid = tkit
      BY <3>1, EntryUpdate
    <3> QED  BY <1>1, <2>6, <3>1, <3>2 DEF RenewSwap
  <2>7. CASE DaemonCrash
    BY <2>7 DEF DaemonCrash
  <2> QED  BY <2>1, <2>2, <2>3, <2>4, <2>5, <2>6, <2>7, RegistryWriters
<1>2. ASSUME NEW p \in Proc PROVE CliShape(p)'
  BY CliShapeNext
<1> QED  BY <1>1, <1>2, LoopShapeNext DEF Shape, CliShape, LoopShape

(* Only a finished end or retirement records a session as ended.             *)
LEMMA EndedWriters ==
    ASSUME [Next]_vars, ended' # ended
    PROVE  RetireRemove \/ \E p \in Proc : EndRemove(p)
  BY DEF Next, vars, StartStep, RunStep, EndStep, ScanStep, LoopStep,
         CliFrame, LoopFrame,
         Age, Launch, StartLoad, Mint, MintRefused, MintLost, Routes, RoutesRejected,
         Save, SaveFails, RollbackRevoke, Register, RegisterUnacked, RegisterFails,
         RollbackRegister, RollbackRetained, RollbackRemove, OwnerLoad, OwnerSave,
         OwnerSend, OwnerSendFails, Spawn, SpawnFails, ChildExit, RunEnds, EndLoad,
         EndNoState, Unregister, UnregisterUnacked, UnregisterFails, EndSave, EndRevoke,
         EndRevokeFails, Kill,
         Tick, TickDone, ScanSkip, ScanOwnerGone, ScanRetire, ScanRenew,
         RenewCreate, RenewRefused, RenewLost, RenewRoutes, RenewSwap, RenewDiscard,
         RetireRevoke, RetireRevokeFails, DaemonCrash, DaemonStart

\* An ended session stays out of the registry and past registering.
LEMMA EndedNext ==
    ASSUME TypeOK, Shape, LoadedHandles, RegisteredHandles, EndedHandles, [Next]_vars
    PROVE  EndedHandles'
<1>1. ASSUME NEW h \in Handle, ~PreRegister(h), ~Registered(h)
      PROVE  ~PreRegister(h)' /\ ~Registered(h)'
  BY <1>1, StaysPast, StaysOut
<1>2. ASSUME NEW h \in ended', h \notin ended
      PROVE  h \in Handle /\ ~PreRegister(h) /\ ~Registered(h)
  <2>1. ASSUME NEW p \in Proc, EndRemove(p)
        PROVE  h \in Handle /\ ~PreRegister(h) /\ ~Registered(h)
    BY <1>2, <2>1 DEF EndRemove, LoadedHandles, Loaded, EndPc, RegisteredHandles, Taken
  <2>2. CASE RetireRemove
    BY <1>2, <2>2 DEF RetireRemove, RegisteredHandles, Shape
  <2> QED  BY <1>2, <2>1, <2>2, EndedWriters
<1>3. ASSUME NEW h \in ended' PROVE h \in Handle /\ ~PreRegister(h) /\ ~Registered(h)
  BY <1>2, <1>3 DEF EndedHandles, TypeOK
<1> QED  BY <1>1, <1>3 DEF EndedHandles

-----------------------------------------------------------------------------
(* The theorems.                                                             *)

\* Before any process has started nothing is registered, saved or loaded.
LEMMA InitInv == Init => EndedInv
<1> SUFFICES ASSUME Init PROVE EndedInv
  OBVIOUS
<1> USE ProcAssumption, SidAssumption, NoneAssumption, NullRecords
<1>1. TypeOK
  BY FaultAssumption DEF Init, TypeOK, KitStatus, ProcPc, LoopPc, Handle, Proc
<1>2. Shape
  BY DEF Init, Shape, NoEntry, Handle, Proc
<1>3. Serial
  BY DEF Init, Serial, Active
<1>4. SavedHandles
  BY DEF Init, SavedHandles, Saved, NoState
<1>5. LoadedHandles
  BY DEF Init, LoadedHandles, Loaded, EndPc
<1>6. RegisteredHandles
  BY DEF Init, RegisteredHandles, Registered, NoEntry, Taken
<1>7. EndedHandles
  BY DEF Init, EndedHandles
<1> QED  BY <1>1, <1>2, <1>3, <1>4, <1>5, <1>6, <1>7 DEF EndedInv

\* EndedInv is inductive when the CLI processes of a session do not overlap.
LEMMA InvNext ==
    ASSUME SerialHooks, EndedInv, [Next]_vars
    PROVE  EndedInv'
<1> USE DEF EndedInv
<1>1. TypeOK'
  BY TypeNext
<1>2. Shape'
  BY ShapeNext
<1>3. Serial'
  BY SerialNext
<1>4. SavedHandles'
  BY SavedNext
<1>5. LoadedHandles'
  BY LoadedNext
<1>6. RegisteredHandles'
  BY RegisteredNext
<1>7. EndedHandles'
  BY EndedNext
<1> QED  BY <1>1, <1>2, <1>3, <1>4, <1>5, <1>6, <1>7

\* The strengthened invariant holds in every reachable state, for any set of
\* hooks, wrappers, sessions and KITs and any combination of failures.
THEOREM EndedInvariant ==
    ASSUME SerialHooks
    PROVE  Spec => []EndedInv
<1>1. Init => EndedInv
  BY InitInv
<1>2. EndedInv /\ [Next]_vars => EndedInv'
  BY InvNext
<1> QED  BY <1>1, <1>2, PTL DEF Spec

\* Every variable keeps its type.
THEOREM TypeCorrect ==
    ASSUME SerialHooks
    PROVE  Spec => []TypeOK
<1>1. EndedInv => TypeOK
  BY DEF EndedInv
<1> QED  BY <1>1, EndedInvariant, PTL

\* Once an end or a retirement reported success, no late registration, owner
\* update or renewal brings the session back into the daemon's registry.
THEOREM EndedNeverReturns ==
    ASSUME SerialHooks
    PROVE  Spec => EndedStaysUnregistered
<1>1. ASSUME EndedInv, [Next]_vars, NEW h \in ended
      PROVE  reg'[h] = NoEntry
  <2>1. h \in Handle /\ ~PreRegister(h) /\ ~Registered(h)
    BY <1>1 DEF EndedInv, TypeOK, EndedHandles
  <2>2. ~Registered(h)'
    BY <1>1, <2>1, StaysOut DEF EndedInv
  <2>3. Shape'
    BY <1>1, ShapeNext DEF EndedInv
  <2> QED  BY <2>1, <2>2, <2>3 DEF Shape, Registered
<1>2. EndedInv /\ [Next]_vars => [\A h \in ended : reg'[h] = NoEntry]_vars
  BY <1>1
<1> QED  BY <1>2, EndedInvariant, PTL DEF Spec, EndedStaysUnregistered

-----------------------------------------------------------------------------
(* What one process does, and what the others may do meanwhile.             *)

Step(p) ==
    \/ Launch(p) \/ EndStep(p) \/ Kill(p)
    \/ p \in Handle /\ StartStep(p)
    \/ p \in Runner /\ RunStep(p)

Locals(p) == <<pc[p], cur[p], st[p], unregErr[p], replacing[p]>>

\* A CLI process writes nobody else's locals.
LEMMA StepIsOwn ==
    ASSUME TypeOK, NEW p \in Proc, NEW q \in Proc, q # p, Step(q)
    PROVE  UNCHANGED Locals(p)
<1> USE DEF Goto, CliFrame, Locals, cliVars, TypeOK
<1>1. CASE Launch(q) \/ Kill(q)
  BY <1>1 DEF Launch, Kill
<1>2. CASE EndStep(q)
  BY <1>2 DEF EndStep, EndLoad, EndNoState, EndFails, Unregister, UnregisterUnacked,
       UnregisterFails, EndSave, EndRevoke, EndRevokeFails, EndRemove
<1>3. CASE StartStep(q)
  BY <1>3 DEF StartStep, StartLoad, Mint, MintRefused, MintLost, Routes, RoutesRejected,
       Save, SaveFails, RollbackRevoke, Register, RegisterUnacked, RegisterFails,
       RollbackRegister, RollbackRetained, RollbackRemove, OwnerLoad, OwnerSave,
       OwnerSend, OwnerSendFails
<1>4. CASE RunStep(q)
  BY <1>4 DEF RunStep, Spawn, SpawnFails, RunEnds
<1> QED  BY <1>1, <1>2, <1>3, <1>4 DEF Step

\* Nor does it touch the loop, the daemon's being up, or the renewal windows.
LEMMA StepFrame ==
    ASSUME NEW p \in Proc, Step(p)
    PROVE  UNCHANGED <<faults, due, up, loopVars>>
<1> USE DEF Goto, CliFrame, cpVars, daemonVars, MintFor
<1>1. CASE EndStep(p) \/ Launch(p) \/ Kill(p)
  BY <1>1 DEF EndStep, EndLoad, EndNoState, Unregister, UnregisterUnacked,
     UnregisterFails, EndSave, EndRevoke, EndRevokeFails, EndRemove, Launch, Kill
<1>2. CASE StartStep(p)
  BY <1>2 DEF StartStep, StartLoad, Mint, MintRefused, MintLost, Routes,
     RoutesRejected, Save, SaveFails, RollbackRevoke, Register, RegisterUnacked,
     RegisterFails, RollbackRegister, RollbackRetained, RollbackRemove, OwnerLoad,
     OwnerSave, OwnerSend, OwnerSendFails
<1>3. CASE RunStep(p)
  BY <1>3 DEF RunStep, Spawn, SpawnFails, RunEnds
<1> QED  BY <1>1, <1>2, <1>3 DEF Step

\* The steps of time, children and the daemon.
Others == (\E k \in Kit : Age(k)) \/ (\E p \in Runner : ChildExit(p))
             \/ LoopStep \/ DaemonCrash \/ DaemonStart \/ UNCHANGED vars

\* They leave the processes' locals alone.
LEMMA OthersAreOthers ==
    ASSUME Others
    PROVE  UNCHANGED <<faults, pc, cliVars>>
  BY DEF Others, LoopStep, ScanStep, LoopFrame, Tick, TickDone, ScanSkip, ScanOwnerGone,
       ScanRetire, ScanRenew, RenewCreate, RenewRefused, RenewLost, RenewRoutes,
       RenewSwap, RenewDiscard, RetireRevoke, RetireRevokeFails, RetireRemove,
       DaemonCrash, DaemonStart, Age, ChildExit, vars

\* Every step is of one kind or the other.
LEMMA StepOrOthers ==
    ASSUME [Next]_vars
    PROVE  Others \/ \E p \in Proc : Step(p)
  BY DEF Next, Others, Step, Handle, Proc

\* The classes of failure are chosen once.
LEMMA FaultsStay ==
    ASSUME [Next]_vars
    PROVE  faults' = faults
  BY StepOrOthers, OthersAreOthers, StepFrame

\* A process's locals change only by its own steps.
LEMMA LocalsStay ==
    ASSUME TypeOK, [Next]_vars, NEW p \in Proc, ~Step(p)
    PROVE  UNCHANGED Locals(p)
<1>1. CASE Others
  BY <1>1, OthersAreOthers DEF Locals, cliVars
<1>2. ASSUME NEW q \in Proc, Step(q) PROVE UNCHANGED Locals(p)
  BY <1>2, StepIsOwn
<1> QED  BY <1>1, <1>2, StepOrOthers

\* A process takes a step only while it is active, but for its launch.
LEMMA StepIsActive ==
    ASSUME NEW p \in Proc, Step(p), ~Launch(p)
    PROVE  Active(p)
<1> USE DEF Active, FinalPc
<1>1. CASE Kill(p)
  BY <1>1 DEF Kill
<1>2. CASE EndStep(p)
  BY <1>2 DEF EndStep, EndLoad, EndNoState, Unregister, UnregisterUnacked,
       UnregisterFails, EndSave, EndRevoke, EndRevokeFails, EndRemove
<1>3. CASE StartStep(p)
  BY <1>3 DEF StartStep, StartLoad, Mint, MintRefused, MintLost, Routes, RoutesRejected,
       Save, SaveFails, RollbackRevoke, Register, RegisterUnacked, RegisterFails,
       RollbackRegister, RollbackRetained, RollbackRemove, OwnerLoad, OwnerSave,
       OwnerSend, OwnerSendFails
<1>4. CASE RunStep(p)
  BY <1>4 DEF RunStep, Spawn, SpawnFails, RunEnds
<1> QED  BY <1>1, <1>2, <1>3, <1>4 DEF Step

\* While a process is active no other of its session takes a step.
LEMMA Alone ==
    ASSUME SerialHooks, Serial, NEW p \in Proc, NEW q \in Proc, q # p, SidOf[q] = SidOf[p],
           Active(p)
    PROVE  ~Step(q)
<1>1. ~Launch(q)
  BY DEF Launch
<1>2. ~Active(q)
  BY DEF Serial
<1> QED  BY <1>1, <1>2, StepIsActive

File(p) == disk[SidOf[p]]

\* Its state file is written by itself or by the daemon's loop.
LEMMA FileAlone ==
    ASSUME TypeOK, SerialHooks, Serial, [Next]_vars, NEW p \in Proc, Active(p), ~Step(p),
           File(p)' # File(p)
    PROVE  (RenewSwap \/ RetireRemove) /\ (th \in Handle => SidOf[th] = SidOf[p])
<1> USE SidAssumption DEF File, TypeOK
<1>1. ASSUME NEW q \in Handle, Save(q) \/ RollbackRemove(q) \/ OwnerSave(q) PROVE FALSE
  <2>1. q \in Proc /\ Step(q)
    BY <1>1 DEF Step, StartStep, Handle, Proc
  <2>2. SidOf[q] = SidOf[p]
    BY <1>1, <2>1 DEF Save, RollbackRemove, OwnerSave
  <2> QED  BY <2>1, <2>2, Alone
<1>2. ASSUME NEW q \in Proc, EndSave(q) \/ EndRemove(q) PROVE FALSE
  <2>1. Step(q)
    BY <1>2 DEF Step, EndStep
  <2>2. SidOf[q] = SidOf[p]
    BY <1>2, <2>1 DEF EndSave, EndRemove
  <2> QED  BY <2>1, <2>2, Alone
<1>3. CASE RenewSwap
  BY <1>3 DEF RenewSwap, Handle, Proc
<1>4. CASE RetireRemove
  BY <1>4 DEF RetireRemove, Handle, Proc
<1> QED  BY <1>1, <1>2, <1>3, <1>4, DiskWriters

\* And so are the registry's entries of its session.
LEMMA RegistryAlone ==
    ASSUME TypeOK, Shape, SerialHooks, Serial, LoadedHandles, [Next]_vars, NEW p \in Proc,
           Active(p), ~Step(p), NEW h \in Handle, SidOf[h] = SidOf[p], reg'[h] # reg[h]
    PROVE  ScanRetire(h) \/ (RenewSwap /\ th = h) \/ DaemonCrash
<1> USE DEF TypeOK
<1>1. ASSUME NEW q \in Handle, Register(q) \/ RegisterUnacked(q) PROVE FALSE
  <2>1. q \in Proc /\ Step(q)
    BY <1>1 DEF Step, StartStep, Handle, Proc
  <2>2. q = h
    BY <1>1 DEF Register, RegisterUnacked
  <2> QED  BY <2>1, <2>2, Alone
<1>2. ASSUME NEW q \in Handle, OwnerSend(q) PROVE FALSE
  <2>1. q \in Proc /\ Step(q)
    BY <1>2 DEF Step, StartStep, Handle, Proc
  <2>2. st[q].handle = h
    BY <1>2 DEF OwnerSend
  <2>3. SidOf[q] = SidOf[h]
    BY <1>2, <2>1, <2>2 DEF OwnerSend, LoadedHandles, Loaded
  <2> QED  BY <2>1, <2>3, Alone
<1>3. ASSUME NEW q \in Proc, Unregister(q) \/ UnregisterUnacked(q) PROVE FALSE
  <2>1. Step(q)
    BY <1>3 DEF Step, EndStep
  <2>2. st[q].handle = h
    BY <1>3 DEF Unregister, UnregisterUnacked, Take
  <2>3. SidOf[q] = SidOf[h]
    BY <1>3, <2>2 DEF Unregister, UnregisterUnacked, LoadedHandles, Loaded, EndPc
  <2> QED  BY <2>1, <2>3, Alone
<1>4. ASSUME NEW x \in Handle, ScanRetire(x) PROVE x = h
  BY <1>4 DEF ScanRetire, Take
<1>5. CASE RenewSwap
  BY <1>5 DEF RenewSwap
<1> QED  BY <1>1, <1>2, <1>3, <1>4, <1>5, RegistryWriters

\* Only time makes a KIT due.
LEMMA DueSteps ==
    ASSUME [Next]_vars
    PROVE  due' = due \/ \E k \in Kit : Age(k) /\ due' = due \cup {k}
<1>1. CASE Others
  BY <1>1 DEF Others, LoopStep, ScanStep, Tick, TickDone, ScanSkip, ScanOwnerGone,
       ScanRetire, ScanRenew, RenewCreate, RenewRefused, RenewLost, RenewRoutes,
       RenewSwap, RenewDiscard, RetireRevoke, RetireRevokeFails, RetireRemove,
       DaemonCrash, DaemonStart, Age, ChildExit, vars, cpVars, ReplaceKit
<1> QED  BY <1>1, StepOrOthers, StepFrame

\* Only the daemon moves its loop.
LEMMA LoopAlone ==
    ASSUME [Next]_vars
    PROVE  UNCHANGED <<up, loopVars>> \/ LoopStep \/ DaemonCrash \/ DaemonStart
<1>1. ASSUME NEW k \in Kit, Age(k) PROVE UNCHANGED <<up, loopVars>>
  BY <1>1 DEF Age, daemonVars
<1>2. ASSUME NEW p \in Runner, ChildExit(p) PROVE UNCHANGED <<up, loopVars>>
  BY <1>2 DEF ChildExit, daemonVars
<1> QED  BY <1>1, <1>2, StepOrOthers, StepFrame DEF Others, vars, daemonVars


-----------------------------------------------------------------------------
(* What a step may ask of the control plane: nothing, a revocation, a fresh  *)
(* KIT for a start, or a replacement for the loop.                           *)
Plane ==
    \/ UNCHANGED <<kit, succ, kitOf>>
    \/ (\E x \in Kit \cup {None} : kit' = Revoked(x)) /\ UNCHANGED <<succ, kitOf>>
    \/ \E p \in Handle, k \in Kit :
          MintFor(p, k) /\ ((Mint(p) /\ cur' = [cur EXCEPT ![p] = k]) \/ MintLost(p))
    \/ \E k \in Kit :
          /\ tpc = "renew_create" /\ ReplaceKit(todo[th].ulid, k)
          /\ (RenewCreate /\ tkit' = k) \/ RenewLost

\* A CLI process mints for itself, or revokes what it has in hand.
LEMMA CliPlane ==
    ASSUME TypeOK, NEW p \in Proc, Step(p)
    PROVE  Plane
<1> USE DEF CliFrame, cpVars, TypeOK, Handle, Proc
<1>1. CASE Launch(p) \/ Kill(p)
  BY <1>1 DEF Launch, Kill, Plane
<1>2. CASE EndStep(p) /\ ~EndRevoke(p) /\ ~EndRevokeFails(p)
  BY <1>2 DEF EndStep, EndLoad, EndNoState, Unregister, UnregisterUnacked,
       UnregisterFails, EndSave, EndRemove, Plane
<1>3. CASE EndRevoke(p) \/ EndRevokeFails(p)
  BY <1>3 DEF EndRevoke, EndRevokeFails, Plane
<1>4. CASE p \in Handle /\ StartStep(p)
  <2>1. CASE Mint(p)
    BY <1>4, <2>1 DEF Mint, Plane
  <2>2. CASE MintLost(p)
    BY <1>4, <2>2 DEF MintLost, Plane
  <2>3. CASE RollbackRevoke(p) \/ RollbackRegister(p)
    BY <2>3 DEF RollbackRevoke, RollbackRegister, Plane
  <2> QED
    BY <1>4, <2>1, <2>2, <2>3 DEF StartStep, StartLoad, MintRefused, Routes,
       RoutesRejected, Save, SaveFails, Register, RegisterUnacked, RegisterFails,
       RollbackRetained, RollbackRemove, OwnerLoad, OwnerSave, OwnerSend,
       OwnerSendFails, Plane
<1>5. CASE RunStep(p)
  BY <1>5 DEF RunStep, Spawn, SpawnFails, RunEnds, Plane
<1> QED  BY <1>1, <1>2, <1>3, <1>4, <1>5 DEF Step, EndStep

\* The loop replaces what it renews, and revokes what it has in hand.
LEMMA PlaneSteps ==
    ASSUME TypeOK, [Next]_vars
    PROVE  Plane
<1> USE DEF LoopFrame, cpVars, TypeOK
<1>1. CASE RenewCreate \/ RenewLost
  BY <1>1 DEF RenewCreate, RenewLost, Plane
<1>2. CASE RenewDiscard \/ RetireRevoke
  BY <1>2 DEF RenewDiscard, RetireRevoke, Plane
<1>3. CASE Others /\ ~RenewCreate /\ ~RenewLost /\ ~RenewDiscard /\ ~RetireRevoke
  BY <1>3 DEF Others, LoopStep, ScanStep, Tick, TickDone, ScanSkip, ScanOwnerGone,
       ScanRetire, ScanRenew, RenewRefused, RenewRoutes, RenewSwap, RetireRevokeFails,
       RetireRemove, DaemonCrash, DaemonStart, Age, ChildExit, vars, Plane
<1> QED  BY <1>1, <1>2, <1>3, CliPlane, StepOrOthers

\* The life of a KIT: minted, then replaced by the loop or revoked, for good.
LEMMA KitSteps ==
    ASSUME TypeOK, Shape, [Next]_vars, NEW k \in Kit
    PROVE  \/ kit'[k] = kit[k]
           \/ kit[k] = "unused" /\ kit'[k] = "live"
           \/ kit[k] = "live" /\ kit'[k] = "revoked"
           \/ /\ kit[k] = "live" /\ kit'[k] = "replaced" /\ succ'[k] # None
              /\ tpc = "renew_create" /\ k = todo[th].ulid
<1> USE NoneAssumption DEF TypeOK
<1>1. ASSUME NEW x \in Kit \cup {None}, kit' = Revoked(x)
      PROVE  kit'[k] = kit[k] \/ (kit[k] = "live" /\ kit'[k] = "revoked")
  BY <1>1 DEF Revoked
<1>2. ASSUME NEW p \in Handle, NEW n \in Kit, MintFor(p, n)
      PROVE  kit'[k] = kit[k] \/ (kit[k] = "unused" /\ kit'[k] = "live")
  BY <1>2 DEF MintFor
<1>3. ASSUME NEW n \in Kit, tpc = "renew_create", ReplaceKit(todo[th].ulid, n)
      PROVE  \/ kit'[k] = kit[k]
             \/ kit[k] = "unused" /\ kit'[k] = "live"
             \/ /\ kit[k] = "live" /\ kit'[k] = "replaced" /\ succ'[k] # None
                /\ k = todo[th].ulid
  BY <1>3 DEF ReplaceKit, cpVars
<1> QED  BY <1>1, <1>2, <1>3, PlaneSteps DEF Plane

\* Only a renewal gives a KIT its successor, once.
LEMMA SuccSteps ==
    ASSUME TypeOK, Shape, [Next]_vars, NEW k \in Kit
    PROVE  \/ succ'[k] = succ[k]
           \/ /\ tpc = "renew_create" /\ k = todo[th].ulid
              /\ succ[k] = None /\ kit'[k] = "replaced"
<1> USE NoneAssumption DEF TypeOK
<1>1. ASSUME NEW n \in Kit, tpc = "renew_create", ReplaceKit(todo[th].ulid, n)
      PROVE  succ'[k] = succ[k] \/ (k = todo[th].ulid /\ succ[k] = None /\ kit'[k] = "replaced")
  BY <1>1 DEF ReplaceKit, cpVars
<1> QED  BY <1>1, PlaneSteps DEF Plane, MintFor


-----------------------------------------------------------------------------
(* Where a start, an end and the loop hold a KIT.                            *)
Gone(k) == kit[k] \in {"replaced", "revoked"}
Minted == {"routes", "save", "register", "spawn", "owner_load", "owner_save",
           "owner_send"} \cup RollbackPc
OnDisk == {"register", "spawn", "owner_load", "owner_save", "owner_send", "rollback_reg"}
Claiming == {"mint", "routes", "save", "rollback", "rollback_save"}
InEnd == EndPc \ {"end_load"}
Obtained == {"renew_routes", "renew_swap", "renew_discard"}
Renewing == {"renew_create"} \cup Obtained
Retiring == tpc \in {"retire_revoke", "retire_remove"}

\* A KIT that was replaced or revoked never comes back.
LEMMA GoneStays ==
    ASSUME TypeOK, Shape, [Next]_vars, NEW k \in Kit, Gone(k)
    PROVE  kit'[k] = kit[k]
  BY KitSteps DEF Gone

\* The loop renews only KITs that were due, and what it has a successor for
\* is replaced.
Succession ==
    /\ \A k \in Kit : succ[k] # None => kit[k] = "replaced"
    /\ \A k \in due : kit[k] # "unused"
    /\ dueNow \subseteq due
    /\ tpc \in Renewing => todo[th].ulid \in due
    /\ tpc \in Obtained => kit[todo[th].ulid] = "replaced"

\* How the loop comes to renew a session and to hold its replacement.
LEMMA RenewalSteps ==
    ASSUME TypeOK, Shape, [Next]_vars, tpc' \in Renewing
    PROVE  \/ (\E h \in Handle : ScanRenew(h) /\ th' = h /\ todo' = todo /\ dueNow' = dueNow)
           \/ RenewCreate /\ th' = th /\ todo' = todo
           \/ tpc \in Obtained /\ tpc' \in Obtained /\ th' = th /\ todo' = todo
           \/ tpc' = tpc /\ th' = th /\ todo' = todo
<1> USE DEF Renewing, Obtained, LoopFrame, NextSession
<1>1. CASE UNCHANGED <<up, loopVars>>
  BY <1>1 DEF loopVars
<1>2. CASE DaemonCrash \/ DaemonStart
  BY <1>2 DEF DaemonCrash, DaemonStart, loopVars
<1>3. CASE LoopStep
  BY <1>3 DEF LoopStep, ScanStep, Tick, TickDone, ScanSkip, ScanOwnerGone, InScan,
       ScanRetire, ScanRenew, RenewCreate, RenewRefused, RenewLost, RenewRoutes,
       RenewSwap, RenewDiscard, RetireRevoke, RetireRevokeFails, RetireRemove
<1> QED  BY <1>1, <1>2, <1>3, LoopAlone

\* "now" is taken once per pass.
LEMMA DueNowSteps ==
    ASSUME [Next]_vars
    PROVE  dueNow' \in {dueNow, due, {}}
<1>1. CASE LoopStep
  BY <1>1 DEF LoopStep, ScanStep, Tick, TickDone, ScanSkip, ScanOwnerGone,
       ScanRetire, ScanRenew, RenewCreate, RenewRefused, RenewLost, RenewRoutes,
       RenewSwap, RenewDiscard, RetireRevoke, RetireRevokeFails, RetireRemove
<1>2. CASE ~LoopStep
  BY <1>2, LoopAlone DEF DaemonCrash, DaemonStart, loopVars
<1> QED  BY <1>1, <1>2

\* Renewals start from due KITs and supersede them.
LEMMA SuccessionNext ==
    ASSUME TypeOK, Shape, Succession, [Next]_vars
    PROVE  Succession'
<1> USE NoneAssumption DEF TypeOK
<1>1. ASSUME NEW k \in Kit, succ'[k] # None PROVE kit'[k] = "replaced"
  BY <1>1, SuccSteps, GoneStays DEF Succession, Gone
<1>2. ASSUME NEW k \in due' PROVE k \in Kit /\ kit'[k] # "unused"
  BY <1>2, DueSteps, KitSteps DEF Succession, Age
<1>3. due \subseteq due'
  BY DueSteps
<1>4. dueNow' \subseteq due'
  BY <1>3, DueNowSteps DEF Succession
<1>5. ASSUME tpc' \in Renewing
      PROVE  /\ todo'[th'].ulid \in due'
             /\ tpc' \in Obtained => kit'[todo'[th'].ulid] = "replaced"
  <2>1. ASSUME NEW h \in Handle, ScanRenew(h), th' = h, todo' = todo
        PROVE  todo'[th'].ulid \in due' /\ tpc' \notin Obtained
    BY <1>3, <2>1 DEF ScanRenew, Succession, Obtained
  <2>2. ASSUME RenewCreate, th' = th, todo' = todo
        PROVE  todo'[th'].ulid \in due' /\ kit'[todo'[th'].ulid] = "replaced"
    <3>1. tpc = "renew_create" /\ todo[th].ulid \in due
      BY <2>2 DEF RenewCreate, Succession, Renewing
    <3>2. PICK k \in Kit : ReplaceKit(todo[th].ulid, k)
      BY <2>2 DEF RenewCreate
    <3>3. CASE succ[todo[th].ulid] = k
      <4>1. kit[todo[th].ulid] = "replaced"
        BY <3>1, <3>3 DEF Succession
      <4> QED  BY <1>3, <2>2, <3>1, <4>1, GoneStays DEF Gone
    <3>4. CASE succ[todo[th].ulid] # k
      <4>1. kit' = [kit EXCEPT ![todo[th].ulid] = "replaced", ![k] = "live"]
            /\ k # todo[th].ulid
        BY <3>2, <3>4 DEF ReplaceKit
      <4>2. kit'[todo[th].ulid] = "replaced"
        BY <3>1, <4>1
      <4> QED  BY <1>3, <2>2, <3>1, <4>2 DEF Gone
    <3> QED  BY <3>3, <3>4
  <2>3. ASSUME tpc \in Obtained, th' = th, todo' = todo
        PROVE  todo'[th'].ulid \in due' /\ kit'[todo'[th'].ulid] = "replaced"
    <3>1. todo[th].ulid \in due /\ kit[todo[th].ulid] = "replaced"
      BY <2>3 DEF Succession, Renewing
    <3> QED  BY <1>3, <2>3, <3>1, GoneStays DEF Gone
  <2>4. ASSUME tpc' = tpc, th' = th, todo' = todo
        PROVE  /\ todo'[th'].ulid \in due'
               /\ tpc' \in Obtained => kit'[todo'[th'].ulid] = "replaced"
    <3>1. todo[th].ulid \in due
      BY <1>5, <2>4 DEF Succession
    <3> QED  BY <1>3, <2>3, <2>4, <3>1
  <2>5. \/ \E h \in Handle : ScanRenew(h) /\ th' = h /\ todo' = todo
        \/ RenewCreate /\ th' = th /\ todo' = todo
        \/ tpc \in Obtained /\ th' = th /\ todo' = todo
        \/ tpc' = tpc /\ th' = th /\ todo' = todo
    BY <1>5, RenewalSteps, Zenon
  <2> QED  BY <2>1, <2>2, <2>3, <2>4, <2>5, Zenon
<1>6. tpc' \in Obtained => tpc' \in Renewing
  BY DEF Renewing
<1> QED  BY <1>1, <1>2, <1>4, <1>5, <1>6 DEF Succession


-----------------------------------------------------------------------------
(* Why a state file covers every registered session: the inductive invariant *)
(* of DurableCoversRegistry.                                                 *)

\* Only handles start sessions.
Starting ==
    \A p \in Proc : pc[p] \in {"start"} \cup Claiming \cup Minted \/ replacing[p]
                       => p \in Handle

\* The KIT of a start under way has not reached its renewal window.
Fresh ==
    \A p \in Proc : pc[p] \in Minted =>
        /\ cur[p] \in Kit \ due
        /\ kit[cur[p]] \in {"live", "revoked"}

\* A start saves its session only where no state file is.
Unclaimed == \A p \in Proc : pc[p] \in Claiming => ~Saved(SidOf[p])

\* From then on the state file is its own.
Owns(p) == File(p).handle = p /\ File(p).ulid = cur[p]
Owned ==
    \A p \in Proc :
        /\ pc[p] \in OnDisk => Owns(p) /\ (Registered(p) => reg[p].ulid = cur[p])
        /\ pc[p] = "rollback_remove" =>
              /\ Saved(SidOf[p]) => Owns(p)
              /\ Registered(p) => kit[reg[p].ulid] = "revoked"
        /\ pc[p] \in {"owner_save", "owner_send"} =>
              /\ st[p].handle = p /\ st[p].ulid = cur[p]
              /\ st[p].owner = "managed" => p \in Runner

\* An end works on the session its state file names.
Ending ==
    \A p \in Proc : pc[p] \in InEnd /\ Saved(SidOf[p]) => File(p).handle = st[p].handle

\* The loop retires only wrappers, and only after they sent their owner.
Unwatched(h) ==
    /\ reg[h].owner # "managed" /\ todo[h].owner # "managed"
    /\ ~(Retiring /\ th = h)
Watched ==
    \A h \in Handle :
        /\ PreSave(h) \/ pc[h] \in Minted => Unwatched(h)
        /\ ~Unwatched(h) => h \in Runner

\* The state file of a registered session names it, and its KIT when state
\* files can be written.
Covered ==
    \A h \in Handle :
        Registered(h) /\ kit[reg[h].ulid] # "revoked" =>
            /\ Saved(SidOf[h]) /\ File(h).handle = h
            /\ "persist" \notin faults => File(h).ulid = reg[h].ulid

CoverInv ==
    /\ EndedInv /\ Succession /\ Starting /\ Fresh /\ Unclaimed /\ Owned /\ Ending
    /\ Watched /\ Covered

\* A process comes to a start's steps by launching or after ending the
\* previous instance.
LEMMA StartingNext ==
    ASSUME TypeOK, Starting, [Next]_vars
    PROVE  Starting'
<1> SUFFICES ASSUME NEW p \in Proc,
                    pc'[p] \in {"start"} \cup Claiming \cup Minted \/ replacing'[p],
                    p \notin Handle
             PROVE  FALSE
  BY DEF Starting
<1>1. pc[p] \notin {"start"} \cup Claiming \cup Minted /\ ~replacing[p]
  BY DEF Starting
<1>2. Step(p)
  BY <1>1, LocalsStay DEF Locals
<1>3. EndStep(p) \/ Launch(p) \/ Kill(p)
  BY <1>2 DEF Step, Handle
<1> QED
  BY <1>1, <1>3 DEF EndStep, EndLoad, EndNoState, EndFails, Unregister, UnregisterUnacked,
     UnregisterFails, EndSave, EndRevoke, EndRevokeFails, EndRemove, Launch, Kill, Goto,
     Claiming, Minted, RollbackPc, Proc, Handle, TypeOK, cliVars

\* A start keeps the KIT it minted.
LEMMA MintedSteps ==
    ASSUME TypeOK, [Next]_vars, NEW p \in Proc, pc'[p] \in Minted
    PROVE  \/ p \in Handle /\ Mint(p)
           \/ pc[p] \in Minted /\ cur'[p] = cur[p]
<1> USE DEF Minted, RollbackPc, TypeOK, Goto, cliVars
<1>1. CASE ~Step(p)
  BY <1>1, LocalsStay DEF Locals
<1>2. CASE EndStep(p) \/ Launch(p) \/ Kill(p)
  BY <1>2 DEF EndStep, EndLoad, EndNoState, EndFails, Unregister, UnregisterUnacked,
     UnregisterFails, EndSave, EndRevoke, EndRevokeFails, EndRemove, Launch, Kill
<1>3. CASE p \in Handle /\ StartStep(p)
  BY <1>3 DEF StartStep, StartLoad, Mint, MintRefused, MintLost, Routes, RoutesRejected,
       Save, SaveFails, RollbackRevoke, Register, RegisterUnacked, RegisterFails,
       RollbackRegister, RollbackRetained, RollbackRemove, OwnerLoad, OwnerSave,
       OwnerSend, OwnerSendFails, AfterOwner
<1>4. CASE RunStep(p)
  BY <1>4 DEF RunStep, Spawn, SpawnFails, RunEnds
<1> QED  BY <1>1, <1>2, <1>3, <1>4 DEF Step

\* It stays out of the renewal window, so nothing replaces it.
LEMMA FreshNext ==
    ASSUME TypeOK, Shape, Succession, Fresh, Prompt, [Next]_vars
    PROVE  Fresh'
<1> SUFFICES ASSUME NEW p \in Proc, pc'[p] \in Minted
             PROVE  cur'[p] \in Kit \ due' /\ kit'[cur'[p]] \in {"live", "revoked"}
  BY DEF Fresh
<1>1. CASE p \in Handle /\ Mint(p)
  <2>1. PICK k \in Kit : MintFor(p, k) /\ cur' = [cur EXCEPT ![p] = k]
    BY <1>1 DEF Mint
  <2>2. cur'[p] = k /\ kit'[k] = "live" /\ k \notin due /\ due' = due
    BY <2>1 DEF MintFor, Succession, TypeOK
  <2> QED  BY <2>2
<1>2. CASE pc[p] \in Minted /\ cur'[p] = cur[p]
  <2>1. cur[p] \in Kit \ due /\ kit[cur[p]] \in {"live", "revoked"}
    BY <1>2 DEF Fresh
  <2>2. ASSUME NEW k \in Kit, Age(k) PROVE k # cur[p]
    BY <1>2, <2>2 DEF Age, Minted, StartPc
  <2>3. cur[p] \notin due'
    BY <2>1, <2>2, DueSteps
  <2>4. kit'[cur[p]] \in {"live", "revoked"}
    BY <2>1, KitSteps DEF Succession, Renewing
  <2> QED  BY <1>2, <2>1, <2>3, <2>4
<1> QED  BY <1>1, <1>2, MintedSteps


\* ReplaceWith succeeds only for a registered session whose state file names
\* it, and moves it to the replacement.
LEMMA SwapFacts ==
    ASSUME TypeOK, Shape, Succession, Covered, RenewSwap, StillExpected(th, todo[th].ulid)
    PROVE  /\ th \in Handle /\ Registered(th) /\ tkit \in Kit
           /\ reg[th].ulid \in due /\ kit[reg[th].ulid] = "replaced"
           /\ Saved(SidOf[th]) /\ File(th).handle = th
           /\ reg'[th].ulid = tkit /\ reg'[th].owner = todo[th].owner
           /\ \A h \in Handle : h # th => reg'[h] = reg[h]
           /\ \/ disk' = [disk EXCEPT ![SidOf[th]] = RenewedState(th)]
              \/ "persist" \in faults /\ disk' = disk
           /\ tpc' = "scan" /\ kit' = kit
<1>1. th \in Handle /\ todo[th].ulid # None /\ tkit \in Kit
  BY DEF RenewSwap, Shape, TypeOK
<1>2. reg[th].ulid = todo[th].ulid
  BY DEF StillExpected
<1>3. todo[th].ulid \in due /\ kit[todo[th].ulid] = "replaced"
  BY DEF RenewSwap, Succession, Renewing, Obtained
<1>4. Saved(SidOf[th]) /\ File(th).handle = th
  BY <1>1, <1>2, <1>3 DEF Covered, Registered
<1>5. reg' = [reg EXCEPT ![th] = [todo[th] EXCEPT !.ulid = tkit]]
  BY DEF RenewSwap
<1>6. reg'[th] = [todo[th] EXCEPT !.ulid = tkit]
  BY <1>1, <1>5 DEF TypeOK
<1>7. todo[th] \in Entry
  BY <1>1 DEF TypeOK
<1>8. reg'[th].ulid = tkit /\ reg'[th].owner = todo[th].owner
  BY <1>6, <1>7 DEF Entry
<1>9. \A h \in Handle : h # th => reg'[h] = reg[h]
  BY <1>5 DEF TypeOK
<1>10. \/ disk' = [disk EXCEPT ![SidOf[th]] = RenewedState(th)]
       \/ "persist" \in faults /\ disk' = disk
  BY DEF RenewSwap, Fault
<1>11. tpc' = "scan" /\ kit' = kit
  BY DEF RenewSwap, NextSession, LoopFrame, cpVars
<1> QED  BY <1>1, <1>2, <1>3, <1>4, <1>8, <1>9, <1>10, <1>11 DEF Registered

\* Without the swap the discarded renewal leaves everything alone.
LEMMA NoSwap ==
    ASSUME RenewSwap, ~StillExpected(th, todo[th].ulid)
    PROVE  UNCHANGED <<disk, reg, todo, th, tkit>> /\ tpc' = "renew_discard"
  BY DEF RenewSwap

\* The file of a session being started is written by its start alone; its
\* registry entry too, but for a crash or a retirement.
LEMMA StartUndisturbed ==
    ASSUME CoverInv, SerialHooks, [Next]_vars, NEW p \in Proc,
           pc[p] \in Claiming \cup Minted, ~Step(p)
    PROVE  File(p)' = File(p) /\ (p \in Handle => reg'[p] \in {reg[p], NoEntry})
<1> USE DEF CoverInv, EndedInv
<1>1. Active(p) /\ p \in Handle
  BY DEF Active, FinalPc, Claiming, Minted, RollbackPc, Starting
<1>2. ASSUME RenewSwap, StillExpected(th, todo[th].ulid), SidOf[th] = SidOf[p]
      PROVE  FALSE
  <2>1. /\ th \in Handle /\ Registered(th) /\ reg[th].ulid \in due
        /\ kit[reg[th].ulid] = "replaced" /\ Saved(SidOf[p]) /\ File(p).handle = th
    BY <1>2, SwapFacts DEF File
  <2>2. CASE pc[p] \in Claiming
    BY <2>1, <2>2 DEF Unclaimed
  <2>3. CASE pc[p] \in OnDisk
    BY <2>1, <2>3 DEF Owned, Owns, Fresh, OnDisk, Minted, RollbackPc
  <2>4. CASE pc[p] = "rollback_remove"
    BY <2>1, <2>4 DEF Owned, Owns
  <2> QED  BY <2>2, <2>3, <2>4 DEF Claiming, Minted, RollbackPc, OnDisk
<1>3. ASSUME RetireRemove, th \in Handle => SidOf[th] = SidOf[p]
      PROVE  FALSE
  <2>1. th \in Handle /\ Retiring
    BY <1>3 DEF RetireRemove, Retiring, Shape
  <2>2. th \in Runner
    BY <2>1 DEF Watched, Unwatched
  <2>3. th = p
    BY <1>1, <1>3, <2>1, <2>2, RunnerSidAssumption
  <2>4. PreSave(p) \/ pc[p] \in Minted
    BY DEF PreSave, Claiming, Minted, RollbackPc
  <2> QED  BY <1>1, <2>1, <2>3, <2>4 DEF Watched, Unwatched
<1>4. File(p)' = File(p)
  <2> SUFFICES ASSUME File(p)' # File(p) PROVE FALSE
    OBVIOUS
  <2>1. (RenewSwap \/ RetireRemove) /\ (th \in Handle => SidOf[th] = SidOf[p])
    BY <1>1, FileAlone
  <2>2. RenewSwap => StillExpected(th, todo[th].ulid)
    BY NoSwap DEF File
  <2> QED  BY <1>2, <1>3, <2>1, <2>2, SwapFacts
<1>5. reg'[p] \in {reg[p], NoEntry}
  <2> SUFFICES ASSUME reg'[p] # reg[p] PROVE reg'[p] = NoEntry
    OBVIOUS
  <2>1. ScanRetire(p) \/ (RenewSwap /\ th = p) \/ DaemonCrash
    BY <1>1, RegistryAlone
  <2>2. RenewSwap => StillExpected(th, todo[th].ulid)
    BY NoSwap
  <2> QED  BY <1>1, <1>2, <2>1, <2>2 DEF ScanRetire, Take, DaemonCrash, TypeOK
<1> QED  BY <1>4, <1>5

\* A start claims its session id when it finds no state file, or has removed it.
LEMMA UnclaimedNext ==
    ASSUME CoverInv, SerialHooks, [Next]_vars
    PROVE  Unclaimed'
<1> USE DEF CoverInv, EndedInv, Goto, TypeOK, cliVars
<1> SUFFICES ASSUME NEW p \in Proc, pc'[p] \in Claiming
             PROVE  ~Saved(SidOf[p])'
  BY DEF Unclaimed
<1>1. CASE ~Step(p)
  <2>1. pc[p] \in Claiming
    BY <1>1, LocalsStay DEF Locals
  <2> QED  BY <1>1, <2>1, StartUndisturbed DEF Unclaimed, Saved, File
<1>2. CASE EndRemove(p)
  BY <1>2, SidAssumption DEF EndRemove, Saved, NoState
<1>3. CASE (EndStep(p) /\ ~EndRemove(p)) \/ Launch(p) \/ Kill(p) \/ RunStep(p)
  BY <1>3 DEF EndStep, EndLoad, EndNoState, EndFails, Unregister, UnregisterUnacked,
     UnregisterFails, EndSave, EndRevoke, EndRevokeFails, Launch, Kill, RunStep, Spawn,
     SpawnFails, RunEnds, Claiming, Proc
<1>4. CASE StartStep(p)
  BY <1>4 DEF StartStep, StartLoad, Mint, MintRefused, MintLost, Routes, RoutesRejected,
       Save, SaveFails, RollbackRevoke, Register, RegisterUnacked, RegisterFails,
       RollbackRegister, RollbackRetained, RollbackRemove, OwnerLoad, OwnerSave,
       OwnerSend, OwnerSendFails, AfterOwner, Claiming, Unclaimed, Saved
<1> QED  BY <1>1, <1>2, <1>3, <1>4 DEF Step


\* The step that saves the state file of a start names the start; the later
\* ones find it so.
LEMMA OwnedNext ==
    ASSUME CoverInv, SerialHooks, Prompt, [Next]_vars
    PROVE  Owned'
<1> USE DEF CoverInv, EndedInv
<1> DEFINE Mine(p) ==
        /\ pc[p] \in OnDisk => Owns(p) /\ (Registered(p) => reg[p].ulid = cur[p])
        /\ pc[p] = "rollback_remove" =>
              /\ Saved(SidOf[p]) => Owns(p)
              /\ Registered(p) => kit[reg[p].ulid] = "revoked"
        /\ pc[p] \in {"owner_save", "owner_send"} =>
              /\ st[p].handle = p /\ st[p].ulid = cur[p]
              /\ st[p].owner = "managed" => p \in Runner
<1> SUFFICES ASSUME NEW p \in Proc, pc'[p] \in OnDisk \cup {"rollback_remove"}
             PROVE  Mine(p)'
  BY DEF Owned, OnDisk
<1>1. ASSUME Registered(p), p \in Handle, kit[reg[p].ulid] = "revoked"
      PROVE  kit'[reg[p].ulid] = "revoked"
  BY <1>1, GoneStays, EntryFields DEF Gone, Registered, TypeOK
<1>2. CASE ~Step(p)
  <2>1. pc[p] \in OnDisk \cup {"rollback_remove"} /\ UNCHANGED Locals(p) /\ p \in Handle
    BY <1>2, LocalsStay DEF Locals, Starting, OnDisk, Minted, RollbackPc
  <2>2. File(p)' = File(p) /\ reg'[p] \in {reg[p], NoEntry}
    BY <1>2, <2>1, StartUndisturbed DEF OnDisk, Minted, RollbackPc
  <2> QED
    BY <1>1, <2>1, <2>2 DEF Owned, Owns, Locals, File, Saved, Registered, NoEntry
<1>3. CASE EndStep(p) \/ Launch(p) \/ Kill(p)
  BY <1>3 DEF EndStep, EndLoad, EndNoState, EndFails, Unregister, UnregisterUnacked,
     UnregisterFails, EndSave, EndRevoke, EndRevokeFails, EndRemove, Launch, Kill, Goto,
     OnDisk, TypeOK, cliVars
<1>4. CASE p \in Handle /\ StartStep(p)
  <2> USE <1>4 DEF Goto, CliFrame, cliVars, daemonVars, TypeOK
  <2>1. CASE Save(p)
    <3>1. Owns(p)'
      BY <2>1, SidAssumption DEF Save, Owns, File
    <3>2. ~Registered(p)
      BY <2>1 DEF Save, RegisteredHandles, PreRegister, PreSave
    <3> QED  BY <2>1, <3>1, <3>2 DEF Save, OnDisk, Registered
  <2>2. CASE Register(p) \/ RegisterUnacked(p)
    <3>1. reg'[p].ulid = cur[p] /\ UNCHANGED <<disk, cur>> /\ pc[p] = "register"
      BY <2>2 DEF Register, RegisterUnacked
    <3>2. pc'[p] \in OnDisk /\ pc'[p] \notin {"owner_save", "owner_send"}
      BY <2>2 DEF Register, RegisterUnacked, OnDisk
    <3> QED  BY <3>1, <3>2 DEF Owned, Owns, File, OnDisk, Registered
  <2>3. CASE RegisterFails(p) \/ OwnerSend(p) \/ OwnerSendFails(p) \/ RollbackRetained(p)
    BY <2>3 DEF RegisterFails, OwnerSend, OwnerSendFails, RollbackRetained, AfterOwner,
       Owned, Owns, File, OnDisk, Registered
  <2>4. CASE RollbackRegister(p)
    <3>1. Owns(p) /\ cur[p] \in Kit /\ kit[cur[p]] \in {"live", "revoked"}
          /\ (Registered(p) => reg[p].ulid = cur[p])
      BY <2>4 DEF RollbackRegister, Owned, OnDisk, Fresh, Minted, RollbackPc
    <3>2. kit'[cur[p]] = "revoked"
      BY <2>4, <3>1 DEF RollbackRegister, Revoked
    <3> QED  BY <2>4, <3>1, <3>2 DEF RollbackRegister, OnDisk, Owns, File, Registered
  <2>5. CASE RollbackRevoke(p)
    <3>1. ~Saved(SidOf[p]) /\ UNCHANGED <<disk, reg>>
      BY <2>5 DEF RollbackRevoke, Unclaimed, Claiming
    <3>2. Registered(p) => kit[reg[p].ulid] = "revoked"
      BY <3>1 DEF Covered
    <3>3. pc'[p] = "rollback_remove"
      BY <2>5 DEF RollbackRevoke, OnDisk
    <3> QED  BY <1>1, <3>1, <3>2, <3>3 DEF OnDisk, Saved, Registered
  <2>6. CASE OwnerLoad(p)
    <3>1. Owns(p) /\ (Registered(p) => reg[p].ulid = cur[p])
      BY <2>6 DEF OwnerLoad, Owned, OnDisk
    <3>2. CASE Saved(SidOf[p])
      <4>1. PICK o \in OwnerOf(p) : st' = [st EXCEPT ![p] = [disk[SidOf[p]] EXCEPT !.owner = o]]
        BY <2>6, <3>2 DEF OwnerLoad
      <4>2. st'[p] = [disk[SidOf[p]] EXCEPT !.owner = o]
        BY <4>1
      <4>3. disk[SidOf[p]] \in State
        BY SidAssumption
      <4>4. st'[p].handle = p /\ st'[p].ulid = cur[p] /\ st'[p].owner = o
        BY <3>1, <4>2, <4>3 DEF State, Owns, File
      <4>5. o = "managed" => p \in Runner
        BY DEF OwnerOf
      <4> QED
        BY <2>6, <3>1, <4>4, <4>5 DEF OwnerLoad, OnDisk, Owns, File, Registered, AfterOwner
    <3>3. CASE ~Saved(SidOf[p])
      BY <2>6, <3>3 DEF OwnerLoad, OnDisk, AfterOwner
    <3> QED  BY <3>2, <3>3
  <2>7. CASE OwnerSave(p)
    <3>1. Owns(p) /\ (Registered(p) => reg[p].ulid = cur[p]) /\ st[p].handle = p
          /\ st[p].ulid = cur[p] /\ (st[p].owner = "managed" => p \in Runner)
      BY <2>7 DEF OwnerSave, Owned, OnDisk
    <3>2. disk' = [disk EXCEPT ![SidOf[p]] = st[p]] \/ disk' = disk
      BY <2>7 DEF OwnerSave
    <3>3. Owns(p)'
      BY <2>7, <3>1, <3>2, SidAssumption DEF OwnerSave, Owns, File
    <3> QED  BY <2>7, <3>1, <3>3 DEF OwnerSave, OnDisk, Registered
  <2> QED
    BY <2>1, <2>2, <2>3, <2>4, <2>5, <2>6, <2>7 DEF StartStep, StartLoad, Mint,
       MintRefused, MintLost, Routes, RoutesRejected, SaveFails, RollbackRemove, OnDisk,
       Owned, Owns, File
<1>5. CASE p \in Runner /\ RunStep(p)
  BY <1>5 DEF RunStep, Spawn, SpawnFails, RunEnds, Goto, CliFrame, cliVars, daemonVars,
     TypeOK, Owned, Owns, File, OnDisk, Registered
<1> QED  BY <1>2, <1>3, <1>4, <1>5 DEF Step


\* An end loads its record and learns the current KIT; then it keeps both.
LEMMA InEndSteps ==
    ASSUME TypeOK, [Next]_vars, NEW p \in Proc, pc'[p] \in InEnd
    PROVE  \/ EndLoad(p) \/ Unregister(p)
           \/ pc[p] \in InEnd /\ UNCHANGED <<cur[p], st[p]>>
<1> USE DEF InEnd, EndPc, TypeOK, Goto, cliVars
<1>1. CASE ~Step(p)
  BY <1>1, LocalsStay DEF Locals
<1>2. CASE EndStep(p) \/ Launch(p) \/ Kill(p)
  BY <1>2 DEF EndStep, EndLoad, EndNoState, EndFails, Unregister, UnregisterUnacked,
     UnregisterFails, EndSave, EndRevoke, EndRevokeFails, EndRemove, Launch, Kill
<1>3. CASE StartStep(p)
  BY <1>3 DEF StartStep, StartLoad, Mint, MintRefused, MintLost, Routes, RoutesRejected,
       Save, SaveFails, RollbackRevoke, Register, RegisterUnacked, RegisterFails,
       RollbackRegister, RollbackRetained, RollbackRemove, OwnerLoad, OwnerSave,
       OwnerSend, OwnerSendFails, AfterOwner
<1>4. CASE RunStep(p)
  BY <1>4 DEF RunStep, Spawn, SpawnFails, RunEnds
<1> QED  BY <1>1, <1>2, <1>3, <1>4 DEF Step

\* What another actor writes to the state file of a session being ended: a
\* renewal of the session it names, or nothing any more.
LEMMA EndUndisturbed ==
    ASSUME CoverInv, SerialHooks, [Next]_vars, NEW p \in Proc, pc[p] \in InEnd, ~Step(p),
           File(p)' # File(p)
    PROVE  \/ /\ RenewSwap /\ StillExpected(th, todo[th].ulid) /\ th = st[p].handle
              /\ File(p)' = RenewedState(th) /\ SidOf[th] = SidOf[p]
           \/ RetireRemove /\ File(p)' = NoState /\ th \in Handle /\ SidOf[th] = SidOf[p]
<1> USE DEF CoverInv, EndedInv
<1>1. Active(p)
  BY DEF Active, FinalPc, InEnd, EndPc
<1>2. (RenewSwap \/ RetireRemove) /\ (th \in Handle => SidOf[th] = SidOf[p])
  BY <1>1, FileAlone
<1>3. CASE RenewSwap
  <2>1. StillExpected(th, todo[th].ulid)
    BY <1>3, NoSwap DEF File
  <2>2. th \in Handle /\ Saved(SidOf[p]) /\ File(p).handle = th
    BY <1>2, <1>3, <2>1, SwapFacts DEF File
  <2>3. disk' = [disk EXCEPT ![SidOf[th]] = RenewedState(th)]
    BY <1>3, <2>1, SwapFacts DEF File
  <2>4. File(p)' = RenewedState(th)
    BY <1>2, <2>2, <2>3, SidAssumption DEF File, TypeOK
  <2> QED  BY <1>2, <1>3, <2>1, <2>2, <2>4 DEF Ending
<1>4. CASE RetireRemove
  <2>1. th \in Handle
    BY <1>4 DEF RetireRemove, Shape
  <2>2. File(p)' = NoState
    BY <1>2, <1>4, <2>1, SidAssumption DEF RetireRemove, File, TypeOK
  <2> QED  BY <1>2, <1>4, <2>1, <2>2
<1> QED  BY <1>2, <1>3, <1>4

\* So the record an end loaded keeps naming the session its state file names.
LEMMA EndingNext ==
    ASSUME CoverInv, SerialHooks, [Next]_vars
    PROVE  Ending'
<1> USE DEF CoverInv, EndedInv
<1> SUFFICES ASSUME NEW p \in Proc, pc'[p] \in InEnd, Saved(SidOf[p])'
             PROVE  File(p)'.handle = st'[p].handle
  BY DEF Ending
<1>1. CASE ~Step(p)
  <2>1. pc[p] \in InEnd /\ st'[p] = st[p]
    BY <1>1, LocalsStay DEF Locals
  <2>2. CASE File(p)' = File(p)
    BY <2>1, <2>2 DEF Ending, Saved, File
  <2>3. CASE File(p)' # File(p)
    BY <1>1, <2>1, <2>3, EndUndisturbed DEF RenewedState, NoState, Saved, File
  <2> QED  BY <2>2, <2>3
<1>2. CASE EndLoad(p)
  BY <1>2 DEF EndLoad, File, TypeOK
<1>3. CASE Unregister(p)
  <2>1. disk' = disk /\ pc[p] = "unregister"
    BY <1>3 DEF Unregister
  <2>2. st'[p].handle = st[p].handle
    BY <1>3 DEF Unregister, TypeOK, State
  <2> QED  BY <2>1, <2>2 DEF Ending, Saved, File, InEnd, EndPc
<1>4. CASE EndSave(p)
  <2>1. disk' = [disk EXCEPT ![SidOf[p]] = st[p]] \/ disk' = disk
    BY <1>4 DEF EndSave
  <2>2. st' = st /\ pc[p] \in InEnd
    BY <1>4 DEF EndSave, cliVars, InEnd, EndPc
  <2> QED  BY <2>1, <2>2, SidAssumption DEF Ending, Saved, File, TypeOK
<1>5. CASE Step(p) /\ ~EndLoad(p) /\ ~Unregister(p) /\ ~EndSave(p)
  <2>1. pc[p] \in InEnd /\ st'[p] = st[p]
    BY <1>5, InEndSteps
  <2>2. UnregisterUnacked(p) \/ UnregisterFails(p) \/ EndRevoke(p) \/ EndRevokeFails(p)
        \/ EndRemove(p) \/ Kill(p)
    BY <1>5, <2>1 DEF Step, EndStep, Launch, EndNoState, StartStep, StartLoad, Mint,
       MintRefused, MintLost, Routes, RoutesRejected, Save, SaveFails, RollbackRevoke,
       Register, RegisterUnacked, RegisterFails, RollbackRegister, RollbackRetained,
       RollbackRemove, OwnerLoad, OwnerSave, OwnerSend, OwnerSendFails, RunStep, Spawn,
       SpawnFails, RunEnds, InEnd, EndPc
  <2>3. disk' = disk \/ EndRemove(p)
    BY <2>2 DEF UnregisterUnacked, UnregisterFails, EndRevoke, EndRevokeFails, Kill
  <2>4. CASE EndRemove(p)
    BY <2>4, SidAssumption DEF EndRemove, Saved, NoState, TypeOK
  <2> QED  BY <2>1, <2>3, <2>4 DEF Ending, Saved, File
<1> QED  BY <1>1, <1>2, <1>3, <1>4, <1>5


\* The loop's snapshot only repeats the registry, or forgets.
LEMMA SnapshotSteps ==
    ASSUME TypeOK, Shape, [Next]_vars, NEW h \in Handle
    PROVE  todo'[h] \in {todo[h], reg[h], NoEntry}
<1> USE DEF TypeOK, Skip, NextSession
<1>1. CASE LoopStep
  BY <1>1 DEF LoopStep, ScanStep, Tick, TickDone, ScanSkip, ScanOwnerGone,
         ScanRetire, ScanRenew, RenewCreate, RenewRefused, RenewLost, RenewRoutes,
         RenewSwap, RenewDiscard, RetireRevoke, RetireRevokeFails, RetireRemove
<1>2. CASE ~LoopStep
  BY <1>2, LoopAlone DEF DaemonCrash, DaemonStart, loopVars
<1> QED  BY <1>1, <1>2

\* A session comes under watch when its own process sends a managed owner.
LEMMA WatchSteps ==
    ASSUME CoverInv, [Next]_vars, NEW h \in Handle, Unwatched(h), ~Unwatched(h)'
    PROVE  OwnerSend(h) /\ h \in Runner
<1> USE DEF CoverInv, EndedInv, Unwatched
<1>1. todo'[h].owner # "managed"
  BY SnapshotSteps DEF NoEntry
<1>2. ASSUME Retiring', th' = h PROVE FALSE
  <2>1. ASSUME ScanRetire(h) PROVE FALSE
    BY <2>1 DEF ScanRetire, OwnerGone
  <2> QED  BY <1>2, <2>1, RetireStarts DEF Retiring
<1>3. reg'[h].owner = "managed" /\ reg' # reg
  BY <1>1, <1>2
<1>4. ASSUME NEW p \in Handle, Register(p) \/ RegisterUnacked(p) PROVE FALSE
  BY <1>3, <1>4 DEF Register, RegisterUnacked, TypeOK
<1>5. ASSUME NEW p \in Handle, OwnerSend(p) PROVE p = h /\ h \in Runner
  <2>1. st[p].handle = p /\ (st[p].owner = "managed" => p \in Runner)
    BY <1>5 DEF OwnerSend, Owned, Handle, Proc
  <2>2. reg' = [reg EXCEPT ![p].owner = st[p].owner]
    BY <1>3, <1>5, <2>1 DEF OwnerSend
  <2>3. p = h
    BY <1>3, <2>2 DEF TypeOK
  <2>4. reg'[p].owner = st[p].owner
    BY <2>2, EntryFields DEF TypeOK, Entry
  <2> QED  BY <1>3, <2>1, <2>3, <2>4
<1>6. ASSUME NEW p \in Proc, Unregister(p) \/ UnregisterUnacked(p) PROVE FALSE
  BY <1>3, <1>6 DEF Unregister, UnregisterUnacked, Take, NoEntry, TypeOK
<1>7. ASSUME NEW x \in Handle, ScanRetire(x) PROVE FALSE
  BY <1>3, <1>7 DEF ScanRetire, Take, NoEntry, TypeOK
<1>8. CASE RenewSwap
  <2>1. StillExpected(th, todo[th].ulid)
    BY <1>3, <1>8, NoSwap
  <2> QED  BY <1>3, <1>8, <2>1, SwapFacts
<1>9. CASE DaemonCrash
  BY <1>3, <1>9 DEF DaemonCrash, NoEntry
<1> QED  BY <1>3, <1>4, <1>5, <1>6, <1>7, <1>8, <1>9, RegistryWriters

\* That process is a wrapper past its start.
LEMMA WatchedNext ==
    ASSUME CoverInv, [Next]_vars
    PROVE  Watched'
<1> USE DEF CoverInv, EndedInv
<1> SUFFICES ASSUME NEW h \in Handle, ~Unwatched(h)'
             PROVE  ~PreSave(h)' /\ pc'[h] \notin Minted /\ h \in Runner
  BY DEF Watched
<1>1. h \in Proc
  BY DEF Handle, Proc
<1>2. CASE ~Unwatched(h)
  <2>1. ~PreSave(h) /\ pc[h] \notin Minted /\ h \in Runner
    BY <1>2 DEF Watched
  <2>2. ~Mint(h)
    BY <2>1 DEF Mint, PreSave
  <2> QED  BY <1>1, <2>1, <2>2, StaysPast, MintedSteps
<1>3. CASE Unwatched(h)
  <2>1. OwnerSend(h) /\ h \in Runner
    BY <1>3, WatchSteps
  <2>2. pc'[h] = "running"
    BY <1>1, <2>1 DEF OwnerSend, AfterOwner, Goto, TypeOK
  <2> QED  BY <2>1, <2>2 DEF PreSave, Minted, RollbackPc, EndPc
<1> QED  BY <1>2, <1>3


\* A session's KIT in the registry changes when its start registers it and
\* when the loop swaps it.
LEMMA EntrySteps ==
    ASSUME TypeOK, Shape, Succession, Covered, LoadedHandles, [Next]_vars, NEW h \in Handle,
           Registered(h)', reg'[h].ulid # reg[h].ulid, ~Register(h), ~RegisterUnacked(h)
    PROVE  RenewSwap /\ StillExpected(th, todo[th].ulid) /\ th = h
<1>1. Registered(h)
  BY RegistryGrows
<1>2. ASSUME NEW p \in Handle, Register(p) \/ RegisterUnacked(p) PROVE FALSE
  BY <1>2 DEF Register, RegisterUnacked, TypeOK
<1>3. ASSUME NEW p \in Handle, OwnerSend(p) PROVE FALSE
  BY <1>3 DEF OwnerSend, TypeOK, Entry
<1>4. ASSUME NEW p \in Proc, Unregister(p) \/ UnregisterUnacked(p) PROVE FALSE
  BY <1>4 DEF Unregister, UnregisterUnacked, Take, NoEntry, Registered, TypeOK
<1>5. ASSUME NEW x \in Handle, ScanRetire(x) PROVE FALSE
  BY <1>5 DEF ScanRetire, Take, NoEntry, Registered, TypeOK
<1>6. CASE RenewSwap
  <2>1. StillExpected(th, todo[th].ulid)
    BY <1>6, NoSwap
  <2> QED  BY <1>6, <2>1, SwapFacts
<1>7. ~DaemonCrash
  BY DEF DaemonCrash, NoEntry, Registered
<1> QED  BY <1>2, <1>3, <1>4, <1>5, <1>6, <1>7, RegistryWriters

\* Every write of a registered session's state file leaves it covered.
LEMMA CoveredNext ==
    ASSUME CoverInv, SerialHooks, [Next]_vars
    PROVE  Covered'
<1> USE SidAssumption, NoneAssumption DEF CoverInv, EndedInv
<1> SUFFICES ASSUME NEW h \in Handle, Registered(h)', kit'[reg'[h].ulid] # "revoked"
             PROVE  /\ Saved(SidOf[h])' /\ File(h)'.handle = h
                    /\ "persist" \notin faults => File(h)'.ulid = reg'[h].ulid
  BY FaultsStay DEF Covered, File, Saved
<1>1. h \in Proc /\ SidOf[h] \in Sid
  BY DEF Handle, Proc
<1>2. CASE Register(h) \/ RegisterUnacked(h)
  <2>1. Owns(h) /\ cur[h] \in Kit
    BY <1>1, <1>2 DEF Register, RegisterUnacked, Owned, OnDisk, Fresh, Minted
  <2>2. reg'[h].ulid = cur[h] /\ disk' = disk
    BY <1>2 DEF Register, RegisterUnacked, TypeOK
  <2> QED  BY <2>1, <2>2 DEF Owns, File, Saved
<1>3. CASE RenewSwap /\ StillExpected(th, todo[th].ulid) /\ SidOf[th] = SidOf[h]
           /\ disk' = [disk EXCEPT ![SidOf[th]] = RenewedState(th)]
  <2>1. th \in Handle /\ tkit \in Kit /\ Saved(SidOf[h]) /\ File(h).handle = th
        /\ reg'[th].ulid = tkit /\ (th # h => reg'[h] = reg[h]) /\ kit' = kit
    BY <1>3, SwapFacts DEF File
  <2>2. th = h
    BY <2>1 DEF Covered, Registered
  <2>3. File(h)' = RenewedState(th)
    BY <1>1, <1>3 DEF File, TypeOK
  <2> QED  BY <2>1, <2>2, <2>3 DEF RenewedState, Saved, File
<1>4. CASE RenewSwap /\ StillExpected(th, todo[th].ulid) /\ th = h /\ disk' = disk
  <2>1. Saved(SidOf[h]) /\ File(h).handle = h
    BY <1>4, SwapFacts
  <2>2. "persist" \in faults \/ disk' = [disk EXCEPT ![SidOf[th]] = RenewedState(th)]
    BY <1>4, SwapFacts
  <2> QED  BY <1>3, <1>4, <2>1, <2>2 DEF Saved, File
<1>5. CASE reg'[h].ulid = reg[h].ulid
           /\ ~(RenewSwap /\ StillExpected(th, todo[th].ulid) /\ SidOf[th] = SidOf[h])
  <2>1. Registered(h) /\ reg[h].ulid \in Kit
    BY <1>5, EntryFields DEF Registered, TypeOK
  <2>2. kit[reg[h].ulid] # "revoked"
    BY <1>5, <2>1, GoneStays DEF Gone
  <2>3. /\ Saved(SidOf[h]) /\ File(h).handle = h
        /\ "persist" \notin faults => File(h).ulid = reg[h].ulid
    BY <2>1, <2>2 DEF Covered
  <2>4. CASE File(h)' = File(h)
    BY <1>5, <2>3, <2>4 DEF Saved, File
  <2>5. CASE File(h)' # File(h)
    <3> USE <2>5 DEF File, TypeOK
    <3>1. ASSUME NEW p \in Handle, Save(p) PROVE FALSE
      <4>1. SidOf[p] = SidOf[h] /\ p \in Proc
        BY <3>1 DEF Save, Handle, Proc
      <4> QED  BY <2>3, <3>1, <4>1 DEF Save, Unclaimed, Claiming
    <3>2. ASSUME NEW p \in Handle, RollbackRemove(p) PROVE FALSE
      <4>1. SidOf[p] = SidOf[h] /\ p \in Proc
        BY <3>2 DEF RollbackRemove, Handle, Proc
      <4> QED  BY <2>1, <2>2, <2>3, <3>2, <4>1 DEF RollbackRemove, Owned, Owns
    <3>3. ASSUME NEW p \in Handle, OwnerSave(p)
          PROVE  File(h)'.handle = h /\ File(h)'.ulid = reg[h].ulid
      <4>1. SidOf[p] = SidOf[h] /\ p \in Proc /\ File(h)' = st[p]
        BY <1>1, <3>3 DEF OwnerSave, Handle, Proc
      <4> QED  BY <2>1, <2>3, <3>3, <4>1 DEF OwnerSave, Owned, Owns, OnDisk
    <3>4. ASSUME NEW p \in Proc, EndSave(p) \/ EndRemove(p) PROVE FALSE
      <4>0. \/ disk' = [disk EXCEPT ![SidOf[p]] = st[p]] \/ disk' = disk
            \/ disk' = [disk EXCEPT ![SidOf[p]] = NoState]
        BY <3>4 DEF EndSave, EndRemove
      <4>1. SidOf[p] = SidOf[h] /\ Taken(p) /\ pc[p] \in InEnd
        BY <1>1, <3>4, <4>0 DEF EndSave, EndRemove, Taken, InEnd, EndPc
      <4>2. st[p].handle = h
        BY <2>3, <4>1 DEF Ending
      <4> QED  BY <2>1, <4>1, <4>2 DEF RegisteredHandles
    <3>5. ASSUME RetireRemove PROVE FALSE
      <4>1. th \in Handle /\ Retiring
        BY <3>5 DEF RetireRemove, Retiring, Shape
      <4>2. th \in Runner /\ SidOf[th] = SidOf[h]
        BY <3>5, <4>1 DEF Watched, Unwatched, RetireRemove
      <4>3. th = h
        BY <4>2, RunnerSidAssumption
      <4> QED  BY <2>1, <4>1, <4>3 DEF RegisteredHandles, Retiring
    <3>6. ASSUME RenewSwap PROVE FALSE
      <4>1. StillExpected(th, todo[th].ulid)
        BY <3>6, NoSwap
      <4>2. th \in Handle /\ (disk' = [disk EXCEPT ![SidOf[th]] = RenewedState(th)]
                               \/ disk' = disk)
        BY <3>6, <4>1, SwapFacts
      <4>3. SidOf[th] = SidOf[h]
        BY <1>1, <4>2 DEF Handle, Proc
      <4> QED  BY <1>5, <3>6, <4>1, <4>3
    <3> QED
      BY <1>5, <2>1, <3>1, <3>2, <3>3, <3>4, <3>5, <3>6, DiskWriters DEF Saved
  <2> QED  BY <2>4, <2>5
<1>6. ASSUME reg'[h].ulid # reg[h].ulid, ~Register(h), ~RegisterUnacked(h)
      PROVE  RenewSwap /\ StillExpected(th, todo[th].ulid) /\ th = h
  BY <1>6, EntrySteps
<1>7. CASE RenewSwap /\ StillExpected(th, todo[th].ulid) /\ SidOf[th] = SidOf[h]
           /\ disk' = disk
  <2>1. th \in Handle /\ Saved(SidOf[h]) /\ File(h).handle = th
        /\ (th # h => reg'[h] = reg[h]) /\ kit' = kit
    BY <1>7, SwapFacts DEF File
  <2>2. th = h
    BY <2>1 DEF Covered, Registered
  <2> QED  BY <1>4, <1>7, <2>2
<1>8. RenewSwap /\ StillExpected(th, todo[th].ulid) =>
        disk' = disk \/ disk' = [disk EXCEPT ![SidOf[th]] = RenewedState(th)]
  BY SwapFacts
<1> QED  BY <1>2, <1>3, <1>5, <1>6, <1>7, <1>8

\* CoverInv holds before anything has started ...
LEMMA CoverInit == Init => CoverInv
<1> SUFFICES ASSUME Init PROVE CoverInv
  OBVIOUS
<1> USE DEF Init
<1>1. EndedInv
  BY InitInv
<1>2. Succession
  BY DEF Succession, Renewing, Obtained
<1>3. Starting /\ Fresh /\ Unclaimed /\ Owned /\ Ending
  BY DEF Starting, Fresh, Unclaimed, Owned, Ending, Claiming, Minted, RollbackPc, OnDisk,
     InEnd, EndPc
<1>4. Watched /\ Covered
  BY DEF Watched, Unwatched, Covered, Registered, Retiring, NoEntry
<1> QED  BY <1>1, <1>2, <1>3, <1>4 DEF CoverInv

\* ... and every step keeps it.
LEMMA CoverNext ==
    ASSUME SerialHooks, Prompt, CoverInv, [Next]_vars
    PROVE  CoverInv'
<1>1. EndedInv' /\ Succession' /\ Starting' /\ Fresh'
  BY InvNext, SuccessionNext, StartingNext, FreshNext DEF CoverInv, EndedInv
<1>2. Unclaimed' /\ Owned' /\ Ending' /\ Watched' /\ Covered'
  BY UnclaimedNext, OwnedNext, EndingNext, WatchedNext, CoveredNext
<1> QED  BY <1>1, <1>2 DEF CoverInv

\* The strengthened invariant of the state files holds in every reachable state.
THEOREM CoverInvariant ==
    ASSUME SerialHooks, Prompt
    PROVE  Spec => []CoverInv
<1>1. Init => CoverInv
  BY CoverInit
<1>2. CoverInv /\ [Next]_vars => CoverInv'
  BY CoverNext
<1> QED  BY <1>1, <1>2, PTL DEF Spec

\* The state file of a registered session names its handle and its current
\* KIT, whatever starts, ends, renewals, retirements and crashes cross.
THEOREM StateFilesCover ==
    ASSUME SerialHooks, Prompt
    PROVE  Spec => []DurableCoversRegistry
<1>1. CoverInv => DurableCoversRegistry
  BY DEF CoverInv, Covered, DurableCoversRegistry, File
<1> QED  BY <1>1, CoverInvariant, PTL


-----------------------------------------------------------------------------
(* Whose a KIT is: every place that holds one agrees with the control plane  *)
(* on the session it was minted for.                                         *)

\* A used KIT has a session, and a successor the same one.
Origins ==
    \A k \in Kit :
        /\ kitOf[k] = None <=> kit[k] = "unused"
        /\ succ[k] # None => kitOf[succ[k]] = kitOf[k]

\* The loop has a KIT in hand from taking or obtaining it to its last step.
LoopKit ==
    /\ tpc \in {"wait", "scan", "renew_create"} => tkit = None
    /\ Retiring \/ tpc \in Obtained => tkit # None
    /\ "crash" \notin faults => up

Carried ==
    /\ \A h \in Handle :
          /\ Registered(h) => kitOf[reg[h].ulid] = h
          /\ todo[h].ulid # None => kitOf[todo[h].ulid] = h
    /\ tkit # None => th \in Handle /\ kitOf[tkit] = th
    /\ \A s \in Sid : Saved(s) => kitOf[disk[s].ulid] = disk[s].handle
    /\ \A p \in Proc :
          /\ pc[p] \in Minted => kitOf[cur[p]] = p
          /\ pc[p] \in InEnd =>
                cur[p] \in Kit /\ st[p].ulid = cur[p] /\ kitOf[cur[p]] = st[p].handle

\* A state file that names a registered session names its KIT or a dead one.
Matches ==
    \A h \in Handle :
        Registered(h) /\ Saved(SidOf[h]) /\ File(h).handle = h
            => File(h).ulid = reg[h].ulid \/ Gone(File(h).ulid)

OriginInv == CoverInv /\ Origins /\ LoopKit /\ Carried /\ Matches

\* A KIT is minted for one session for good, and renewed for the same one.
LEMMA OriginsNext ==
    ASSUME TypeOK, Shape, Succession, Origins, [Next]_vars
    PROVE  Origins' /\ \A k \in Kit : kitOf[k] # None => kitOf'[k] = kitOf[k]
<1> USE NoneAssumption DEF TypeOK, Origins
<1>1. CASE UNCHANGED <<kit, succ, kitOf>>
  BY <1>1
<1>2. ASSUME NEW x \in Kit \cup {None}, kit' = Revoked(x), UNCHANGED <<succ, kitOf>>
      PROVE  Origins' /\ \A k \in Kit : kitOf[k] # None => kitOf'[k] = kitOf[k]
  BY <1>2 DEF Revoked
<1>3. ASSUME NEW p \in Handle, NEW n \in Kit, MintFor(p, n)
      PROVE  Origins' /\ \A k \in Kit : kitOf[k] # None => kitOf'[k] = kitOf[k]
  <2>1. p # None
    BY DEF Handle, Proc
  <2>2. \A k \in Kit : k # n => kit'[k] = kit[k] /\ kitOf'[k] = kitOf[k]
    BY <1>3 DEF MintFor
  <2>3. kit[n] = "unused" /\ kit'[n] = "live" /\ kitOf'[n] = p /\ succ' = succ
    BY <1>3 DEF MintFor
  <2>4. \A k \in Kit : succ[k] # None => k # n /\ succ[k] # n
    BY <2>3 DEF Succession
  <2> QED  BY <2>1, <2>2, <2>3, <2>4
<1>4. ASSUME NEW n \in Kit, tpc = "renew_create", ReplaceKit(todo[th].ulid, n)
      PROVE  Origins' /\ \A k \in Kit : kitOf[k] # None => kitOf'[k] = kitOf[k]
  <2> DEFINE old == todo[th].ulid
  <2>0. old \in Kit
    BY <1>4 DEF Shape, Entry
  <2>1. CASE UNCHANGED <<kit, succ, kitOf>>
    BY <2>1
  <2>2. CASE ~UNCHANGED <<kit, succ, kitOf>>
    <3>1. /\ kit[old] = "live" /\ kit[n] = "unused"
          /\ kit' = [kit EXCEPT ![old] = "replaced", ![n] = "live"]
          /\ kitOf' = [kitOf EXCEPT ![n] = kitOf[old]]
          /\ succ' = [succ EXCEPT ![old] = n]
      BY <1>4, <2>2 DEF ReplaceKit, cpVars
    <3>2. kitOf'[n] = kitOf[old] /\ kitOf[old] # None /\ kitOf[n] = None /\ n # old
      BY <2>0, <3>1
    <3>3. \A k \in Kit : k # n => kitOf'[k] = kitOf[k]
      BY <3>1
    <3>4. \A k \in Kit : k # old => succ'[k] = succ[k]
      BY <2>0, <3>1
    <3>5. succ'[old] = n
      BY <2>0, <3>1
    <3>6. \A k \in Kit : succ[k] # None => k # n /\ succ[k] # n
      BY <3>1, <3>2 DEF Succession
    <3>7. kit'[n] = "live" /\ kit'[old] = "replaced"
          /\ \A k \in Kit : k # n /\ k # old => kit'[k] = kit[k]
      BY <2>0, <3>1, <3>2
    <3>8. ASSUME NEW k \in Kit PROVE kitOf'[k] = None <=> kit'[k] = "unused"
      BY <2>0, <3>1, <3>2, <3>3, <3>7
    <3>9. ASSUME NEW k \in Kit, succ'[k] # None PROVE kitOf'[succ'[k]] = kitOf'[k]
      BY <2>0, <3>2, <3>3, <3>4, <3>5, <3>6, <3>9
    <3> QED  BY <3>2, <3>3, <3>8, <3>9
  <2> QED  BY <2>1, <2>2
<1> QED  BY <1>1, <1>2, <1>3, <1>4, PlaneSteps DEF Plane


\* How a KIT comes into the loop's hands.
LEMMA InHandSteps ==
    ASSUME TypeOK, Shape, [Next]_vars
    PROVE  \/ tkit' = None
           \/ tkit' = tkit /\ th' = th /\ tpc # "scan"
           \/ tkit' = tkit /\ tpc \in {"wait", "scan"}
           \/ RenewCreate /\ th' = th
           \/ \E h \in Handle :
                 ScanRetire(h) /\ Registered(h) /\ th' = h /\ tkit' = reg[h].ulid
<1> USE DEF LoopFrame, NextSession
<1>1. CASE UNCHANGED <<up, loopVars>>
  BY <1>1 DEF loopVars
<1>2. CASE DaemonCrash \/ DaemonStart
  BY <1>2 DEF DaemonCrash, DaemonStart, loopVars
<1>3. CASE LoopStep
  BY <1>3 DEF LoopStep, ScanStep, Tick, TickDone, ScanSkip, ScanOwnerGone, InScan,
       ScanRetire, ScanRenew, RenewCreate, RenewRefused, RenewLost, RenewRoutes,
       RenewSwap, RenewDiscard, RetireRevoke, RetireRevokeFails, RetireRemove
<1> QED  BY <1>1, <1>2, <1>3, LoopAlone

\* The loop has something in hand exactly from obtaining to its last step.
LEMMA LoopKitNext ==
    ASSUME TypeOK, Shape, LoopKit, [Next]_vars
    PROVE  LoopKit'
<1> USE DEF LoopKit, LoopFrame, NextSession, Retiring, Obtained
<1>1. CASE UNCHANGED <<up, loopVars>>
  BY <1>1, FaultsStay DEF loopVars
<1>2. CASE DaemonCrash
  BY <1>2, NoneAssumption DEF DaemonCrash, Fault
<1>3. CASE DaemonStart
  BY <1>3 DEF DaemonStart, loopVars
<1>4. ASSUME LoopStep
      PROVE  up' = up /\ faults' = faults
  BY <1>4 DEF LoopStep, ScanStep, Tick, TickDone, ScanSkip, ScanOwnerGone,
       ScanRetire, ScanRenew, RenewCreate, RenewRefused, RenewLost, RenewRoutes,
       RenewSwap, RenewDiscard, RetireRevoke, RetireRevokeFails, RetireRemove
<1>5. ASSUME NEW h \in Handle, ScanStep(h)
      PROVE  LoopKit'
  BY <1>4, <1>5 DEF LoopStep, ScanStep, ScanSkip, ScanOwnerGone, ScanRetire, ScanRenew,
     InScan, Registered
<1>6. CASE RenewCreate
  <2>1. tkit' \in Kit /\ tpc' = "renew_routes"
    BY <1>6 DEF RenewCreate
  <2> QED  BY <1>4, <1>6, <2>1, NoneAssumption DEF LoopStep
<1>7. CASE LoopStep /\ ~RenewCreate /\ ~\E h \in Handle : ScanStep(h)
  BY <1>4, <1>7 DEF LoopStep, Tick, TickDone, RenewRefused, RenewLost, RenewRoutes,
       RenewSwap, RenewDiscard, RetireRevoke, RetireRevokeFails, RetireRemove
<1> QED  BY <1>1, <1>2, <1>3, <1>5, <1>6, <1>7, LoopAlone DEF LoopStep

\* Whatever is copied, loaded, saved or installed keeps its session.
LEMMA CarriedNext ==
    ASSUME OriginInv, SerialHooks, [Next]_vars
    PROVE  Carried'
<1> USE NoneAssumption, SidAssumption DEF OriginInv, CoverInv, EndedInv
<1>0. ASSUME NEW k \in Kit, NEW h \in Handle, kitOf[k] = h PROVE kitOf'[k] = h
  BY <1>0, OriginsNext DEF Handle, Proc
<1>1. ASSUME NEW h \in Handle, Registered(h)' PROVE kitOf'[reg'[h].ulid] = h
  <2>1. CASE Register(h) \/ RegisterUnacked(h)
    <3>1. reg'[h].ulid = cur[h] /\ kitOf[cur[h]] = h /\ cur[h] \in Kit
      BY <2>1 DEF Register, RegisterUnacked, Carried, Fresh, Minted, TypeOK, Handle, Proc
    <3> QED  BY <1>0, <3>1
  <2>2. CASE RenewSwap /\ StillExpected(th, todo[th].ulid) /\ th = h
    <3>1. reg'[h].ulid = tkit /\ tkit \in Kit
      BY <2>2, SwapFacts
    <3> QED  BY <1>0, <2>2, <3>1 DEF Carried
  <2>3. CASE reg'[h].ulid = reg[h].ulid
    <3>1. Registered(h) /\ reg[h].ulid \in Kit
      BY <1>1, <2>3, EntryFields DEF Registered, TypeOK
    <3> QED  BY <1>0, <2>3, <3>1 DEF Carried
  <2> QED  BY <1>1, <2>1, <2>2, <2>3, EntrySteps
<1>2. ASSUME NEW h \in Handle, todo'[h].ulid # None PROVE kitOf'[todo'[h].ulid] = h
  <2>1. todo'[h] = todo[h] \/ (todo'[h] = reg[h] /\ Registered(h))
    BY <1>2, SnapshotSteps DEF NoEntry, Registered
  <2>2. kitOf[todo'[h].ulid] = h /\ todo'[h].ulid \in Kit
    BY <1>2, <2>1, EntryFields DEF Carried, TypeOK
  <2> QED  BY <1>0, <2>2
<1>3. ASSUME tkit' # None PROVE th' \in Handle /\ kitOf'[tkit'] = th'
  <2>1. CASE tkit' = tkit /\ th' = th
    BY <1>0, <1>3, <2>1 DEF Carried, TypeOK
  <2>2. CASE tkit' = tkit /\ tpc \in {"wait", "scan"}
    BY <1>3, <2>2 DEF LoopKit
  <2>3. CASE RenewCreate /\ th' = th
    <3>1. PICK n \in Kit : ReplaceKit(todo[th].ulid, n) /\ tkit' = n
      BY <2>3 DEF RenewCreate
    <3>2. th \in Handle /\ todo[th].ulid \in Kit /\ kitOf[todo[th].ulid] = th
      BY <2>3, EntryFields DEF RenewCreate, Shape, Carried, TypeOK
    <3>3. kitOf'[todo[th].ulid] = th
      BY <1>0, <3>2
    <3>4. succ'[todo[th].ulid] = n
      BY <3>1, <3>2 DEF ReplaceKit, cpVars, TypeOK
    <3> QED  BY <2>3, <3>1, <3>2, <3>3, <3>4, OriginsNext DEF Origins
  <2>4. ASSUME NEW h \in Handle, Registered(h), th' = h, tkit' = reg[h].ulid
        PROVE  th' \in Handle /\ kitOf'[tkit'] = th'
    BY <1>0, <1>3, <2>4, EntryFields DEF Carried, TypeOK
  <2> QED  BY <1>3, <2>1, <2>2, <2>3, <2>4, InHandSteps
<1>4. ASSUME NEW s \in Sid, Saved(s)' PROVE kitOf'[disk'[s].ulid] = disk'[s].handle
  <2> USE DEF TypeOK
  <2>1. CASE disk'[s] = disk[s]
    <3>1. disk[s].ulid \in Kit /\ disk[s].handle \in Handle /\ kitOf[disk[s].ulid] = disk[s].handle
      BY <1>4, <2>1 DEF Saved, Carried, SavedHandles, State
    <3> QED  BY <1>0, <2>1, <3>1
  <2>2. ASSUME NEW p \in Handle, Save(p), disk'[s] # disk[s]
        PROVE  kitOf'[disk'[s].ulid] = disk'[s].handle
    <3>1. cur[p] \in Kit /\ kitOf[cur[p]] = p
      BY <2>2 DEF Save, Carried, Fresh, Minted, Handle, Proc
    <3>2. disk'[s].ulid = cur[p] /\ disk'[s].handle = p
      BY <2>2 DEF Save, Handle, Proc
    <3> QED  BY <1>0, <3>1, <3>2
  <2>3. ASSUME NEW p \in Handle, OwnerSave(p), disk'[s] # disk[s]
        PROVE  kitOf'[disk'[s].ulid] = disk'[s].handle
    <3>1. cur[p] \in Kit /\ kitOf[cur[p]] = p /\ st[p].handle = p /\ st[p].ulid = cur[p]
      BY <2>3 DEF OwnerSave, Carried, Fresh, Owned, Minted, Handle, Proc
    <3>2. disk'[s] = st[p]
      BY <2>3 DEF OwnerSave, Handle, Proc
    <3> QED  BY <1>0, <3>1, <3>2
  <2>4. ASSUME NEW p \in Proc, EndSave(p), disk'[s] # disk[s]
        PROVE  kitOf'[disk'[s].ulid] = disk'[s].handle
    <3>1. cur[p] \in Kit /\ kitOf[cur[p]] = st[p].handle /\ st[p].ulid = cur[p]
          /\ st[p].handle \in Handle
      BY <2>4 DEF EndSave, Carried, LoadedHandles, Loaded, InEnd, EndPc
    <3>2. disk' = [disk EXCEPT ![SidOf[p]] = st[p]]
      BY <2>4 DEF EndSave
    <3>3. disk'[s] = st[p]
      BY <2>4, <3>2
    <3> QED  BY <1>0, <3>1, <3>3
  <2>5. ASSUME NEW p \in Proc, RollbackRemove(p) \/ EndRemove(p), disk'[s] # disk[s]
        PROVE  FALSE
    BY <1>4, <2>5 DEF RollbackRemove, EndRemove, NoState, Saved
  <2>6. ASSUME RenewSwap, disk'[s] # disk[s]
        PROVE  kitOf'[disk'[s].ulid] = disk'[s].handle
    <3>1. StillExpected(th, todo[th].ulid)
      BY <2>6, NoSwap
    <3>2. th \in Handle /\ tkit \in Kit /\ disk' = [disk EXCEPT ![SidOf[th]] = RenewedState(th)]
      BY <2>6, <3>1, SwapFacts
    <3>3. disk'[s] = RenewedState(th)
      BY <2>6, <3>2 DEF Handle, Proc
    <3>4. kitOf[tkit] = th
      BY <3>2 DEF Carried
    <3> QED  BY <1>0, <3>2, <3>3, <3>4 DEF RenewedState
  <2>7. ASSUME RetireRemove, disk'[s] # disk[s] PROVE FALSE
    BY <1>4, <2>7 DEF RetireRemove, NoState, Saved
  <2> QED
    BY <2>1, <2>2, <2>3, <2>4, <2>5, <2>6, <2>7, DiskWriters DEF Handle, Proc
<1>5. ASSUME NEW p \in Proc, pc'[p] \in Minted PROVE kitOf'[cur'[p]] = p
  <2>1. CASE p \in Handle /\ Mint(p)
    <3>1. PICK k \in Kit : MintFor(p, k) /\ cur' = [cur EXCEPT ![p] = k]
      BY <2>1 DEF Mint
    <3> QED  BY <3>1 DEF MintFor, TypeOK
  <2>2. CASE pc[p] \in Minted /\ cur'[p] = cur[p]
    <3>1. kitOf[cur[p]] = p /\ cur[p] \in Kit /\ p \in Handle
      BY <2>2 DEF Carried, Fresh, Starting
    <3> QED  BY <1>0, <2>2, <3>1
  <2> QED  BY <1>5, <2>1, <2>2, MintedSteps
<1>6. ASSUME NEW p \in Proc, pc'[p] \in InEnd
      PROVE  cur'[p] \in Kit /\ st'[p].ulid = cur'[p] /\ kitOf'[cur'[p]] = st'[p].handle
  <2>1. CASE EndLoad(p)
    <3>1. /\ cur'[p] = File(p).ulid /\ st'[p] = File(p) /\ Saved(SidOf[p])
      BY <2>1 DEF EndLoad, File, TypeOK
    <3>2. File(p).ulid \in Kit /\ File(p).handle \in Handle
          /\ kitOf[File(p).ulid] = File(p).handle
      BY <3>1 DEF Carried, SavedHandles, Saved, File, TypeOK, State
    <3> QED  BY <1>0, <3>1, <3>2
  <2>2. CASE Unregister(p)
    <3> DEFINE h == st[p].handle
               u == CurrentUlid(h, st[p].ulid)
    <3>1. h \in Handle /\ cur[p] \in Kit /\ st[p].ulid = cur[p] /\ kitOf[cur[p]] = h
      BY <2>2 DEF Unregister, Carried, LoadedHandles, Loaded, InEnd, EndPc
    <3>2. cur' = [cur EXCEPT ![p] = u] /\ st' = [st EXCEPT ![p].ulid = u]
      BY <2>2 DEF Unregister
    <3>3. u \in Kit /\ kitOf[u] = h
      BY <3>1, EntryFields DEF CurrentUlid, Carried, Registered, TypeOK
    <3>4. cur'[p] = u /\ st'[p].ulid = u /\ st'[p].handle = h
      BY <3>2 DEF TypeOK, State
    <3> QED  BY <1>0, <3>1, <3>3, <3>4
  <2>3. CASE pc[p] \in InEnd /\ UNCHANGED <<cur[p], st[p]>>
    <3>1. cur[p] \in Kit /\ st[p].ulid = cur[p] /\ kitOf[cur[p]] = st[p].handle
      BY <2>3 DEF Carried
    <3>2. st[p].handle \in Handle
      BY <2>3 DEF LoadedHandles, Loaded, InEnd
    <3> QED  BY <1>0, <2>3, <3>1, <3>2
  <2> QED  BY <1>6, <2>1, <2>2, <2>3, InEndSteps
<1> QED  BY <1>1, <1>2, <1>3, <1>4, <1>5, <1>6 DEF Carried


\* Only a swap whose file could not be written lets file and registry differ,
\* and then the file names the KIT that was replaced.
LEMMA MatchesNext ==
    ASSUME OriginInv, SerialHooks, [Next]_vars
    PROVE  Matches'
<1> USE NoneAssumption, SidAssumption DEF OriginInv, CoverInv, EndedInv
<1> SUFFICES ASSUME NEW h \in Handle, Registered(h)', Saved(SidOf[h])', File(h)'.handle = h
             PROVE  File(h)'.ulid = reg'[h].ulid \/ Gone(File(h).ulid)'
  BY DEF Matches, File
<1>0. h \in Proc /\ SidOf[h] \in Sid
  BY DEF Handle, Proc
<1>1. CASE Register(h) \/ RegisterUnacked(h)
  <2>1. Owns(h)
    BY <1>0, <1>1 DEF Register, RegisterUnacked, Owned, OnDisk
  <2>2. reg'[h].ulid = cur[h] /\ disk' = disk
    BY <1>1 DEF Register, RegisterUnacked, TypeOK
  <2> QED  BY <2>1, <2>2 DEF Owns, File
<1>2. CASE RenewSwap /\ StillExpected(th, todo[th].ulid) /\ th = h
  <2>1. reg'[h].ulid = tkit
        /\ (disk' = [disk EXCEPT ![SidOf[th]] = RenewedState(th)] \/ disk' = disk)
        /\ File(h).handle = h /\ Saved(SidOf[h]) /\ Registered(h)
        /\ kit[reg[h].ulid] = "replaced" /\ kit' = kit
    BY <1>2, SwapFacts
  <2>2. CASE disk' = [disk EXCEPT ![SidOf[th]] = RenewedState(th)]
    BY <1>0, <1>2, <2>1, <2>2 DEF File, RenewedState, TypeOK
  <2>3. CASE disk' = disk
    <3>1. Gone(File(h).ulid)
      BY <2>1 DEF Matches, Gone
    <3> QED  BY <2>1, <2>3, <3>1 DEF File, Gone
  <2> QED  BY <2>1, <2>2, <2>3
<1>3. CASE reg'[h].ulid = reg[h].ulid
           /\ ~(RenewSwap /\ StillExpected(th, todo[th].ulid) /\ th = h)
  <2>1. Registered(h)
    BY <1>3 DEF Registered
  <2>2. CASE File(h)' = File(h)
    <3>1. File(h).ulid = reg[h].ulid \/ Gone(File(h).ulid)
      BY <2>1, <2>2 DEF Matches, Saved, File
    <3>2. File(h).ulid \in Kit
      BY <1>0, <2>2 DEF Saved, File, TypeOK, State
    <3> QED  BY <1>3, <2>2, <3>1, <3>2, GoneStays DEF Gone, File
  <2>3. CASE File(h)' # File(h)
    <3> USE <1>0, <2>3 DEF File, TypeOK
    <3>1. ASSUME NEW p \in Handle, Save(p) PROVE FALSE
      <4>1. File(h)' = [handle |-> p, ulid |-> cur[p], owner |-> "none"]
        BY <3>1 DEF Save, Handle, Proc
      <4>2. p = h
        BY <4>1
      <4> QED  BY <2>1, <3>1, <4>2 DEF Save, RegisteredHandles, PreRegister, PreSave
    <3>2. ASSUME NEW p \in Handle, OwnerSave(p) PROVE File(h)'.ulid = reg'[h].ulid
      <4>1. File(h)' = st[p] /\ p \in Proc
        BY <3>2 DEF OwnerSave, Handle, Proc
      <4>2. st[p].handle = p /\ st[p].ulid = cur[p] /\ (Registered(p) => reg[p].ulid = cur[p])
        BY <3>2, <4>1 DEF OwnerSave, Owned, OnDisk
      <4> QED  BY <1>3, <2>1, <4>1, <4>2
    <3>3. ASSUME NEW p \in Proc, EndSave(p) PROVE FALSE
      <4>0. disk' = [disk EXCEPT ![SidOf[p]] = st[p]] \/ disk' = disk
        BY <3>3 DEF EndSave
      <4>1. File(h)' = st[p] /\ Taken(p)
        BY <3>3, <4>0 DEF EndSave, Taken
      <4> QED  BY <2>1, <4>1 DEF RegisteredHandles
    <3>4. ASSUME NEW p \in Proc, RollbackRemove(p) \/ EndRemove(p) PROVE FALSE
      BY <3>4 DEF RollbackRemove, EndRemove, NoState, Saved
    <3>5. ASSUME RetireRemove PROVE FALSE
      BY <3>5 DEF RetireRemove, NoState, Saved
    <3>6. ASSUME RenewSwap PROVE FALSE
      <4>1. StillExpected(th, todo[th].ulid)
        BY <3>6, NoSwap
      <4>2. th \in Handle /\ (disk' = [disk EXCEPT ![SidOf[th]] = RenewedState(th)]
                               \/ disk' = disk)
        BY <3>6, <4>1, SwapFacts
      <4>3. File(h)' = RenewedState(th)
        BY <4>2 DEF Handle, Proc
      <4> QED  BY <1>3, <3>6, <4>1, <4>3 DEF RenewedState
    <3> QED
      BY <3>1, <3>2, <3>3, <3>4, <3>5, <3>6, DiskWriters DEF Handle, Proc
  <2> QED  BY <2>2, <2>3
<1> QED  BY <1>1, <1>2, <1>3, EntrySteps

\* Nothing is held at first ...
LEMMA OriginInit == Init => OriginInv
<1> SUFFICES ASSUME Init PROVE OriginInv
  OBVIOUS
<1>1. CoverInv
  BY CoverInit
<1>2. Origins /\ LoopKit /\ Carried /\ Matches
  BY NoneAssumption DEF Init, Origins, LoopKit, Carried, Matches, Registered, Saved, Retiring,
     Obtained, NoEntry, NoState, Minted, RollbackPc, InEnd, EndPc
<1> QED  BY <1>1, <1>2 DEF OriginInv

\* ... and every step keeps to the sessions the KITs were minted for.
LEMMA OriginNext ==
    ASSUME SerialHooks, Prompt, OriginInv, [Next]_vars
    PROVE  OriginInv'
  BY CoverNext, OriginsNext, LoopKitNext, CarriedNext, MatchesNext
     DEF OriginInv, CoverInv, EndedInv


-----------------------------------------------------------------------------
(* Why no live KIT is lost: what an end and a retirement know of the KITs    *)
(* they drop, as long as the failures are survivable.                        *)

\* The state file names the KIT the process has in hand, or that one is dead.
Knows(p) == File(p).ulid = cur[p] \/ Gone(cur[p])
\* The KIT the state file names, if any, is that one or dead.
FileKnown(p) == Saved(SidOf[p]) => File(p).ulid = cur[p] \/ Gone(File(p).ulid)
\* The loop is retiring the session that p is ending.
RetiringToo(p) == Retiring /\ th = st[p].handle

\* unregErr is the last answer of the daemon, and a lost one leaves the state
\* file to rely on.
Answered ==
    \A p \in Proc :
        /\ pc[p] \in {"unregister", "end_save"} => ~unregErr[p]
        /\ pc[p] = "revoke" /\ unregErr[p] => "persist" \notin faults

\* A revocation that may fail is recorded.
Known ==
    \A p \in Proc :
        \/ pc[p] = "unregister"
        \/ pc[p] = "revoke" /\ ("persist" \notin faults \/ RetiringToo(p))
        => Knows(p)

\* Nothing live is in the state file that an end is going to remove.
FilesKnown ==
    \A p \in Proc :
        Taken(p) \/ (pc[p] = "unregister" /\ ~Registered(st[p].handle)) => FileKnown(p)

\* An end that took its session from the registry is the only one to do so.
TakenOnce ==
    \A p \in Proc : pc[p] = "end_save" => st[p].handle \notin ended /\ ~RetiringToo(p)

\* What a second end of a session still finds is dead.
EndedSpent ==
    \A p \in Proc :
        pc[p] \in {"unregister", "revoke"} /\ st[p].handle \in ended => Gone(cur[p])

\* A state file is removed after the KIT was revoked.
RemoveSpent ==
    \A p \in Proc : pc[p] \in {"end_remove", "rollback_remove"} => Gone(cur[p])

\* A retirement knows the same of the KIT it took.
RetireKnows ==
    Retiring =>
        /\ Saved(SidOf[th]) => File(th).ulid = tkit \/ Gone(File(th).ulid)
        /\ tpc = "retire_remove" => Gone(tkit)
        /\ "persist" \notin faults => File(th).ulid = tkit \/ Gone(tkit)

\* No state file and no start is about an ended session.
EndedOff ==
    /\ \A s \in Sid : Saved(s) => disk[s].handle \notin ended
    /\ \A p \in Proc : pc[p] \in Minted => p \notin ended

EndParts ==
    /\ Answered /\ Known /\ FilesKnown /\ TakenOnce /\ EndedSpent /\ RemoveSpent
    /\ RetireKnows /\ EndedOff

AllHeld == \A k \in Kit : Live(k) => Held(k)

KitInv == OriginInv /\ (Survivable => EndParts /\ AllHeld)


\* The steps of an end, and where they lead.
LEMMA InEndMoves ==
    ASSUME TypeOK, NEW p \in Proc, Step(p), pc'[p] \in InEnd
    PROVE  \/ EndLoad(p) /\ pc'[p] = "unregister" /\ ~unregErr'[p]
           \/ Unregister(p) /\ pc'[p] \in {"end_save", "revoke"} /\ unregErr' = unregErr
           \/ (UnregisterUnacked(p) \/ UnregisterFails(p)) /\ pc'[p] = "revoke" /\ unregErr'[p]
           \/ EndSave(p) /\ pc'[p] = "revoke" /\ unregErr' = unregErr
           \/ EndRevoke(p) /\ ~unregErr[p] /\ pc'[p] = "end_remove"
<1> USE DEF InEnd, EndPc, Goto, TypeOK, cliVars
<1>1. CASE EndStep(p) \/ Launch(p) \/ Kill(p)
  BY <1>1 DEF EndStep, EndLoad, EndNoState, EndFails, Unregister, UnregisterUnacked,
     UnregisterFails, EndSave, EndRevoke, EndRevokeFails, EndRemove, Launch, Kill
<1>2. CASE StartStep(p)
  BY <1>2 DEF StartStep, StartLoad, Mint, MintRefused, MintLost, Routes, RoutesRejected,
       Save, SaveFails, RollbackRevoke, Register, RegisterUnacked, RegisterFails,
       RollbackRegister, RollbackRetained, RollbackRemove, OwnerLoad, OwnerSave,
       OwnerSend, OwnerSendFails, AfterOwner
<1>3. CASE RunStep(p)
  BY <1>3 DEF RunStep, Spawn, SpawnFails, RunEnds
<1> QED  BY <1>1, <1>2, <1>3 DEF Step

\* What an end has in hand is a KIT of the session it loaded.
LEMMA EndHolds ==
    ASSUME OriginInv, NEW p \in Proc, pc[p] \in InEnd
    PROVE  /\ cur[p] \in Kit /\ st[p].ulid = cur[p] /\ kit[cur[p]] # "unused"
           /\ st[p].handle \in Handle /\ SidOf[st[p].handle] = SidOf[p] /\ Active(p)
<1>1. cur[p] \in Kit /\ st[p].ulid = cur[p] /\ kitOf[cur[p]] = st[p].handle
  BY DEF OriginInv, Carried
<1>2. st[p].handle \in Handle /\ SidOf[st[p].handle] = SidOf[p]
  BY DEF OriginInv, CoverInv, EndedInv, LoadedHandles, Loaded, InEnd
<1>3. kit[cur[p]] # "unused"
  BY <1>1, <1>2, NoneAssumption DEF OriginInv, Origins, Handle, Proc
<1> QED  BY <1>1, <1>2, <1>3 DEF Active, FinalPc, InEnd, EndPc

\* Revoking a KIT that was issued leaves it dead.
LEMMA RevokedIsGone ==
    ASSUME TypeOK, NEW k \in Kit, kit[k] # "unused", kit' = Revoked(k)
    PROVE  Gone(k)'
  BY DEF Revoked, Gone, TypeOK, KitStatus

\* A process whose answers are told apart from lost ones.
LEMMA AnsweredNext ==
    ASSUME Survivable, OriginInv, EndParts, [Next]_vars
    PROVE  Answered'
<1> USE DEF OriginInv, CoverInv, EndedInv
<1> SUFFICES ASSUME NEW p \in Proc, pc'[p] \in InEnd
             PROVE  /\ pc'[p] \in {"unregister", "end_save"} => ~unregErr'[p]
                    /\ pc'[p] = "revoke" /\ unregErr'[p] => "persist" \notin faults'
  BY DEF Answered, InEnd, EndPc
<1>1. faults' = faults
  BY FaultsStay
<1>2. CASE ~Step(p)
  BY <1>1, <1>2, LocalsStay DEF Locals, EndParts, Answered
<1>3. CASE Step(p)
  <2>1. UnregisterUnacked(p) \/ UnregisterFails(p) => "persist" \notin faults
    BY DEF UnregisterUnacked, UnregisterFails, Fault, Survivable, LoopKit
  <2>2. Unregister(p) \/ EndSave(p) => ~unregErr[p]
    BY DEF Unregister, EndSave, EndParts, Answered
  <2> QED  BY <1>1, <1>3, <2>1, <2>2, InEndMoves
<1> QED  BY <1>2, <1>3

\* Renewals and retirements that meet an end leave it knowing its KIT.
LEMMA KnowsStays ==
    ASSUME SerialHooks, OriginInv, RetireKnows, [Next]_vars,
           NEW p \in Proc, pc[p] \in InEnd, ~Step(p), Knows(p)
    PROVE  Knows(p)'
<1> USE DEF OriginInv, CoverInv, EndedInv
<1>0. cur'[p] = cur[p] /\ cur[p] \in Kit
  BY LocalsStay, EndHolds DEF Locals
<1>1. CASE Gone(cur[p])
  <2>1. Gone(cur[p])'
    BY <1>0, <1>1, GoneStays DEF Gone
  <2> QED  BY <2>1 DEF Knows
<1>2. CASE File(p)' = File(p)
  BY <1>0, <1>1, <1>2 DEF Knows, File
<1>3. CASE File(p).ulid = cur[p] /\ RenewSwap /\ StillExpected(th, todo[th].ulid)
           /\ SidOf[th] = SidOf[p]
  <2>1. /\ th \in Handle /\ Registered(th) /\ Saved(SidOf[p]) /\ File(p).handle = th
        /\ kit[reg[th].ulid] = "replaced"
    BY <1>3, SwapFacts DEF File
  <2>2. File(p).ulid = reg[th].ulid \/ Gone(File(p).ulid)
    BY <1>3, <2>1 DEF Matches, File
  <2> QED  BY <1>1, <1>3, <2>1, <2>2 DEF Gone
<1>4. CASE File(p).ulid = cur[p] /\ RetireRemove /\ th \in Handle /\ SidOf[th] = SidOf[p]
  <2>1. Saved(SidOf[p])
    BY <1>0, <1>4, NoneAssumption DEF Saved, File
  <2>2. File(p).ulid = tkit \/ Gone(File(p).ulid)
    BY <1>4, <2>1 DEF RetireKnows, Retiring, RetireRemove, File
  <2>3. Gone(tkit)
    BY <1>4 DEF RetireKnows, Retiring, RetireRemove
  <2> QED  BY <1>1, <1>4, <2>2, <2>3
<1> QED  BY <1>1, <1>2, <1>3, <1>4, EndUndisturbed DEF Knows

\* They leave alone the file of a session that is out of the registry.
LEMMA FileKnownStays ==
    ASSUME SerialHooks, OriginInv, [Next]_vars,
           NEW p \in Proc, pc[p] \in InEnd, ~Step(p), FileKnown(p),
           ~Registered(st[p].handle)
    PROVE  FileKnown(p)'
<1> USE DEF OriginInv, CoverInv, EndedInv
<1> SUFFICES ASSUME Saved(SidOf[p])'
             PROVE  File(p)'.ulid = cur'[p] \/ Gone(File(p).ulid)'
  BY DEF FileKnown
<1>0. cur'[p] = cur[p]
  BY LocalsStay DEF Locals
<1>1. File(p)' = File(p)
  BY EndUndisturbed, SwapFacts DEF NoState, Saved, File
<1>2. File(p).ulid \in Kit
  BY <1>1, SidAssumption DEF Saved, File, TypeOK, State
<1> QED  BY <1>0, <1>1, <1>2, GoneStays DEF FileKnown, Gone, Saved, File

\* A session being unregistered leaves the registry only by that: with Prompt
\* the loop does not take it meanwhile.
LEMMA StaysIn ==
    ASSUME SerialHooks, Prompt, Survivable, OriginInv, [Next]_vars,
           NEW p \in Proc, pc[p] = "unregister", ~Step(p), Registered(st[p].handle)
    PROVE  Registered(st[p].handle)'
<1> USE DEF OriginInv, CoverInv, EndedInv
<1> DEFINE h == st[p].handle
<1>0. h \in Handle /\ SidOf[h] = SidOf[p] /\ Active(p) /\ st'[p] = st[p]
  BY EndHolds, LocalsStay DEF Locals, InEnd, EndPc
<1>1. ~ScanRetire(h)
  BY DEF ScanRetire
<1>2. ~DaemonCrash
  BY DEF DaemonCrash, Fault, Survivable
<1>3. ASSUME RenewSwap, th = h PROVE reg'[h].ulid = reg[h].ulid \/ reg'[h].ulid \in Kit
  BY <1>3, SwapFacts, NoSwap
<1>4. reg'[h].ulid = reg[h].ulid \/ reg'[h].ulid \in Kit
  BY <1>0, <1>1, <1>2, <1>3, RegistryAlone
<1> QED  BY <1>0, <1>4, NoneAssumption DEF Registered


\* While a process works on a session, only a retirement ends it besides.
LEMMA EndedAlone ==
    ASSUME TypeOK, Shape, SerialHooks, Serial, LoadedHandles, [Next]_vars,
           NEW p \in Proc, Active(p), ~Step(p),
           NEW h \in Handle, SidOf[h] = SidOf[p], h \in ended', h \notin ended
    PROVE  RetireRemove /\ th = h
<1>1. ASSUME NEW q \in Proc, EndRemove(q) PROVE FALSE
  <2>1. Step(q)
    BY <1>1 DEF Step, EndStep
  <2>2. st[q].handle = h
    BY <1>1 DEF EndRemove
  <2>3. SidOf[q] = SidOf[p]
    BY <1>1, <2>2 DEF EndRemove, LoadedHandles, Loaded, EndPc
  <2> QED  BY <2>1, <2>3, Alone
<1> QED  BY <1>1, EndedWriters DEF RetireRemove

\* The loop turns to retiring a session only when that is registered.
LEMMA RetiringNew ==
    ASSUME TypeOK, [Next]_vars, Retiring', NEW h \in Handle, th' = h, ~(Retiring /\ th = h)
    PROVE  ScanRetire(h) /\ Registered(h)
  BY RetireStarts DEF Retiring

\* unregister: what the daemon answers becomes the KIT in hand.
LEMMA UnregisterFacts ==
    ASSUME OriginInv, NEW p \in Proc, Unregister(p)
    PROVE  /\ pc[p] = "unregister" /\ UNCHANGED <<disk, kit, ended, faults, tpc, th>>
           /\ st'[p].handle = st[p].handle
           /\ Registered(st[p].handle) =>
                 pc'[p] = "end_save" /\ cur'[p] = reg[st[p].handle].ulid
           /\ ~Registered(st[p].handle) =>
                 pc'[p] = "revoke" /\ cur'[p] = cur[p] /\ reg' = reg
<1> USE DEF OriginInv, CoverInv, EndedInv
<1>1. st[p].ulid = cur[p] /\ pc[p] = "unregister" /\ st[p].handle \in Handle
  BY EndHolds DEF Unregister, InEnd, EndPc
<1>2. UNCHANGED <<disk, kit, ended, faults, tpc, th>>
  BY DEF Unregister, cpVars, loopVars
<1>3. /\ cur' = [cur EXCEPT ![p] = CurrentUlid(st[p].handle, st[p].ulid)]
      /\ st' = [st EXCEPT ![p].ulid = CurrentUlid(st[p].handle, st[p].ulid)]
      /\ reg' = [reg EXCEPT ![st[p].handle] = NoEntry]
  BY DEF Unregister, Take
<1>4. pc'[p] = IF Registered(st[p].handle) THEN "end_save" ELSE "revoke"
  BY DEF Unregister, Goto, TypeOK
<1>5. cur'[p] = CurrentUlid(st[p].handle, st[p].ulid) /\ st'[p].handle = st[p].handle
  BY <1>3 DEF TypeOK, State
<1>6. ~Registered(st[p].handle) => reg' = reg
  BY <1>1, <1>3 DEF TypeOK, Shape, Registered
<1> QED  BY <1>1, <1>2, <1>4, <1>5, <1>6 DEF CurrentUlid

\* A failed or unanswered unregister leaves everything in hand.
LEMMA UnansweredFacts ==
    ASSUME NEW p \in Proc, UnregisterUnacked(p) \/ UnregisterFails(p)
    PROVE  pc[p] = "unregister" /\ UNCHANGED <<disk, kit, ended, faults, tpc, th, cur, st>>
  BY DEF UnregisterUnacked, UnregisterFails, CliFrame, daemonVars, cpVars, loopVars

\* What an end loads and saves.
LEMMA EndFileFacts ==
    ASSUME OriginInv, NEW p \in Proc, EndLoad(p) \/ EndSave(p)
    PROVE  /\ UNCHANGED <<kit, ended, faults, tpc, th, reg>>
           /\ EndLoad(p) =>
                 /\ Saved(SidOf[p]) /\ File(p)' = File(p)
                 /\ cur'[p] = File(p).ulid /\ st'[p] = File(p)
           /\ EndSave(p) =>
                 /\ pc[p] = "end_save" /\ cur' = cur /\ st' = st
                 /\ File(p)'.ulid = cur[p] \/ ("persist" \in faults /\ File(p)' = File(p))
<1> USE DEF OriginInv, CoverInv, EndedInv
<1>1. UNCHANGED <<kit, ended, faults, tpc, th, reg>>
  BY DEF EndLoad, EndSave, CliFrame, cpVars, daemonVars, loopVars
<1>2. CASE EndLoad(p)
  BY <1>1, <1>2 DEF EndLoad, EndSave, File, TypeOK
<1>3. CASE EndSave(p)
  <2>1. st[p].ulid = cur[p]
    BY <1>3, EndHolds DEF EndSave, InEnd, EndPc
  <2>2. disk' = [disk EXCEPT ![SidOf[p]] = st[p]] \/ ("persist" \in faults /\ disk' = disk)
    BY <1>3 DEF EndSave, Fault
  <2>3. pc[p] = "end_save" /\ cur' = cur /\ st' = st
    BY <1>3 DEF EndSave, cliVars
  <2>4. ~EndLoad(p)
    BY <2>3 DEF EndLoad
  <2> QED  BY <1>1, <2>1, <2>2, <2>3, <2>4, SidAssumption DEF File, TypeOK
<1> QED  BY <1>2, <1>3

\* An end knows its KIT until it revokes it.
LEMMA KnownNext ==
    ASSUME SerialHooks, Survivable, OriginInv, EndParts, [Next]_vars
    PROVE  Known'
<1> USE DEF OriginInv, CoverInv, EndedInv, EndParts
<1> SUFFICES ASSUME NEW p \in Proc,
                    pc'[p] = "unregister" \/ (pc'[p] = "revoke" /\
                       ("persist" \notin faults' \/ RetiringToo(p)'))
             PROVE  Knows(p)'
  BY DEF Known
<1>0. pc'[p] \in InEnd
  BY DEF InEnd, EndPc
<1>1. CASE ~Step(p)
  <2>1. UNCHANGED <<pc[p], st[p], unregErr[p], faults>> /\ pc[p] \in InEnd
    BY <1>0, <1>1, LocalsStay, FaultsStay DEF Locals
  <2>2. CASE pc[p] = "unregister" \/ (pc[p] = "revoke" /\ "persist" \notin faults)
    BY <1>1, <2>1, <2>2, KnowsStays DEF Known
  <2>3. CASE pc[p] = "revoke" /\ RetiringToo(p)
    BY <1>1, <2>1, <2>3, KnowsStays DEF Known
  <2>4. CASE pc[p] = "revoke" /\ RetiringToo(p)' /\ ~RetiringToo(p)
    <3>1. st[p].handle \in Handle
      BY <2>1, EndHolds
    <3>2. Registered(st[p].handle)
      BY <2>1, <2>4, <3>1, RetiringNew DEF RetiringToo, Retiring
    <3>3. "persist" \notin faults
      BY <2>4, <3>2 DEF RegisteredHandles, Taken, Answered
    <3> QED  BY <2>2, <2>4, <3>3
  <2> QED  BY <2>1, <2>2, <2>3, <2>4
<1>2. CASE EndLoad(p)
  BY <1>2, EndFileFacts DEF Knows
<1>3. CASE Unregister(p) /\ pc'[p] = "revoke"
  BY <1>3, UnregisterFacts DEF Known, Knows, File, Gone
<1>4. CASE UnregisterUnacked(p) \/ UnregisterFails(p)
  BY <1>4, UnansweredFacts DEF Known, Knows, File, Gone
<1>5. CASE EndSave(p) /\ pc'[p] = "revoke"
  <2>1. ~RetiringToo(p)
    BY <1>5 DEF EndSave, TakenOnce
  <2>2. ~RetiringToo(p)' /\ faults' = faults
    BY <1>5, <2>1, EndFileFacts DEF RetiringToo, Retiring
  <2> QED  BY <1>5, <2>2, EndFileFacts DEF Knows
<1> QED  BY <1>0, <1>1, <1>2, <1>3, <1>4, <1>5, InEndMoves


\* The state file an end will remove names no other live KIT.
LEMMA FilesKnownNext ==
    ASSUME SerialHooks, Prompt, Survivable, OriginInv, EndParts, [Next]_vars
    PROVE  FilesKnown'
<1> USE DEF OriginInv, CoverInv, EndedInv, EndParts
<1> SUFFICES ASSUME NEW p \in Proc,
                    Taken(p)' \/ (pc'[p] = "unregister" /\ ~Registered(st[p].handle)')
             PROVE  FileKnown(p)'
  BY DEF FilesKnown
<1>0. pc'[p] \in InEnd
  BY DEF InEnd, EndPc, Taken
<1>1. CASE ~Step(p)
  <2>1. UNCHANGED <<pc[p], st[p], unregErr[p]>> /\ pc[p] \in InEnd
    BY <1>0, <1>1, LocalsStay DEF Locals
  <2>2. CASE Taken(p)
    BY <1>1, <2>1, <2>2, FileKnownStays DEF FilesKnown, RegisteredHandles
  <2>3. CASE ~Taken(p)
    <3>1. pc[p] = "unregister" /\ ~Registered(st[p].handle)'
      BY <2>1, <2>3 DEF Taken
    <3>2. ~Registered(st[p].handle)
      BY <1>1, <3>1, StaysIn
    <3> QED  BY <1>1, <2>1, <3>1, <3>2, FileKnownStays DEF FilesKnown
  <2> QED  BY <2>2, <2>3
<1>2. CASE EndLoad(p)
  BY <1>2, EndFileFacts DEF FileKnown
<1>3. CASE Unregister(p)
  <2>1. CASE Registered(st[p].handle)
    <3>1. st[p].handle \in Handle /\ SidOf[st[p].handle] = SidOf[p] /\ pc[p] \in InEnd
      BY <1>3, EndHolds DEF Unregister, InEnd, EndPc
    <3>2. cur'[p] = reg[st[p].handle].ulid /\ UNCHANGED <<disk, kit>>
      BY <1>3, <2>1, UnregisterFacts
    <3>3. Saved(SidOf[p]) => File(p).ulid = reg[st[p].handle].ulid \/ Gone(File(p).ulid)
      BY <2>1, <3>1 DEF Matches, Ending, File
    <3> QED  BY <3>2, <3>3 DEF FileKnown, Saved, File, Gone
  <2>2. CASE ~Registered(st[p].handle)
    <3>1. FileKnown(p)
      BY <1>3, <2>2 DEF FilesKnown, Unregister
    <3> QED
      BY <1>3, <2>2, <3>1, UnregisterFacts DEF FileKnown, Saved, File, Gone
  <2> QED  BY <2>1, <2>2
<1>4. CASE EndSave(p)
  <2>1. FileKnown(p)
    BY <1>4 DEF FilesKnown, EndSave, Taken
  <2> QED  BY <1>4, <2>1, EndFileFacts DEF FileKnown, Saved, File, Gone
<1>5. CASE EndRevoke(p) /\ ~unregErr[p]
  <2>1. FileKnown(p) /\ UNCHANGED <<disk, cur>>
    BY <1>5 DEF FilesKnown, EndRevoke, Taken
  <2>2. Saved(SidOf[p]) => File(p).ulid \in Kit
    BY SidAssumption DEF Saved, File, TypeOK, State
  <2> QED  BY <2>1, <2>2, GoneStays DEF FileKnown, Saved, File, Gone
<1>6. ~(pc'[p] = "revoke" /\ unregErr'[p])
  BY DEF Taken
<1> QED  BY <1>0, <1>1, <1>2, <1>3, <1>4, <1>5, <1>6, InEndMoves

\* A session is taken from the registry once, and is not ended before that.
LEMMA TakenOnceNext ==
    ASSUME SerialHooks, OriginInv, EndParts, [Next]_vars
    PROVE  TakenOnce'
<1> USE DEF OriginInv, CoverInv, EndedInv, EndParts
<1> SUFFICES ASSUME NEW p \in Proc, pc'[p] = "end_save"
             PROVE  st'[p].handle \notin ended' /\ ~RetiringToo(p)'
  BY DEF TakenOnce
<1>1. CASE ~Step(p)
  <2>1. pc[p] = "end_save" /\ st'[p] = st[p] /\ pc[p] \in InEnd
    BY <1>1, LocalsStay DEF Locals, InEnd, EndPc
  <2>2. /\ st[p].handle \notin ended /\ ~RetiringToo(p) /\ Taken(p)
        /\ ~Registered(st[p].handle)
    BY <2>1 DEF TakenOnce, RegisteredHandles, Taken
  <2>3. st[p].handle \in Handle /\ SidOf[st[p].handle] = SidOf[p] /\ Active(p)
    BY <2>1, EndHolds
  <2>4. st[p].handle \notin ended'
    BY <1>1, <2>2, <2>3, EndedAlone DEF RetiringToo, Retiring, RetireRemove
  <2>5. ~RetiringToo(p)'
    BY <2>1, <2>2, <2>3, RetiringNew DEF RetiringToo, Retiring
  <2> QED  BY <2>1, <2>4, <2>5
<1>2. CASE Step(p)
  <2>1. Unregister(p)
    BY <1>2, InEndMoves DEF InEnd, EndPc
  <2>2. Registered(st[p].handle) /\ UNCHANGED <<ended, tpc, th>>
        /\ st'[p].handle = st[p].handle
    BY <2>1, UnregisterFacts
  <2> QED  BY <2>2 DEF EndedHandles, RegisteredHandles, RetiringToo, Retiring
<1> QED  BY <1>1, <1>2

\* A retirement that ends the session under an end has revoked its KIT.
LEMMA EndedSpentNext ==
    ASSUME SerialHooks, Survivable, OriginInv, EndParts, [Next]_vars
    PROVE  EndedSpent'
<1> USE DEF OriginInv, CoverInv, EndedInv, EndParts
<1> SUFFICES ASSUME NEW p \in Proc, pc'[p] \in {"unregister", "revoke"},
                    st'[p].handle \in ended'
             PROVE  Gone(cur[p])'
  BY DEF EndedSpent, Gone
<1>0. pc'[p] \in InEnd
  BY DEF InEnd, EndPc
<1>1. CASE ~Step(p)
  <2>1. UNCHANGED <<pc[p], cur[p], st[p]>> /\ pc[p] \in InEnd
    BY <1>0, <1>1, LocalsStay DEF Locals
  <2>2. /\ st[p].handle \in Handle /\ SidOf[st[p].handle] = SidOf[p] /\ Active(p)
        /\ cur[p] \in Kit
    BY <2>1, EndHolds
  <2>3. CASE st[p].handle \in ended
    <3>1. Gone(cur[p])
      BY <2>1, <2>3 DEF EndedSpent
    <3> QED  BY <2>1, <2>2, <3>1, GoneStays DEF Gone
  <2>4. CASE st[p].handle \notin ended
    <3>1. RetireRemove /\ th = st[p].handle
      BY <1>1, <2>1, <2>2, <2>4, EndedAlone
    <3>2. Knows(p)
      BY <2>1, <3>1 DEF Known, RetiringToo, Retiring, RetireRemove
    <3>3. Knows(p)'
      BY <1>1, <2>1, <3>2, KnowsStays
    <3>4. disk' = [disk EXCEPT ![SidOf[th]] = NoState]
      BY <3>1 DEF RetireRemove
    <3>5. File(p)'.ulid = None
      BY <2>2, <3>1, <3>4, SidAssumption DEF File, NoState, TypeOK
    <3> QED  BY <2>1, <2>2, <3>3, <3>5, NoneAssumption DEF Knows
  <2> QED  BY <2>3, <2>4
<1>2. CASE EndLoad(p)
  <2>1. Saved(SidOf[p]) /\ st'[p] = disk[SidOf[p]] /\ ended' = ended
    BY <1>2, EndFileFacts DEF File
  <2> QED  BY <2>1, SidAssumption DEF EndedOff
<1>3. CASE Unregister(p)
  <2>1. ~Registered(st[p].handle)
    BY <1>3, UnregisterFacts DEF EndedHandles
  <2> QED  BY <1>3, <2>1, UnregisterFacts DEF EndedSpent, Gone
<1>4. CASE UnregisterUnacked(p) \/ UnregisterFails(p)
  BY <1>4, UnansweredFacts DEF EndedSpent, Gone
<1>5. CASE EndSave(p)
  BY <1>5, EndFileFacts DEF TakenOnce
<1> QED  BY <1>0, <1>1, <1>2, <1>3, <1>4, <1>5, InEndMoves

\* How a start comes to remove its state file.
LEMMA RollbackMoves ==
    ASSUME TypeOK, NEW p \in Proc, Step(p), pc'[p] = "rollback_remove"
    PROVE  p \in Handle /\ (RollbackRegister(p) \/ RollbackRevoke(p))
<1> USE DEF Goto, TypeOK, cliVars
<1>1. CASE EndStep(p) \/ Launch(p) \/ Kill(p)
  BY <1>1 DEF EndStep, EndLoad, EndNoState, EndFails, Unregister, UnregisterUnacked,
     UnregisterFails, EndSave, EndRevoke, EndRevokeFails, EndRemove, Launch, Kill
<1>2. CASE p \in Handle /\ StartStep(p)
  BY <1>2 DEF StartStep, StartLoad, Mint, MintRefused, MintLost, Routes, RoutesRejected,
       Save, SaveFails, Register, RegisterUnacked, RegisterFails,
       RollbackRetained, RollbackRemove, OwnerLoad, OwnerSave,
       OwnerSend, OwnerSendFails, AfterOwner
<1>3. CASE RunStep(p)
  BY <1>3 DEF RunStep, Spawn, SpawnFails, RunEnds
<1> QED  BY <1>1, <1>2, <1>3 DEF Step

\* State files are removed after the revocation.
LEMMA RemoveSpentNext ==
    ASSUME Survivable, OriginInv, EndParts, [Next]_vars
    PROVE  RemoveSpent'
<1> USE DEF OriginInv, CoverInv, EndedInv, EndParts
<1> SUFFICES ASSUME NEW p \in Proc, pc'[p] \in {"end_remove", "rollback_remove"}
             PROVE  Gone(cur[p])'
  BY DEF RemoveSpent, Gone
<1>1. ASSUME pc[p] \in InEnd \cup Minted PROVE cur[p] \in Kit /\ kit[cur[p]] # "unused"
  BY <1>1, EndHolds DEF Fresh
<1>2. CASE ~Step(p)
  <2>1. UNCHANGED <<pc[p], cur[p]>>
    BY <1>2, LocalsStay DEF Locals
  <2>2. cur[p] \in Kit /\ Gone(cur[p])
    BY <1>1, <2>1 DEF RemoveSpent, InEnd, EndPc, Minted, RollbackPc
  <2> QED  BY <2>1, <2>2, GoneStays DEF Gone
<1>3. CASE EndRevoke(p)
  <2>1. kit' = Revoked(cur[p]) /\ cur' = cur /\ pc[p] \in InEnd
    BY <1>3 DEF EndRevoke, InEnd, EndPc
  <2> QED  BY <1>1, <2>1, RevokedIsGone DEF Gone
<1>4. CASE RollbackRegister(p) \/ RollbackRevoke(p)
  <2>1. kit' = Revoked(cur[p]) /\ cur' = cur /\ pc[p] \in Minted
    BY <1>4 DEF RollbackRegister, RollbackRevoke, Fault, Survivable, cliVars, Minted, RollbackPc
  <2> QED  BY <1>1, <2>1, RevokedIsGone DEF Gone
<1> QED
  BY <1>2, <1>3, <1>4, InEndMoves, RollbackMoves DEF InEnd, EndPc


\* Only an end removes the state file of a session being retired.
LEMMA RetiredFile ==
    ASSUME OriginInv, TakenOnce, [Next]_vars, Retiring, File(th)' # File(th), Retiring',
           th' = th
    PROVE  \E p \in Proc : EndRemove(p) /\ SidOf[p] = SidOf[th] /\ File(th)' = NoState
<1> USE SidAssumption DEF OriginInv, CoverInv, EndedInv, File, TypeOK
<1>1. th \in Handle /\ th \in Runner /\ ~Unwatched(th) /\ th \in Proc
  <2>1. th \in Handle
    BY DEF Retiring, Shape
  <2> QED  BY <2>1 DEF Watched, Unwatched, Handle, Proc
<1>2. ASSUME NEW p \in Handle, Save(p) \/ RollbackRemove(p) \/ OwnerSave(p) PROVE FALSE
  <2>1. SidOf[p] = SidOf[th]
    BY <1>1, <1>2 DEF Save, RollbackRemove, OwnerSave, Handle, Proc
  <2>2. p = th
    BY <1>1, <2>1, RunnerSidAssumption
  <2> QED
    BY <1>1, <1>2, <2>2 DEF Save, RollbackRemove, OwnerSave, Watched, Minted, RollbackPc
<1>3. ASSUME NEW p \in Proc, EndSave(p) PROVE FALSE
  <2>1. disk' = [disk EXCEPT ![SidOf[p]] = st[p]] \/ disk' = disk
    BY <1>3 DEF EndSave
  <2>2. SidOf[p] = SidOf[th] /\ pc[p] = "end_save"
    BY <1>1, <1>3, <2>1 DEF EndSave
  <2>3. st[p].handle \in Handle /\ SidOf[st[p].handle] = SidOf[th]
    BY <2>2, EndHolds DEF InEnd, EndPc
  <2>4. st[p].handle = th
    BY <1>1, <2>3, RunnerSidAssumption
  <2> QED  BY <2>2, <2>4 DEF TakenOnce, RetiringToo
<1>4. ~RenewSwap /\ ~RetireRemove
  BY DEF RenewSwap, RetireRemove, Retiring, NextSession
<1>5. ASSUME NEW p \in Proc, EndRemove(p)
      PROVE  SidOf[p] = SidOf[th] /\ File(th)' = NoState
  BY <1>1, <1>5 DEF EndRemove
<1> QED  BY <1>2, <1>3, <1>4, <1>5, DiskWriters

\* The loop's revocation, and what it keeps in hand around it.
LEMMA RetireMoves ==
    ASSUME OriginInv, [Next]_vars, Retiring, Retiring', th' = th
    PROVE  tkit' = tkit /\ (tpc' = tpc \/ (RetireRevoke /\ tpc' = "retire_remove"))
<1>1. CASE UNCHANGED <<up, loopVars>>
  BY <1>1 DEF loopVars
<1>2. CASE LoopStep
  BY <1>2 DEF LoopStep, ScanStep, Tick, TickDone, ScanSkip, ScanOwnerGone, InScan,
       ScanRetire, ScanRenew, RenewCreate, RenewRefused, RenewLost, RenewRoutes,
       RenewSwap, RenewDiscard, RetireRevoke, RetireRevokeFails, RetireRemove,
       NextSession, Retiring
<1>3. CASE DaemonCrash \/ DaemonStart
  BY <1>3 DEF DaemonCrash, DaemonStart, Retiring, loopVars
<1> QED  BY <1>1, <1>2, <1>3, LoopAlone

\* A retirement takes a session whose state file names the KIT it took, and
\* revokes that before it removes the file.
LEMMA RetireKnowsNext ==
    ASSUME OriginInv, EndParts, [Next]_vars
    PROVE  RetireKnows'
<1> USE NoneAssumption, SidAssumption DEF OriginInv, CoverInv, EndedInv, EndParts
<1> SUFFICES ASSUME Retiring'
             PROVE  /\ Saved(SidOf[th])' => File(th)'.ulid = tkit' \/ Gone(File(th).ulid)'
                    /\ tpc' = "retire_remove" => Gone(tkit)'
                    /\ "persist" \notin faults' => File(th)'.ulid = tkit' \/ Gone(tkit)'
  BY DEF RetireKnows
<1>0. faults' = faults
  BY FaultsStay
<1>1. ASSUME NEW h \in Handle, ScanRetire(h), Registered(h), th' = h
      PROVE  /\ Saved(SidOf[th])' => File(th)'.ulid = tkit' \/ Gone(File(th).ulid)'
             /\ tpc' # "retire_remove"
             /\ "persist" \notin faults => File(th)'.ulid = tkit' \/ Gone(tkit)'
  <2>1. tkit' = reg[h].ulid /\ tpc' = "retire_revoke" /\ UNCHANGED <<disk, kit>>
    BY <1>1 DEF ScanRetire, cpVars
  <2>2. h \in Runner
    BY <1>1 DEF ScanRetire, OwnerGone, Watched, Unwatched
  <2>3. Saved(SidOf[h]) => File(h).handle = h
    <3> SUFFICES ASSUME Saved(SidOf[h]) PROVE File(h).handle = h
      OBVIOUS
    <3>1. SidOf[h] \in Sid
      BY DEF Handle, Proc
    <3>2. File(h).handle \in Handle /\ SidOf[File(h).handle] = SidOf[h]
      BY <3>1 DEF SavedHandles, File
    <3> QED  BY <2>2, <3>2, RunnerSidAssumption
  <2>4. Saved(SidOf[h]) => File(h).ulid = reg[h].ulid \/ Gone(File(h).ulid)
    BY <1>1, <2>3 DEF Matches
  <2>5. "persist" \notin faults => File(h).ulid = reg[h].ulid \/ Gone(reg[h].ulid)
    BY <1>1 DEF Covered, Gone
  <2> QED  BY <1>1, <2>1, <2>4, <2>5 DEF Saved, File, Gone
<1>2. CASE Retiring /\ th' = th
  <2>1. th \in Handle /\ tkit \in Kit /\ kit[tkit] # "unused" /\ th # None
    BY <1>2 DEF Retiring, Shape, LoopKit, TypeOK, Carried, Origins, Handle, Proc
  <2>2. tkit' = tkit /\ (tpc' = tpc \/ (RetireRevoke /\ tpc' = "retire_remove"))
    BY <1>2, RetireMoves
  <2>3. tpc' = "retire_remove" => Gone(tkit)'
    <3>1. CASE RetireRevoke
      <4>1. kit' = Revoked(tkit)
        BY <3>1 DEF RetireRevoke
      <4> QED  BY <2>1, <2>2, <4>1, RevokedIsGone DEF Gone
    <3>2. CASE tpc' = tpc
      BY <1>2, <2>1, <2>2, <3>2, GoneStays DEF RetireKnows, Gone
    <3> QED  BY <2>2, <3>1, <3>2
  <2>4. CASE File(th)' = File(th)
    <3>1. Saved(SidOf[th]) => File(th).ulid \in Kit
      BY <2>1 DEF Saved, File, TypeOK, State, Handle, Proc
    <3>2. ASSUME NEW k \in Kit, Gone(k) PROVE kit'[k] = kit[k]
      BY <3>2, GoneStays
    <3>3. Saved(SidOf[th])' => File(th)'.ulid = tkit' \/ Gone(File(th).ulid)'
      BY <1>2, <2>2, <2>4, <3>1, <3>2 DEF RetireKnows, Gone, Saved, File
    <3>4. "persist" \notin faults => File(th)'.ulid = tkit' \/ Gone(tkit)'
      BY <1>2, <2>1, <2>2, <2>4, <3>2 DEF RetireKnows, Gone
    <3> QED  BY <1>0, <2>3, <3>3, <3>4
  <2>5. CASE File(th)' # File(th)
    <3>1. PICK p \in Proc : EndRemove(p) /\ SidOf[p] = SidOf[th] /\ File(th)' = NoState
      BY <1>2, <2>5, RetiredFile
    <3>2. Gone(cur[p]) /\ FileKnown(p)
      BY <3>1 DEF EndRemove, RemoveSpent, FilesKnown, Taken
    <3>3. ~Saved(SidOf[th])'
      BY <1>2, <3>1 DEF Saved, File, NoState
    <3>4. ASSUME "persist" \notin faults PROVE Gone(tkit)
      BY <1>2, <2>1, <3>1, <3>2, <3>4 DEF RetireKnows, FileKnown, Saved, File
    <3>5. "persist" \notin faults => Gone(tkit)'
      BY <2>1, <2>2, <3>4, GoneStays DEF Gone
    <3> QED  BY <1>0, <2>3, <3>3, <3>5
  <2> QED  BY <2>4, <2>5
<1> QED  BY <1>0, <1>1, <1>2, RetireStarts DEF Retiring


\* Which handle a step puts into a state file.
LEMMA FileNames ==
    ASSUME OriginInv, EndParts, [Next]_vars, NEW s \in Sid, Saved(s)', disk'[s] # disk[s]
    PROVE  disk'[s].handle \in Handle /\ disk'[s].handle \notin ended /\ ended' = ended
<1> USE NoneAssumption, SidAssumption DEF OriginInv, CoverInv, EndedInv, EndParts, TypeOK
<1>1. ASSUME NEW p \in Handle, Save(p) \/ OwnerSave(p)
      PROVE  disk'[s].handle = p /\ p \notin ended /\ ended' = ended
  <2>1. p \in Proc /\ pc[p] \in Minted
    BY <1>1 DEF Save, OwnerSave, Minted, Handle, Proc
  <2>2. p \notin ended /\ ended' = ended
    BY <1>1, <2>1 DEF Save, OwnerSave, CliFrame, EndedOff
  <2>3. CASE Save(p)
    BY <2>1, <2>2, <2>3 DEF Save
  <2>4. CASE OwnerSave(p)
    BY <2>1, <2>2, <2>4 DEF OwnerSave, Owned
  <2> QED  BY <1>1, <2>3, <2>4
<1>2. ASSUME NEW p \in Proc, EndSave(p)
      PROVE  disk'[s].handle = st[p].handle /\ st[p].handle \in Handle
             /\ st[p].handle \notin ended /\ ended' = ended
  <2>1. disk' = [disk EXCEPT ![SidOf[p]] = st[p]] \/ disk' = disk
    BY <1>2 DEF EndSave
  <2>2. disk'[s] = st[p] /\ ended' = ended /\ pc[p] = "end_save"
    BY <1>2, <2>1 DEF EndSave, CliFrame
  <2> QED  BY <2>2, EndHolds DEF TakenOnce, InEnd, EndPc
<1>3. ASSUME NEW p \in Proc, RollbackRemove(p) \/ EndRemove(p) PROVE FALSE
  BY <1>3 DEF RollbackRemove, EndRemove, NoState, Saved
<1>4. ASSUME RenewSwap
      PROVE  disk'[s].handle = th /\ th \in Handle /\ th \notin ended /\ ended' = ended
  <2>1. StillExpected(th, todo[th].ulid)
    BY <1>4, NoSwap
  <2>2. th \in Handle /\ Registered(th) /\ ended' = ended
        /\ disk' = [disk EXCEPT ![SidOf[th]] = RenewedState(th)]
    BY <1>4, <2>1, SwapFacts DEF RenewSwap
  <2> QED  BY <2>2 DEF RenewedState, EndedHandles, Handle, Proc
<1>5. ~RetireRemove
  BY DEF RetireRemove, NoState, Saved
<1> QED  BY <1>1, <1>2, <1>3, <1>4, <1>5, DiskWriters DEF Handle, Proc

\* An end and a retirement remove the state file of the session they end.
LEMMA EndedFiles ==
    ASSUME OriginInv, [Next]_vars, NEW h \in Handle, h \in ended', h \notin ended
    PROVE  ~Saved(SidOf[h])'
<1> USE NoneAssumption, SidAssumption DEF OriginInv, CoverInv, EndedInv, TypeOK
<1>1. ASSUME NEW p \in Proc, EndRemove(p) PROVE ~Saved(SidOf[h])'
  <2>1. st[p].handle = h /\ SidOf[h] = SidOf[p]
    BY <1>1, EndHolds DEF EndRemove, InEnd, EndPc
  <2> QED  BY <1>1, <2>1 DEF EndRemove, Saved, NoState
<1>2. CASE RetireRemove
  BY <1>2 DEF RetireRemove, Saved, NoState, Handle, Proc
<1> QED  BY <1>1, <1>2, EndedWriters

\* So no state file and no start is about an ended session.
LEMMA EndedOffNext ==
    ASSUME SerialHooks, OriginInv, EndParts, [Next]_vars
    PROVE  EndedOff'
<1> USE NoneAssumption, SidAssumption DEF OriginInv, CoverInv, EndedInv, EndParts
<1>1. ASSUME NEW s \in Sid, Saved(s)' PROVE disk'[s].handle \notin ended'
  <2>1. CASE disk'[s] = disk[s]
    <3>1. disk[s].handle \notin ended /\ disk[s].handle \in Handle
          /\ SidOf[disk[s].handle] = s
      BY <1>1, <2>1 DEF EndedOff, Saved, SavedHandles
    <3> QED  BY <1>1, <2>1, <3>1, EndedFiles
  <2>2. CASE disk'[s] # disk[s]
    BY <1>1, <2>2, FileNames
  <2> QED  BY <2>1, <2>2
<1>2. ASSUME NEW p \in Proc, pc'[p] \in Minted PROVE p \notin ended'
  <2>1. p \in Handle /\ p \notin ended
    BY <1>2, MintedSteps DEF Mint, EndedHandles, PreRegister, PreSave, EndedOff, Starting
  <2>2. ASSUME p \in ended' PROVE FALSE
    <3>1. CASE RetireRemove
      <4>1. th = p /\ pc' = pc /\ Retiring
        BY <2>1, <2>2, <3>1 DEF RetireRemove, LoopFrame, Retiring
      <4> QED  BY <1>2, <2>1, <4>1 DEF Watched, Unwatched
    <3>2. ASSUME NEW q \in Proc, EndRemove(q) PROVE FALSE
      <4>1. st[q].handle = p /\ pc[q] = "end_remove" /\ pc'[q] \in {"mint", "done"}
            /\ (q # p => pc'[p] = pc[p])
        BY <2>1, <2>2, <3>2 DEF EndRemove, Goto, TypeOK
      <4>2. SidOf[q] = SidOf[p]
        BY <4>1, EndHolds DEF InEnd, EndPc
      <4>3. q # p /\ pc[p] \in Minted
        BY <1>2, <4>1 DEF Minted, RollbackPc
      <4> QED  BY <4>1, <4>2, <4>3 DEF Serial, Active, FinalPc, Minted, RollbackPc
    <3> QED  BY <2>1, <2>2, <3>1, <3>2, EndedWriters
  <2> QED  BY <2>2
<1> QED  BY <1>1, <1>2 DEF EndedOff


(* A live KIT passes from one holder to the next: the registry ...           *)
LEMMA HeldRegistry ==
    ASSUME Survivable, OriginInv, EndParts, [Next]_vars,
           NEW k \in Kit, Live(k), Live(k)', NEW h \in Handle, reg[h].ulid = k
    PROVE  Held(k)'
<1> USE NoneAssumption, SidAssumption DEF OriginInv, CoverInv, EndedInv, TypeOK
<1>1. SUFFICES ASSUME reg'[h].ulid # k PROVE Held(k)'
  BY DEF Held
<1>2. Registered(h) /\ ~PreRegister(h) /\ h \in Proc /\ SidOf[h] \in Sid
  BY DEF Registered, RegisteredHandles, Handle, Proc
<1>3. ASSUME NEW p \in Handle, Register(p) \/ RegisterUnacked(p) PROVE FALSE
  <2>1. p = h
    BY <1>1, <1>3 DEF Register, RegisterUnacked
  <2> QED  BY <1>2, <1>3, <2>1 DEF Register, RegisterUnacked, PreRegister
<1>4. ASSUME NEW p \in Handle, OwnerSend(p) PROVE FALSE
  BY <1>1, <1>4 DEF OwnerSend, Entry
<1>5. ASSUME NEW p \in Proc, Unregister(p) PROVE Held(k)'
  <2>1. st[p].handle = h
    BY <1>1, <1>5 DEF Unregister, Take
  <2>2. pc'[p] = "end_save" /\ cur'[p] = k
    BY <1>2, <1>5, <2>1, UnregisterFacts
  <2> QED  BY <2>2 DEF Held
<1>6. ASSUME NEW p \in Proc, UnregisterUnacked(p) PROVE Held(k)'
  <2>1. "persist" \notin faults /\ disk' = disk
    BY <1>6 DEF UnregisterUnacked, Fault, Survivable
  <2>2. File(h).ulid = k
    BY <1>2, <2>1 DEF Covered, Live
  <2> QED  BY <1>2, <2>1, <2>2 DEF Held, File
<1>7. ASSUME NEW x \in Handle, ScanRetire(x) PROVE Held(k)'
  <2>1. x = h
    BY <1>1, <1>7 DEF ScanRetire, Take
  <2>2. tkit' = k
    BY <1>2, <1>7, <2>1 DEF ScanRetire
  <2> QED  BY <2>2 DEF Held
<1>8. ASSUME RenewSwap PROVE FALSE
  <2>1. StillExpected(th, todo[th].ulid)
    BY <1>1, <1>8, NoSwap
  <2>2. th = h
    BY <1>1, <1>8, <2>1, SwapFacts
  <2> QED  BY <1>8, <2>1, <2>2, SwapFacts DEF Live
<1>9. ~DaemonCrash
  BY DEF DaemonCrash, Fault, Survivable
<1> QED
  BY <1>1, <1>3, <1>4, <1>5, <1>6, <1>7, <1>8, <1>9, RegistryWriters

(* ... the state file ...                                                    *)
LEMMA HeldFile ==
    ASSUME OriginInv, EndParts, [Next]_vars,
           NEW k \in Kit, Live(k), Live(k)', NEW s \in Sid, disk[s].ulid = k
    PROVE  Held(k)'
<1> USE NoneAssumption, SidAssumption DEF OriginInv, CoverInv, EndedInv, EndParts, TypeOK
<1>1. SUFFICES ASSUME disk'[s].ulid # k PROVE FALSE
  BY DEF Held
<1>2. Saved(s) /\ ~Gone(k)
  BY DEF Saved, Live, Gone
<1>3. ASSUME NEW p \in Handle, Save(p) PROVE FALSE
  <2>1. SidOf[p] = s /\ p \in Proc
    BY <1>1, <1>3 DEF Save, Handle, Proc
  <2> QED  BY <1>2, <1>3, <2>1 DEF Save, Unclaimed, Claiming
<1>4. ASSUME NEW p \in Handle, RollbackRemove(p) PROVE FALSE
  <2>1. SidOf[p] = s /\ p \in Proc /\ pc[p] = "rollback_remove"
    BY <1>1, <1>4 DEF RollbackRemove, Handle, Proc
  <2> QED  BY <1>2, <2>1 DEF Owned, Owns, File, RemoveSpent
<1>5. ASSUME NEW p \in Handle, OwnerSave(p) PROVE FALSE
  <2>1. SidOf[p] = s /\ p \in Proc /\ disk'[s] = st[p] /\ pc[p] = "owner_save"
    BY <1>1, <1>5 DEF OwnerSave, Handle, Proc
  <2> QED  BY <1>1, <2>1 DEF Owned, Owns, File, OnDisk
<1>6. ASSUME NEW p \in Proc, EndSave(p) PROVE FALSE
  <2>1. disk' = [disk EXCEPT ![SidOf[p]] = st[p]] \/ disk' = disk
    BY <1>6 DEF EndSave
  <2>2. SidOf[p] = s /\ disk'[s] = st[p] /\ pc[p] = "end_save"
    BY <1>1, <1>6, <2>1 DEF EndSave
  <2>3. st[p].ulid = cur[p] /\ FileKnown(p)
    BY <2>2, EndHolds DEF FilesKnown, Taken, InEnd, EndPc
  <2> QED  BY <1>1, <1>2, <2>2, <2>3 DEF FileKnown, File
<1>7. ASSUME NEW p \in Proc, EndRemove(p) PROVE FALSE
  <2>1. SidOf[p] = s /\ pc[p] = "end_remove"
    BY <1>1, <1>7 DEF EndRemove
  <2>2. Gone(cur[p]) /\ FileKnown(p)
    BY <2>1 DEF FilesKnown, RemoveSpent, Taken
  <2> QED  BY <1>2, <2>1, <2>2 DEF FileKnown, File
<1>8. ASSUME RenewSwap PROVE FALSE
  <2>1. StillExpected(th, todo[th].ulid)
    BY <1>1, <1>8, NoSwap
  <2>2. /\ th \in Handle /\ Registered(th) /\ Saved(SidOf[th]) /\ File(th).handle = th
        /\ kit[reg[th].ulid] = "replaced"
        /\ disk' = [disk EXCEPT ![SidOf[th]] = RenewedState(th)] \/ disk' = disk
    BY <1>8, <2>1, SwapFacts
  <2>3. SidOf[th] = s
    BY <1>1, <2>2 DEF Handle, Proc
  <2> QED  BY <1>2, <2>2, <2>3 DEF Matches, File, Gone
<1>9. ASSUME RetireRemove PROVE FALSE
  <2>1. th \in Handle /\ Retiring /\ tpc = "retire_remove"
    BY <1>9 DEF RetireRemove, Retiring, Shape
  <2>2. SidOf[th] = s
    BY <1>1, <1>9, <2>1 DEF RetireRemove, Handle, Proc
  <2> QED  BY <1>2, <2>1, <2>2 DEF RetireKnows, File
<1> QED
  BY <1>1, <1>3, <1>4, <1>5, <1>6, <1>7, <1>8, <1>9, DiskWriters

(* ... the loop ...                                                          *)
LEMMA HeldLoop ==
    ASSUME Survivable, OriginInv, EndParts, [Next]_vars,
           NEW k \in Kit, Live(k), Live(k)', tkit = k
    PROVE  Held(k)'
<1> USE NoneAssumption, SidAssumption DEF OriginInv, CoverInv, EndedInv, EndParts, TypeOK
<1>1. SUFFICES ASSUME tkit' # k PROVE Held(k)'
  BY DEF Held
<1>2. /\ tpc \notin {"wait", "scan", "renew_create"} /\ ~Gone(k)
      /\ th \in Handle /\ SidOf[th] \in Sid
  BY DEF LoopKit, Carried, Live, Gone, Handle, Proc
<1>3. CASE RenewSwap
  <2>1. StillExpected(th, todo[th].ulid)
    BY <1>1, <1>3, NoSwap
  <2>2. th \in Handle /\ reg'[th].ulid = k
    BY <1>3, <2>1, SwapFacts
  <2> QED  BY <2>2 DEF Held
<1>4. CASE RenewDiscard
  <2>1. kit' = Revoked(k)
    BY <1>4 DEF RenewDiscard, Fault, Survivable
  <2> QED  BY <2>1 DEF Revoked, Live
<1>5. CASE RetireRevokeFails
  <2>1. "persist" \notin faults /\ disk' = disk /\ Retiring
    BY <1>5 DEF RetireRevokeFails, Fault, Survivable, Retiring
  <2>2. File(th).ulid = k
    BY <1>2, <2>1 DEF RetireKnows
  <2> QED  BY <1>2, <2>1, <2>2 DEF Held, File
<1>6. CASE RetireRemove
  BY <1>2, <1>6 DEF RetireRemove, RetireKnows, Retiring
<1>7. ~DaemonCrash
  BY DEF DaemonCrash, Fault, Survivable
<1>8. CASE UNCHANGED <<up, loopVars>> \/ DaemonStart
  BY <1>1, <1>8 DEF DaemonStart, loopVars
<1>9. CASE LoopStep /\ ~RenewSwap /\ ~RenewDiscard /\ ~RetireRevokeFails /\ ~RetireRemove
  BY <1>1, <1>2, <1>9 DEF LoopStep, ScanStep, Tick, TickDone, ScanSkip, ScanOwnerGone,
     InScan, ScanRetire, ScanRenew, RenewCreate, RenewRefused, RenewLost, RenewRoutes,
     RetireRevoke
<1> QED  BY <1>3, <1>4, <1>5, <1>6, <1>7, <1>8, <1>9, LoopAlone


(* ... a start or an end ...                                                 *)
Holding == {"routes", "save", "register", "end_save", "revoke"} \cup RollbackPc

LEMMA HeldProcess ==
    ASSUME Survivable, OriginInv, EndParts, [Next]_vars,
           NEW k \in Kit, Live(k), Live(k)',
           NEW p \in Proc, cur[p] = k, pc[p] \in Holding
    PROVE  Held(k)'
<1> USE NoneAssumption, SidAssumption DEF OriginInv, CoverInv, EndedInv, EndParts, TypeOK
<1> DEFINE Keeps == cur'[p] = k /\ pc'[p] \in Holding
<1>1. ASSUME Keeps PROVE Held(k)'
  BY <1>1 DEF Held, Holding
<1>2. CASE ~Step(p)
  <2>1. Keeps
    BY <1>2, LocalsStay DEF Locals
  <2> QED  BY <1>1, <2>1
<1>3. ~Gone(k) /\ ~Kill(p)
  BY DEF Live, Gone, Kill, Fault, Survivable
<1>4. CASE EndStep(p)
  <2>1. CASE EndSave(p)
    <3>1. Keeps
      BY <2>1 DEF EndSave, Goto, cliVars, Holding
    <3> QED  BY <1>1, <3>1
  <2>2. CASE EndRevoke(p)
    <3>1. kit' = Revoked(k)
      BY <2>2 DEF EndRevoke
    <3> QED  BY <3>1 DEF Revoked, Live
  <2>3. CASE EndRevokeFails(p)
    <3>1. CASE kit' = Revoked(k)
      BY <3>1 DEF Revoked, Live
    <3>2. CASE kit' # Revoked(k)
      <4>1. "persist" \notin faults /\ disk' = disk /\ pc[p] = "revoke"
        BY <2>3, <3>2 DEF EndRevokeFails, Fault, Survivable
      <4>2. File(p).ulid = k
        BY <1>3, <4>1 DEF Known, Knows
      <4> QED  BY <4>1, <4>2 DEF Held, File
    <3> QED  BY <3>1, <3>2
  <2> QED
    BY <1>4, <2>1, <2>2, <2>3 DEF EndStep, EndLoad, EndNoState, Unregister,
       UnregisterUnacked, UnregisterFails, EndRemove, Holding, RollbackPc
<1>5. CASE p \in Handle /\ StartStep(p)
  <2>1. CASE Register(p) \/ RegisterUnacked(p)
    <3>1. reg'[p].ulid = k
      BY <1>5, <2>1 DEF Register, RegisterUnacked
    <3> QED  BY <1>5, <3>1 DEF Held
  <2>2. CASE RollbackRevoke(p) \/ RollbackRegister(p)
    <3>1. kit' = Revoked(k)
      BY <2>2 DEF RollbackRevoke, RollbackRegister, Fault, Survivable
    <3> QED  BY <3>1 DEF Revoked, Live
  <2>3. CASE RollbackRetained(p)
    <3>1. File(p).ulid = k /\ disk' = disk
      BY <2>3 DEF RollbackRetained, Owned, Owns, OnDisk
    <3> QED  BY <3>1 DEF Held, File
  <2>4. CASE RollbackRemove(p)
    BY <1>3, <2>4 DEF RollbackRemove, RemoveSpent
  <2>5. CASE Routes(p) \/ RoutesRejected(p) \/ Save(p) \/ SaveFails(p) \/ RegisterFails(p)
    <3>1. Keeps
      BY <2>5 DEF Routes, RoutesRejected, Save, SaveFails, RegisterFails, Goto, cliVars,
         Holding, RollbackPc
    <3> QED  BY <1>1, <3>1
  <2> QED
    BY <1>5, <2>1, <2>2, <2>3, <2>4, <2>5 DEF StartStep, StartLoad, Mint, MintRefused,
       MintLost, OwnerLoad, OwnerSave, OwnerSend, OwnerSendFails, Holding, RollbackPc
<1>6. CASE RunStep(p) \/ Launch(p)
  BY <1>6 DEF RunStep, Spawn, SpawnFails, RunEnds, Launch, Holding, RollbackPc
<1> QED  BY <1>2, <1>3, <1>4, <1>5, <1>6 DEF Step

(* ... and the one that obtains it.                                          *)
LEMMA HeldNew ==
    ASSUME Survivable, OriginInv, [Next]_vars, NEW k \in Kit, ~Live(k), Live(k)'
    PROVE  Held(k)'
<1> USE NoneAssumption DEF OriginInv, CoverInv, EndedInv, TypeOK, Live
<1>1. ASSUME NEW x \in Kit \cup {None}, kit' = Revoked(x) PROVE FALSE
  BY <1>1 DEF Revoked
<1>2. ASSUME NEW p \in Handle, NEW n \in Kit, MintFor(p, n),
             Mint(p) /\ cur' = [cur EXCEPT ![p] = n]
      PROVE  Held(k)'
  <2>1. n = k
    BY <1>2 DEF MintFor
  <2>2. p \in Proc /\ cur'[p] = k /\ pc'[p] = "routes"
    BY <1>2, <2>1 DEF Mint, Goto, Handle, Proc
  <2> QED  BY <2>2 DEF Held
<1>3. ASSUME NEW n \in Kit, ReplaceKit(todo[th].ulid, n), tkit' = n PROVE Held(k)'
  <2>1. n = k
    BY <1>3 DEF ReplaceKit, cpVars
  <2> QED  BY <1>3, <2>1 DEF Held
<1>4. ASSUME NEW p \in Handle, MintLost(p) PROVE FALSE
  BY <1>4 DEF MintLost, Fault, Survivable
<1>5. ~RenewLost
  BY DEF RenewLost, Fault, Survivable
<1>6. kit' # kit
  OBVIOUS
<1> QED  BY <1>1, <1>2, <1>3, <1>4, <1>5, <1>6, PlaneSteps DEF Plane

\* No step drops the last reference to a live KIT.
LEMMA AllHeldNext ==
    ASSUME Survivable, OriginInv, EndParts, AllHeld, [Next]_vars
    PROVE  AllHeld'
<1> SUFFICES ASSUME NEW k \in Kit, Live(k)' PROVE Held(k)'
  BY DEF AllHeld
<1>1. CASE ~Live(k)
  BY <1>1, HeldNew
<1>2. CASE Live(k)
  <2>1. Held(k)
    BY <1>2 DEF AllHeld
  <2> QED
    BY <1>2, <2>1, HeldRegistry, HeldFile, HeldLoop, HeldProcess DEF Held, Holding
<1> QED  BY <1>1, <1>2

\* KitInv holds at first ...
LEMMA KitInit == Init => KitInv
<1> SUFFICES ASSUME Init PROVE KitInv
  OBVIOUS
<1> USE DEF Init
<1>1. OriginInv
  BY OriginInit
<1>2. Answered /\ Known /\ FilesKnown /\ TakenOnce /\ EndedSpent /\ RemoveSpent
  BY DEF Answered, Known, FilesKnown, Taken, TakenOnce, EndedSpent, RemoveSpent
<1>3. RetireKnows /\ EndedOff /\ AllHeld
  BY DEF RetireKnows, Retiring, EndedOff, AllHeld, Live
<1> QED  BY <1>1, <1>2, <1>3 DEF KitInv, EndParts

\* ... and every step keeps it.
LEMMA KitNext ==
    ASSUME SerialHooks, Prompt, KitInv, [Next]_vars
    PROVE  KitInv'
<1>1. OriginInv' /\ OriginInv
  BY OriginNext DEF KitInv
<1>2. ASSUME Survivable PROVE EndParts' /\ AllHeld'
  <2>1. EndParts /\ AllHeld
    BY <1>2 DEF KitInv
  <2>2. Answered' /\ Known' /\ FilesKnown' /\ TakenOnce'
    BY <1>1, <1>2, <2>1, AnsweredNext, KnownNext, FilesKnownNext, TakenOnceNext
  <2>3. EndedSpent' /\ RemoveSpent' /\ RetireKnows' /\ EndedOff'
    BY <1>1, <1>2, <2>1, EndedSpentNext, RemoveSpentNext, RetireKnowsNext, EndedOffNext
  <2>4. AllHeld'
    BY <1>1, <1>2, <2>1, AllHeldNext
  <2> QED  BY <2>2, <2>3, <2>4 DEF EndParts
<1>3. Survivable' => Survivable
  BY FaultsStay DEF Survivable
<1> QED  BY <1>1, <1>2, <1>3 DEF KitInv

\* The strengthened invariant holds in every reachable state.
THEOREM KitInvariant ==
    ASSUME SerialHooks, Prompt
    PROVE  Spec => []KitInv
<1>1. Init => KitInv
  BY KitInit
<1>2. KitInv /\ [Next]_vars => KitInv'
  BY KitNext
<1> QED  BY <1>1, <1>2, PTL DEF Spec

\* No credential is orphaned: a live KIT is registered, on disk, or in the
\* hands of a step that will install or revoke it, whatever calls fail, acks
\* get lost, renewals, ends and retirements cross.
THEOREM NoKitIsLost ==
    ASSUME SerialHooks, Prompt
    PROVE  Spec => []LiveKitHeld
<1>1. KitInv => LiveKitHeld
  BY DEF KitInv, AllHeld, LiveKitHeld
<1> QED  BY <1>1, KitInvariant, PTL


-----------------------------------------------------------------------------
(* What holds a live KIT tells whose it is: no session that ended, and only  *)
(* one instance per session id.                                              *)

\* h is the session its state file names ...
OnRecord(h) == Saved(SidOf[h]) /\ disk[SidOf[h]].handle = h
\* ... or has no state file, and a process of its session id has its KIT k.
InHand(k, h) ==
    /\ ~Saved(SidOf[h])
    /\ \E p \in Proc : Active(p) /\ SidOf[p] = SidOf[h] /\ cur[p] = k

\* Unless the loop has it, a live KIT belongs to a session that has not ended,
\* and that is the one of its state file or in the hands of one process.
LEMMA Holders ==
    ASSUME Survivable, KitInv, NEW k \in Kit, Live(k), tkit # k
    PROVE  /\ kitOf[k] \in Handle \ ended
           /\ OnRecord(kitOf[k]) \/ InHand(k, kitOf[k])
<1> DEFINE h == kitOf[k]
<1> USE NoneAssumption, SidAssumption
    DEF KitInv, OriginInv, CoverInv, EndedInv, EndParts, TypeOK
<1>1. Held(k) /\ ~Gone(k) /\ kit[k] # "revoked"
  BY DEF AllHeld, Live, Gone
<1>2. ASSUME NEW x \in Handle, reg[x].ulid = k
      PROVE  h \in Handle \ ended /\ OnRecord(h)
  <2>1. Registered(x) /\ h = x
    BY <1>2 DEF Registered, Carried
  <2>2. x \notin ended
    BY <2>1 DEF EndedHandles
  <2> QED  BY <1>1, <1>2, <2>1, <2>2 DEF Covered, OnRecord, File
<1>3. ASSUME NEW s \in Sid, disk[s].ulid = k
      PROVE  h \in Handle \ ended /\ OnRecord(h)
  <2>1. Saved(s) /\ h = disk[s].handle
    BY <1>3 DEF Saved, Carried
  <2>2. h \in Handle /\ SidOf[h] = s
    BY <2>1 DEF SavedHandles
  <2> QED  BY <2>1, <2>2 DEF EndedOff, OnRecord
<1>4. ASSUME NEW p \in Proc, cur[p] = k, pc[p] \in Minted
      PROVE  h \in Handle \ ended /\ (OnRecord(h) \/ InHand(k, h))
  <2>1. p \in Handle /\ h = p
    BY <1>4 DEF Starting, Carried
  <2>2. p \notin ended /\ Active(p)
    BY <1>4 DEF EndedOff, Active, FinalPc, Minted, RollbackPc
  <2>3. CASE pc[p] \in OnDisk
    BY <1>1, <1>4, <2>1, <2>2, <2>3 DEF Owned, Owns, File, OnRecord, Saved
  <2>4. CASE pc[p] \in Claiming
    BY <1>4, <2>1, <2>2, <2>4 DEF Unclaimed, InHand
  <2>5. CASE pc[p] = "rollback_remove"
    BY <1>1, <1>4, <2>5 DEF RemoveSpent
  <2> QED
    BY <1>4, <2>3, <2>4, <2>5 DEF Minted, OnDisk, Claiming, RollbackPc
<1>5. ASSUME NEW p \in Proc, cur[p] = k, pc[p] \in {"end_save", "revoke"}
      PROVE  h \in Handle \ ended /\ (OnRecord(h) \/ InHand(k, h))
  <2>1. pc[p] \in InEnd
    BY <1>5 DEF InEnd, EndPc
  <2>2. h = st[p].handle /\ h \in Handle /\ SidOf[h] = SidOf[p] /\ Active(p)
    BY <1>5, <2>1, EndHolds DEF Carried
  <2>3. h \notin ended
    BY <1>1, <1>5, <2>2 DEF TakenOnce, EndedSpent
  <2> QED  BY <1>5, <2>1, <2>2, <2>3 DEF Ending, File, OnRecord, InHand
<1>6. \A p \in Proc : pc[p] \in {"routes", "save", "register"} \cup RollbackPc
                         => pc[p] \in Minted
  BY DEF Minted
<1> QED  BY <1>1, <1>2, <1>3, <1>4, <1>5, <1>6 DEF Held

\* A session that was reported ended has no live KIT left, except one that a
\* renewal still in flight obtained and is going to discard.
THEOREM EndIsFinal ==
    ASSUME SerialHooks, Prompt
    PROVE  Spec => []EndedIsDead
<1>1. KitInv => EndedIsDead
  BY Holders DEF EndedIsDead
<1> QED  BY <1>1, KitInvariant, PTL

\* One logical session never has two live instances: "a repeated SessionStart
\* revokes the previous instance before replacing it" (README.md:573).  A
\* renewal still in flight for the previous one does not count: it discards
\* what it obtained.
OneInstancePerSession ==
    Survivable => \A k, l \in Kit :
        Live(k) /\ Live(l) /\ tkit \notin {k, l} /\ SidOf[kitOf[k]] = SidOf[kitOf[l]]
            => kitOf[k] = kitOf[l]

\* One logical session never has two live instances: a repeated SessionStart
\* revokes the previous instance before it mints.
THEOREM OneLiveInstance ==
    ASSUME SerialHooks, Prompt
    PROVE  Spec => []OneInstancePerSession
<1>1. KitInv => OneInstancePerSession
  <2> SUFFICES ASSUME KitInv, Survivable, NEW k \in Kit, NEW l \in Kit, Live(k), Live(l),
                      tkit \notin {k, l}, SidOf[kitOf[k]] = SidOf[kitOf[l]]
               PROVE  kitOf[k] = kitOf[l]
    BY DEF OneInstancePerSession
  <2>1. OnRecord(kitOf[k]) \/ InHand(k, kitOf[k])
    BY Holders
  <2>2. OnRecord(kitOf[l]) \/ InHand(l, kitOf[l])
    BY Holders
  <2>3. CASE OnRecord(kitOf[k]) /\ OnRecord(kitOf[l])
    BY <2>3 DEF OnRecord
  <2>4. CASE InHand(k, kitOf[k]) /\ InHand(l, kitOf[l])
    <3>1. Serial
      BY DEF KitInv, OriginInv, CoverInv, EndedInv
    <3> QED  BY <2>4, <3>1 DEF InHand, Serial
  <2> QED  BY <2>1, <2>2, <2>3, <2>4 DEF OnRecord, InHand
<1> QED  BY <1>1, KitInvariant, PTL

-----------------------------------------------------------------------------
(* The machine keeps SessionContract: what a start, a renewal and an end do   *)
(* to the live KITs of the sessions that have not ended.                     *)

\* h's start has not minted yet.
BeforeMint(h) ==
    \/ pc[h] \in {"idle", "start", "mint"}
    \/ pc[h] \in EndPc /\ replacing[h]

\* Until then no KIT is its session's, and while it runs only the one it has.
Unminted == \A k \in Kit : kitOf[k] # None => ~BeforeMint(kitOf[k])
OneKit == \A p \in Proc, k \in Kit : pc[p] \in Minted /\ kitOf[k] = p => k = cur[p]

\* The session of a live KIT has ended, or its state file names it, or its
\* start has not saved it yet.
Recorded(h) == h \in ended \/ OnRecord(h)
LiveRecorded == \A k \in Kit : Live(k) => Recorded(kitOf[k]) \/ pc[kitOf[k]] \in Claiming

ContractInv == KitInv /\ Unminted /\ OneKit /\ (Survivable => LiveRecorded)

\* A start that has not minted after a step had not minted before it.
LEMMA MintIsAhead ==
    ASSUME TypeOK, Shape, [Next]_vars, NEW h \in Handle, BeforeMint(h)'
    PROVE  BeforeMint(h)
<1> USE DEF BeforeMint, TypeOK, Goto, cliVars, Handle, Proc, EndPc
<1>1. CASE ~Step(h)
  BY <1>1, LocalsStay DEF Locals
<1>2. CASE EndStep(h) \/ Launch(h) \/ Kill(h)
  BY <1>2 DEF EndStep, EndLoad, EndNoState, EndFails, Unregister, UnregisterUnacked,
     UnregisterFails, EndSave, EndRevoke, EndRevokeFails, EndRemove, Launch, Kill
<1>3. CASE StartStep(h)
  BY <1>3 DEF StartStep, StartLoad, Mint, MintRefused, MintLost, Routes, RoutesRejected,
       Save, SaveFails, RollbackRevoke, Register, RegisterUnacked, RegisterFails,
       RollbackRegister, RollbackRetained, RollbackRemove, OwnerLoad, OwnerSave,
       OwnerSend, OwnerSendFails, AfterOwner
<1>4. CASE RunStep(h)
  BY <1>4 DEF RunStep, Spawn, SpawnFails, RunEnds, Shape, FinalPc
<1> QED  BY <1>1, <1>2, <1>3, <1>4 DEF Step

\* A KIT that changes its session is minted by that session's start or
\* obtained in exchange for one of its KITs.
LEMMA OriginSteps ==
    ASSUME OriginInv, [Next]_vars, NEW k \in Kit, kitOf'[k] # None
    PROVE  \/ kitOf'[k] = kitOf[k]
           \/ \E p \in Handle : /\ kitOf'[k] = p /\ pc[p] = "mint"
                                /\ pc'[p] \in {"routes", "failed"}
                                /\ pc'[p] = "routes" => cur'[p] = k
           \/ /\ tpc = "renew_create" /\ todo[th].ulid \in Kit \cap due
              /\ kitOf[todo[th].ulid] # None /\ kitOf'[k] = kitOf[todo[th].ulid]
<1> USE NoneAssumption DEF OriginInv, CoverInv, EndedInv, TypeOK
<1>1. ASSUME NEW p \in Handle, NEW n \in Kit, MintFor(p, n),
             (Mint(p) /\ cur' = [cur EXCEPT ![p] = n]) \/ MintLost(p), kitOf'[k] # kitOf[k]
      PROVE  /\ kitOf'[k] = p /\ pc[p] = "mint" /\ pc'[p] \in {"routes", "failed"}
             /\ pc'[p] = "routes" => cur'[p] = k
  <2>1. k = n /\ kitOf'[k] = p
    BY <1>1 DEF MintFor
  <2>2. p \in Proc
    BY DEF Handle, Proc
  <2> QED  BY <1>1, <2>1, <2>2 DEF Mint, MintLost, Goto
<1>2. ASSUME NEW n \in Kit, tpc = "renew_create", ReplaceKit(todo[th].ulid, n),
             kitOf'[k] # kitOf[k]
      PROVE  /\ todo[th].ulid \in Kit \cap due
             /\ kitOf[todo[th].ulid] # None /\ kitOf'[k] = kitOf[todo[th].ulid]
  <2>1. k = n /\ kitOf'[k] = kitOf[todo[th].ulid]
    BY <1>2 DEF ReplaceKit, cpVars
  <2>2. todo[th].ulid \in due
    BY <1>2 DEF Succession, Renewing
  <2> QED  BY <2>1, <2>2 DEF Origins, Succession
<1> QED  BY <1>1, <1>2, PlaneSteps DEF Plane

\* No KIT is given to a session whose start is still to mint.
LEMMA UnmintedNext ==
    ASSUME OriginInv, Unminted, [Next]_vars
    PROVE  Unminted'
<1> USE DEF OriginInv, CoverInv, EndedInv
<1> SUFFICES ASSUME NEW k \in Kit, NEW h \in Handle, kitOf'[k] = h
             PROVE  ~BeforeMint(h)'
  <2>1. \A k \in Kit : kitOf'[k] \in Handle \cup {None}
    BY TypeNext DEF TypeOK
  <2> QED  BY <2>1 DEF Unminted, BeforeMint
<1>1. kitOf'[k] # None
  BY NoneAssumption DEF Handle, Proc
<1>2. CASE kitOf[k] = h \/ (todo[th].ulid \in Kit /\ kitOf[todo[th].ulid] = h)
  BY <1>1, <1>2, MintIsAhead DEF Unminted
<1>3. ASSUME pc'[h] \in {"routes", "failed"} PROVE ~BeforeMint(h)'
  BY <1>3 DEF BeforeMint, EndPc
<1> QED  BY <1>1, <1>2, <1>3, OriginSteps

\* Nor a second one to a session whose start is under way.
LEMMA OneKitNext ==
    ASSUME OriginInv, Unminted, OneKit, Prompt, [Next]_vars
    PROVE  OneKit'
<1> USE NoneAssumption DEF OriginInv, CoverInv, EndedInv
<1> SUFFICES ASSUME NEW p \in Proc, NEW k \in Kit, pc'[p] \in Minted, kitOf'[k] = p
             PROVE  k = cur'[p]
  BY DEF OneKit
<1>1. kitOf'[k] # None
  BY DEF Proc
<1>2. CASE p \in Handle /\ Mint(p)
  <2>1. \A n \in Kit : kitOf[n] # p
    BY <1>2 DEF Mint, Unminted, BeforeMint, Handle, Proc
  <2>2. PICK n \in Kit : MintFor(p, n) /\ cur' = [cur EXCEPT ![p] = n]
    BY <1>2 DEF Mint
  <2> QED  BY <2>1, <2>2 DEF MintFor, TypeOK
<1>3. CASE pc[p] \in Minted /\ cur'[p] = cur[p]
  <2>1. CASE kitOf'[k] = kitOf[k]
    BY <1>3, <2>1 DEF OneKit
  <2>2. ASSUME NEW q \in Handle, kitOf'[k] = q, pc[q] = "mint" PROVE FALSE
    BY <1>3, <2>2 DEF Minted, RollbackPc
  <2>3. CASE todo[th].ulid \in Kit \cap due /\ kitOf'[k] = kitOf[todo[th].ulid]
    <3>1. todo[th].ulid = cur[p]
      BY <1>3, <2>3 DEF OneKit
    <3> QED  BY <1>3, <2>3, <3>1 DEF Fresh
  <2> QED  BY <1>1, <2>1, <2>2, <2>3, OriginSteps
<1> QED  BY <1>2, <1>3, MintedSteps

\* A state file goes on naming a live KIT's session until it has ended.
LEMMA StaysOnRecord ==
    ASSUME Survivable, ContractInv, [Next]_vars, NEW k \in Kit, Live(k), Live(k)',
           NEW h \in Handle, kitOf[k] = h, OnRecord(h)
    PROVE  Recorded(h)'
<1> USE NoneAssumption, SidAssumption
    DEF ContractInv, KitInv, OriginInv, CoverInv, EndedInv, EndParts, TypeOK
<1> DEFINE Same == Saved(SidOf[h])' /\ disk'[SidOf[h]].handle = h
<1>1. Same \/ h \in ended' => Recorded(h)'
  BY DEF Recorded, OnRecord
<1>2. h \in Proc /\ Saved(SidOf[h]) /\ File(h).handle = h /\ SidOf[h] \in Sid
  BY DEF OnRecord, File, Handle, Proc
<1>3. CASE disk'[SidOf[h]] = disk[SidOf[h]]
  BY <1>1, <1>2, <1>3 DEF Saved, File
<1>4. CASE disk'[SidOf[h]] # disk[SidOf[h]]
  <2>1. ASSUME NEW p \in Handle, Save(p) PROVE FALSE
    <3>1. SidOf[p] = SidOf[h] /\ pc[p] \in Claiming /\ p \in Proc
      BY <1>4, <2>1 DEF Save, Claiming, Handle, Proc
    <3> QED  BY <1>2, <3>1 DEF Unclaimed
  <2>2. ASSUME NEW p \in Handle, RollbackRemove(p) PROVE FALSE
    <3>1. SidOf[p] = SidOf[h] /\ pc[p] = "rollback_remove" /\ p \in Proc
      BY <1>4, <2>2 DEF RollbackRemove, Handle, Proc
    <3>2. p = h
      BY <1>2, <3>1 DEF Owned, Owns, File
    <3>3. k = cur[p] /\ Gone(cur[p])
      BY <3>1, <3>2 DEF OneKit, Minted, RollbackPc, RemoveSpent
    <3> QED  BY <3>3 DEF Live, Gone
  <2>3. ASSUME NEW p \in Handle, OwnerSave(p) PROVE Same
    <3>1. SidOf[p] = SidOf[h] /\ pc[p] = "owner_save" /\ p \in Proc
          /\ disk' = [disk EXCEPT ![SidOf[p]] = st[p]]
      BY <1>4, <2>3 DEF OwnerSave, Handle, Proc
    <3>2. File(p).handle = p /\ File(p).ulid = cur[p] /\ st[p].handle = p /\ st[p].ulid = cur[p]
      BY <3>1 DEF Owned, Owns, OnDisk
    <3> QED  BY <1>2, <3>1, <3>2 DEF File, Saved
  <2>4. ASSUME NEW p \in Proc, EndSave(p) PROVE Same
    <3>0. pc[p] \in InEnd /\ disk' = [disk EXCEPT ![SidOf[p]] = st[p]]
      BY <1>4, <2>4 DEF EndSave, InEnd, EndPc
    <3>1. SidOf[p] = SidOf[h]
      BY <1>4, <3>0
    <3>2. File(p).handle = st[p].handle /\ st[p].ulid = cur[p] /\ cur[p] \in Kit
      BY <1>2, <3>0, <3>1 DEF Ending, Carried
    <3> QED  BY <1>2, <3>0, <3>1, <3>2 DEF File, Saved
  <2>5. ASSUME NEW p \in Proc, EndRemove(p) PROVE h \in ended'
    <3>1. SidOf[p] = SidOf[h] /\ pc[p] \in InEnd
      BY <1>4, <2>5 DEF EndRemove, InEnd, EndPc
    <3>2. st[p].handle = h
      BY <1>2, <3>1 DEF Ending, File
    <3> QED  BY <2>5, <3>2 DEF EndRemove
  <2>6. ASSUME RenewSwap PROVE Same
    <3>1. StillExpected(th, todo[th].ulid)
      BY <1>4, <2>6, NoSwap
    <3>2. /\ th \in Handle /\ tkit \in Kit /\ File(th).handle = th
          /\ disk' = [disk EXCEPT ![SidOf[th]] = RenewedState(th)]
      BY <1>4, <2>6, <3>1, SwapFacts
    <3>3. SidOf[th] = SidOf[h]
      BY <1>4, <3>2 DEF Handle, Proc
    <3> QED  BY <1>2, <3>2, <3>3 DEF File, Saved, RenewedState
  <2>7. ASSUME RetireRemove PROVE h \in ended'
    <3>1. th \in Handle /\ th \in Runner
      BY <2>7 DEF RetireRemove, Shape, Watched, Unwatched, Retiring
    <3>2. SidOf[th] = SidOf[h]
      BY <1>4, <2>7, <3>1 DEF RetireRemove, Handle, Proc
    <3>3. th = h
      BY <3>1, <3>2, RunnerSidAssumption
    <3> QED  BY <2>7, <3>3 DEF RetireRemove
  <2> QED
    BY <1>1, <1>4, <2>1, <2>2, <2>3, <2>4, <2>5, <2>6, <2>7, DiskWriters
<1> QED  BY <1>3, <1>4

\* A start that stops claiming its session has saved it, or its KIT is dead.
LEMMA ClaimEnds ==
    ASSUME Survivable, ContractInv, [Next]_vars, NEW k \in Kit, Live(k), Live(k)',
           NEW h \in Handle, kitOf[k] = h, pc[h] \in Claiming
    PROVE  Recorded(h)' \/ pc'[h] \in Claiming
<1> USE NoneAssumption, SidAssumption
    DEF ContractInv, KitInv, OriginInv, CoverInv, EndedInv, TypeOK, Goto, cliVars
<1>1. h \in Proc
  BY DEF Handle, Proc
<1>2. pc[h] # "mint"
  BY <1>1 DEF Unminted, BeforeMint, Proc
<1>3. k = cur[h]
  BY <1>1, <1>2 DEF OneKit, Claiming, Minted, RollbackPc
<1>4. CASE ~Step(h)
  BY <1>1, <1>4, LocalsStay DEF Locals
<1>5. CASE Save(h)
  BY <1>1, <1>3, <1>5 DEF Save, Recorded, OnRecord, Saved
<1>6. CASE RollbackRevoke(h)
  <2>1. kit' = Revoked(cur[h])
    BY <1>6 DEF RollbackRevoke, Fault, Survivable
  <2> QED  BY <1>3, <2>1 DEF Live, Revoked
<1>7. CASE (StartStep(h) /\ ~Save(h) /\ ~RollbackRevoke(h)) \/ Launch(h)
  BY <1>1, <1>2, <1>7 DEF StartStep, StartLoad, Mint, MintRefused, MintLost, Routes,
       RoutesRejected, SaveFails, Register, RegisterUnacked, RegisterFails,
       RollbackRegister, RollbackRetained, RollbackRemove, OwnerLoad, OwnerSave,
       OwnerSend, OwnerSendFails, AfterOwner, Launch, Claiming
<1>8. ~Kill(h)
  BY DEF Kill, Fault, Survivable
<1>9. ~EndStep(h) /\ ~RunStep(h)
  BY DEF EndStep, EndLoad, EndNoState, Unregister, UnregisterUnacked,
     UnregisterFails, EndSave, EndRevoke, EndRevokeFails, EndRemove, RunStep, Spawn,
     SpawnFails, RunEnds, Claiming
<1> QED  BY <1>4, <1>5, <1>6, <1>7, <1>8, <1>9 DEF Step

\* A KIT that comes to life is a start's, or is exchanged for a live one.
LEMMA LivingSteps ==
    ASSUME Survivable, OriginInv, [Next]_vars, NEW k \in Kit, ~Live(k), Live(k)'
    PROVE  \/ \E p \in Handle : kitOf'[k] = p /\ pc'[p] = "routes"
           \/ /\ tpc = "renew_create" /\ todo[th].ulid \in Kit \cap due /\ Live(todo[th].ulid)
              /\ kitOf'[k] = kitOf[todo[th].ulid] /\ UNCHANGED <<disk, ended, pc>>
<1> USE NoneAssumption DEF OriginInv, CoverInv, EndedInv, TypeOK, Live
<1>1. ASSUME NEW x \in Kit \cup {None}, kit' = Revoked(x) PROVE FALSE
  BY <1>1 DEF Revoked
<1>2. ASSUME NEW p \in Handle, NEW n \in Kit, MintFor(p, n), Mint(p)
      PROVE  kitOf'[k] = p /\ pc'[p] = "routes"
  <2>1. k = n /\ kitOf'[k] = p
    BY <1>2 DEF MintFor
  <2>2. p \in Proc
    BY DEF Handle, Proc
  <2> QED  BY <1>2, <2>1, <2>2 DEF Mint, Goto
<1>3. ASSUME NEW n \in Kit, RenewCreate, ReplaceKit(todo[th].ulid, n)
      PROVE  /\ tpc = "renew_create" /\ todo[th].ulid \in Kit \cap due
             /\ kit[todo[th].ulid] = "live"
             /\ kitOf'[k] = kitOf[todo[th].ulid] /\ UNCHANGED <<disk, ended, pc>>
  <2>1. k = n /\ kit[todo[th].ulid] = "live" /\ kitOf'[k] = kitOf[todo[th].ulid]
    BY <1>3 DEF ReplaceKit, cpVars
  <2>2. tpc = "renew_create" /\ UNCHANGED <<disk, ended, pc>>
    BY <1>3 DEF RenewCreate, LoopFrame
  <2>3. todo[th].ulid \in due
    BY <2>2 DEF Succession, Renewing
  <2> QED  BY <2>1, <2>2, <2>3
<1>4. ASSUME NEW p \in Handle, MintLost(p) PROVE FALSE
  BY <1>4 DEF MintLost, Fault, Survivable
<1>5. ~RenewLost
  BY DEF RenewLost, Fault, Survivable
<1>6. kit' # kit
  OBVIOUS
<1> QED  BY <1>1, <1>2, <1>3, <1>4, <1>5, <1>6, PlaneSteps DEF Plane

\* So live KITs stay on record.
LEMMA LiveRecordedNext ==
    ASSUME Survivable, ContractInv, LiveRecorded, [Next]_vars
    PROVE  LiveRecorded'
<1> USE NoneAssumption DEF ContractInv, KitInv, OriginInv, CoverInv, EndedInv
<1> SUFFICES ASSUME NEW k \in Kit, Live(k)', NEW h \in Handle, kitOf'[k] = h
             PROVE  Recorded(h)' \/ pc'[h] \in Claiming
  <2>1. \A k \in Kit : kitOf'[k] \in Handle \cup {None}
    BY TypeNext DEF TypeOK
  <2>2. \A k \in Kit : Live(k)' => kitOf'[k] # None
    BY OriginsNext DEF Origins, Live
  <2> QED  BY <2>1, <2>2 DEF LiveRecorded, Recorded, OnRecord, Saved
<1>1. CASE Live(k)
  <2>1. kitOf[k] = h
    BY <1>1, OriginsNext DEF Origins, Live
  <2>2. h \in ended => h \in ended'
    BY EndedWriters DEF EndRemove, RetireRemove
  <2> QED
    BY <1>1, <2>1, <2>2, StaysOnRecord, ClaimEnds DEF LiveRecorded, Recorded
<1>2. ASSUME pc'[h] = "routes" PROVE pc'[h] \in Claiming
  BY <1>2 DEF Claiming
<1>3. ASSUME ~Live(k), tpc = "renew_create", todo[th].ulid \in Kit \cap due,
             Live(todo[th].ulid), kitOf[todo[th].ulid] = h, UNCHANGED <<disk, ended, pc>>
      PROVE  Recorded(h)' \/ pc'[h] \in Claiming
  <2>1. Recorded(h) \/ pc[h] \in Claiming
    BY <1>3 DEF LiveRecorded
  <2> QED  BY <1>3, <2>1 DEF Recorded, OnRecord, Saved
<1> QED  BY <1>1, <1>2, <1>3, LivingSteps

\* ContractInv holds at first and is kept.
LEMMA ContractInit == Init => ContractInv
<1> SUFFICES ASSUME Init PROVE ContractInv
  OBVIOUS
<1>1. KitInv
  BY KitInit
<1>2. Unminted /\ OneKit /\ LiveRecorded
  BY DEF Init, Unminted, OneKit, LiveRecorded, Live, Minted, RollbackPc
<1> QED  BY <1>1, <1>2 DEF ContractInv

LEMMA ContractNext ==
    ASSUME SerialHooks, Prompt, ContractInv, [Next]_vars
    PROVE  ContractInv'
<1>1. KitInv' /\ OriginInv
  BY KitNext DEF ContractInv, KitInv
<1>2. Unminted' /\ OneKit'
  BY <1>1, UnmintedNext, OneKitNext DEF ContractInv
<1>3. Survivable' => Survivable
  BY FaultsStay DEF Survivable
<1>4. Survivable => LiveRecorded'
  BY LiveRecordedNext DEF ContractInv
<1> QED  BY <1>1, <1>2, <1>3, <1>4 DEF ContractInv

\* The pairs in force are those of the current KITs.
LEMMA Pairs ==
    /\ \A i, k : <<i, k>> \in InForce <=> k \in Current /\ i = kitOf[k]
    /\ \A pair \in InForce : pair = <<pair[1], pair[2]>>
  BY DEF InForce

\* A mint is a start: no live KIT is left of an earlier instance.
LEMMA MintStarts ==
    ASSUME Survivable, ContractInv, [Next]_vars, NEW p \in Handle, NEW n \in Kit,
           MintFor(p, n), Mint(p)
    PROVE  Contract!Start(p, n)
<1> USE NoneAssumption, SidAssumption
    DEF ContractInv, KitInv, OriginInv, CoverInv, EndedInv, EndParts, TypeOK
<1>1. p \in Proc /\ pc[p] = "mint" /\ ~Saved(SidOf[p]) /\ Active(p)
  BY DEF Mint, Handle, Proc, Unclaimed, Claiming, Active, FinalPc
<1>2. \A k \in Kit : kitOf[k] # p
  BY <1>1 DEF Unminted, BeforeMint, Proc
<1>3. p \notin ended
  BY <1>1 DEF EndedHandles, PreRegister, PreSave
<1>4. /\ kit[n] = "unused" /\ kit' = [kit EXCEPT ![n] = "live"]
      /\ kitOf' = [kitOf EXCEPT ![n] = p] /\ ended' = ended /\ faults' = faults
  BY DEF MintFor, Mint, CliFrame
<1>5. \A k \in Current : SidOf[kitOf[k]] # SidOf[p]
  <2> SUFFICES ASSUME NEW k \in Kit, Live(k), kitOf[k] \notin ended, SidOf[kitOf[k]] = SidOf[p]
               PROVE  FALSE
    BY DEF Current
  <2>1. kitOf[k] \in Handle /\ kitOf[k] \in Proc
    BY DEF Origins, Live, Handle, Proc
  <2>2. pc[kitOf[k]] \in Claiming
    BY <1>1 DEF LiveRecorded, Recorded, OnRecord
  <2>3. Active(kitOf[k])
    BY <2>2 DEF Active, FinalPc, Claiming
  <2>4. kitOf[k] = p
    BY <1>1, <2>1, <2>3 DEF Serial
  <2> QED  BY <1>2, <2>4
<1>6. Current' = Current \cup {n} /\ n \notin Current
  BY <1>2, <1>3, <1>4 DEF Current, Live
<1>7. InForce' = InForce \cup {<<p, n>>}
  BY <1>4, <1>6 DEF InForce
<1>8. Issued' = Issued \cup {n} /\ n \notin Issued
  BY <1>4 DEF Issued, Unused
<1>9. {kitOf[k] : k \in Issued}' = {kitOf[k] : k \in Issued} \cup {p}
      /\ p \notin {kitOf[k] : k \in Issued}
  BY <1>2, <1>4, <1>8 DEF Issued
<1>10. \A pair \in InForce : SidOf[pair[1]] # SidOf[p]
  BY <1>5, Pairs
<1> QED
  BY <1>4, <1>7, <1>8, <1>9, <1>10 DEF Contract!Start, Promised, Survivable

\* A replacement is a renewal, or repeats an answer.
LEMMA ReplaceRenews ==
    ASSUME Survivable, ContractInv, [Next]_vars, NEW n \in Kit, tpc = "renew_create",
           ReplaceKit(todo[th].ulid, n), RenewCreate
    PROVE  \/ /\ todo[th].ulid \in Current
              /\ Contract!Renew(kitOf[todo[th].ulid], todo[th].ulid, n)
           \/ UNCHANGED <<kit, kitOf, ended, faults>>
<1> USE NoneAssumption
    DEF ContractInv, KitInv, OriginInv, CoverInv, EndedInv, TypeOK
<1> DEFINE old == todo[th].ulid
           h == kitOf[old]
<1>1. ended' = ended /\ faults' = faults
  BY DEF RenewCreate, LoopFrame
<1>2. CASE UNCHANGED cpVars
  BY <1>1, <1>2 DEF cpVars
<1>3. CASE ~UNCHANGED cpVars
  <2>1. /\ kit[old] = "live" /\ kit[n] = "unused"
        /\ kit' = [kit EXCEPT ![old] = "replaced", ![n] = "live"]
        /\ kitOf' = [kitOf EXCEPT ![n] = h]
    BY <1>3 DEF ReplaceKit
  <2>2. old \in Kit
    BY DEF Succession, Renewing
  <2>3. old # n /\ kit'[n] = "live" /\ kit'[old] = "replaced"
        /\ \A k \in Kit : k # n /\ k # old => kit'[k] = kit[k]
    BY <2>1, <2>2
  <2>4. kitOf'[n] = h /\ \A k \in Kit : k # n => kitOf'[k] = kitOf[k]
    BY <2>1
  <2>5. h \notin ended
    BY <2>1, <2>2, Holders DEF LoopKit, Live
  <2>6. old \in Current /\ Current' = (Current \ {old}) \cup {n} /\ n \notin Current
    BY <1>1, <2>1, <2>2, <2>3, <2>4, <2>5 DEF Current, Live
  <2>7. InForce' = (InForce \ {<<h, old>>}) \cup {<<h, n>>} /\ <<h, old>> \in InForce
    <3>1. \A k \in Current \ {old} : kitOf'[k] = kitOf[k]
      BY <2>4, <2>6 DEF Current
    <3>2. InForce' = {<<kitOf'[k], k>> : k \in Current \ {old}} \cup {<<h, n>>}
      BY <2>4, <2>6 DEF InForce
    <3>3. {<<kitOf'[k], k>> : k \in Current \ {old}} = {<<kitOf[k], k>> : k \in Current \ {old}}
      BY <3>1
    <3>4. {<<kitOf[k], k>> : k \in Current \ {old}} = InForce \ {<<h, old>>}
      BY DEF InForce
    <3> QED  BY <2>6, <3>2, <3>3, <3>4 DEF InForce
  <2>8. Issued' = Issued \cup {n} /\ n \notin Issued /\ old \in Issued
    BY <2>1, <2>2, <2>3 DEF Issued, Unused
  <2>9. {kitOf[k] : k \in Issued}' = {kitOf[k] : k \in Issued}
    BY <2>2, <2>4, <2>8 DEF Issued
  <2> QED
    BY <1>1, <2>6, <2>7, <2>8, <2>9 DEF Contract!Renew, Promised, Survivable
<1> QED  BY <1>2, <1>3

\* A revocation stops an instance that has not ended.
LEMMA RevokeStops ==
    ASSUME Survivable, TypeOK, NEW x \in Kit, kit' = Revoked(x),
           UNCHANGED <<kitOf, ended, faults>>
    PROVE  (x \in Current /\ Contract!Stop(kitOf[x], x)) \/ UNCHANGED Contract!vars
<1> USE DEF TypeOK
<1>1. Issued' = Issued
  BY DEF Issued, Unused, Revoked
<1>2. CASE x \notin Current
  <2>1. Current' = Current
    BY <1>2 DEF Current, Live, Revoked
  <2>2. InForce' = InForce
    BY <2>1 DEF InForce
  <2> QED  BY <1>1, <2>2 DEF Contract!vars, Promised, Survivable
<1>3. CASE x \in Current
  <2>1. Current' = Current \ {x}
    BY <1>3 DEF Current, Live, Revoked
  <2>2. InForce' = InForce \ {<<kitOf[x], x>>} /\ <<kitOf[x], x>> \in InForce
    BY <1>3, <2>1 DEF InForce
  <2> QED  BY <1>1, <1>3, <2>2 DEF Contract!Stop, Promised, Survivable
<1> QED  BY <1>2, <1>3

\* Only a renewal in flight still has a KIT of an ended session.
LEMMA EndedStayDead == KitInv' => EndedIsDead'
<1>1. KitInv => EndedIsDead
  BY Holders DEF EndedIsDead
<1> QED  BY <1>1, PTL

\* Current KITs are KITs of sessions.
LEMMA Instances ==
    ASSUME ContractInv, NEW k \in Current
    PROVE  k \in Kit /\ kitOf[k] \in Handle
  BY DEF Current, Live, ContractInv, KitInv, OriginInv, Origins, CoverInv, EndedInv, TypeOK

\* Reporting a session ended stops it if a renewal in flight still has its
\* KIT, and changes nothing otherwise.
LEMMA EndStops ==
    ASSUME Survivable, ContractInv, ContractInv', [Next]_vars,
           RetireRemove \/ \E p \in Proc : EndRemove(p)
    PROVE  (\E k \in Current : Contract!Stop(kitOf[k], k)) \/ UNCHANGED Contract!vars
<1>1. UNCHANGED <<kit, kitOf, faults>> /\ ended \subseteq ended'
  BY DEF RetireRemove, EndRemove, LoopFrame, cpVars
<1>2. Survivable'
  BY <1>1 DEF Survivable
<1>3. ASSUME NEW k \in Kit, Live(k), kitOf[k] \in ended' PROVE k = tkit'
  <2>1. Live(k)' /\ kitOf'[k] \in ended'
    BY <1>1, <1>3 DEF Live
  <2>2. EndedIsDead'
    BY EndedStayDead DEF ContractInv
  <2> QED  BY <1>2, <2>1, <2>2 DEF EndedIsDead
<1>4. UNCHANGED <<Issued, {kitOf[k] : k \in Issued}>>
  BY <1>1 DEF Issued, Unused
<1>5. CASE Current' = Current
  <2>1. InForce' = InForce
    BY <1>1, <1>5 DEF InForce
  <2> QED  BY <1>1, <1>4, <2>1 DEF Contract!vars, Promised, Survivable
<1>6. CASE Current' # Current
  <2>1. PICK k \in Current : k \notin Current'
    BY <1>1, <1>6 DEF Current, Live
  <2>2. Current' = Current \ {k}
    BY <1>1, <1>3, <2>1 DEF Current, Live
  <2>3. InForce' = InForce \ {<<kitOf[k], k>>} /\ <<kitOf[k], k>> \in InForce
    BY <1>1, <2>1, <2>2 DEF InForce
  <2> QED  BY <1>1, <1>4, <2>1, <2>3 DEF Contract!Stop, Promised, Survivable
<1> QED  BY <1>5, <1>6

\* Every step keeps the contract.
LEMMA ContractStep ==
    ASSUME SerialHooks, Prompt, ContractInv, [Next]_vars
    PROVE  [Contract!Next]_(Contract!vars)
<1> USE DEF ContractInv, KitInv, OriginInv, CoverInv, EndedInv
<1>1. faults' = faults
  BY FaultsStay
<1>2. CASE ~Survivable
  BY <1>1, <1>2 DEF Contract!vars, Promised, Survivable
<1>3. CASE Survivable /\ ended' # ended
  <2>1. ContractInv'
    BY ContractNext
  <2>2. (\E k \in Current : Contract!Stop(kitOf[k], k)) \/ UNCHANGED Contract!vars
    BY <1>3, <2>1, EndedWriters, EndStops
  <2> QED  BY <2>2, Instances DEF Contract!Next
<1>4. CASE Survivable /\ ended' = ended
  <2> USE <1>1, <1>4
  <2>1. CASE UNCHANGED <<kit, succ, kitOf>>
    <3>1. UNCHANGED <<InForce, Issued, {kitOf[k] : k \in Issued}>>
      BY <2>1 DEF InForce, Current, Live, Issued, Unused
    <3> QED  BY <3>1 DEF Contract!vars, Promised, Survivable
  <2>2. ASSUME NEW x \in Kit, kit' = Revoked(x), UNCHANGED kitOf
        PROVE  [Contract!Next]_(Contract!vars)
    <3>1. (x \in Current /\ Contract!Stop(kitOf[x], x)) \/ UNCHANGED Contract!vars
      BY <2>2, RevokeStops
    <3> QED  BY <3>1, Instances DEF Contract!Next
  <2>3. ASSUME NEW p \in Handle, NEW n \in Kit, MintFor(p, n), Mint(p)
        PROVE  Contract!Next
    BY <2>3, MintStarts DEF Contract!Next
  <2>4. ASSUME NEW n \in Kit, tpc = "renew_create", ReplaceKit(todo[th].ulid, n), RenewCreate
        PROVE  [Contract!Next]_(Contract!vars)
    <3>1. CASE UNCHANGED <<kit, kitOf, ended, faults>>
      <4>1. UNCHANGED <<InForce, Issued, {kitOf[k] : k \in Issued}>>
        BY <3>1 DEF InForce, Current, Live, Issued, Unused
      <4> QED  BY <3>1, <4>1 DEF Contract!vars, Promised, Survivable
    <3>2. CASE /\ todo[th].ulid \in Current
               /\ Contract!Renew(kitOf[todo[th].ulid], todo[th].ulid, n)
      BY <3>2, Instances DEF Contract!Next
    <3> QED  BY <2>4, <3>1, <3>2, ReplaceRenews
  <2>5. ASSUME kit' = Revoked(None), UNCHANGED <<succ, kitOf>>
        PROVE  [Contract!Next]_(Contract!vars)
    BY <2>1, <2>5, NoneAssumption DEF Revoked, TypeOK
  <2>6. ~RenewLost /\ \A p \in Handle : ~MintLost(p)
    BY DEF RenewLost, MintLost, Fault, Survivable
  <2> QED  BY <2>1, <2>2, <2>3, <2>4, <2>5, <2>6, PlaneSteps DEF Plane
<1> QED  BY <1>2, <1>3, <1>4

\* The whole session machinery implements the contract of its sessions: one
\* instance at a time with one live KIT, exchanged in one step, and gone for
\* good once withdrawn, whatever survivable failures happen.
THEOREM SessionsKeepContract ==
    ASSUME SerialHooks, Prompt
    PROVE  Spec => ContractSpec
<1>1. Init => ContractInv
  BY ContractInit
<1>2. ContractInv /\ [Next]_vars => ContractInv'
  BY ContractNext
<1>3. Init => Contract!Init
  BY DEF Init, Contract!Init, Promised, InForce, Current, Live, Issued, Unused
<1>4. ContractInv /\ [Next]_vars => [Contract!Next]_(Contract!vars)
  BY ContractStep
<1> QED
  BY <1>1, <1>2, <1>3, <1>4, PTL DEF Spec, ContractSpec, Contract!Spec

=============================================================================
