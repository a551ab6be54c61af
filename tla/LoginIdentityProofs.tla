------------------------ MODULE LoginIdentityProofs ------------------------
(***************************************************************************)
(* However many logins and logouts run at once, fail, lose an answer or are  *)
(* killed, every enrollment carries the same device id, as long as no        *)
(* renewal has begun, which may be writing the metadata while an old         *)
(* installation logs out, and no logout went on without the device id after  *)
(* a file operation failed.  And a login, a logout or a renewal that works   *)
(* alone leaves one whole identity, or none, unless it is cut short while it *)
(* changes the files; the next one that succeeds makes up for that.          *)
(***************************************************************************)
EXTENDS LoginIdentity, TLAPS

Label == Ended \cup {"idle", "renewCert", "renewKey", "useCert", "useKey", "sign",
                     "device", "migrate", "create", "write", "truncate", "fill", "remove",
                     "removeRest"}

\* No enrollment has begun to use a device id.
NobodyHasDevice ==
    \A p \in Proc :
        /\ pc[p] \notin {"write", "truncate", "fill"}
        /\ p \in Enroller => pc[p] # "sign"

\* Without a device-id file, the metadata of an old installation is still there if
\* there ever was one, and whoever is about to create the file has its id.
NoFile ==
    /\ NobodyHasDevice
    /\ file["whoami"] \in {Absent, First}
    /\ file["whoami"] = Absent => sent = {}
    /\ file["whoami"] = First => deviceOf[First] \in Device /\ sent \subseteq {deviceOf[First]}
    /\ \A p \in Proc :
          /\ pc[p] = "create" => dev[p] \in Device /\ sent \subseteq {dev[p]}
          /\ pc[p] \in {"remove", "removeRest"} => file["whoami"] = Absent

\* While the file is empty, its one writer has the id of every earlier enrollment.
EmptyFile ==
    /\ \A d, e \in sent : d = e
    /\ \A p \in Enroller : pc[p] # "sign"
    /\ \A p \in Proc : pc[p] = "write" => dev[p] \in Device /\ sent \subseteq {dev[p]}
    /\ \A p, q \in Proc : pc[p] = "write" /\ pc[q] = "write" => p = q

\* Once it has an id, everybody uses it and nobody writes it again.
WholeFile ==
    /\ device \in Device
    /\ sent \subseteq {device}
    /\ \A p \in Enroller : pc[p] = "sign" => dev[p] = device
    /\ \A p \in Proc : pc[p] # "write"

DeviceInv ==
    /\ pc \in [Proc -> Label]
    /\ \A p \in Proc :
          /\ pc[p] \notin {"renewCert", "useCert", "renewKey", "useKey"}
          /\ p \in Renewer => pc[p] = "idle"
    /\ dev \in [Proc -> Device \cup {Absent}]
    /\ deviceOf \in [Key -> Device \cup {Absent}]
    /\ file \in [Credential -> Key \cup {Absent, Blank}]
    /\ \/ device = Absent /\ NoFile
       \/ device = Blank /\ EmptyFile
       \/ WholeFile

RenewersIdle == \A p \in Renewer : pc[p] = "idle"

\* No renewal that has begun is idle again, and a logout that went on without the
\* device id is not forgotten.
IdentityInv ==
    /\ pc \in [Proc -> Label]
    /\ RenewersIdle /\ ~skipped => DeviceInv

-----------------------------------------------------------------------------
\* The installation is as an earlier use left it.
LEMMA InitDevice == Init => DeviceInv
<1> SUFFICES ASSUME Init PROVE DeviceInv
  OBVIOUS
<1> USE KindAssumption DEF Init, Proc, Key, Device, Credential, Label, Ended
<1>0. pc \in [Proc -> Label] /\ \A p \in Proc : pc[p] = "idle"
  <2>1. pc = [p \in Proc |-> "idle"]
    OBVIOUS
  <2> QED
    BY <2>1
<1>1. dev \in [Proc -> Device \cup {Absent}]
  OBVIOUS
<1>2. /\ file \in [Credential -> Key \cup {Absent, Blank}]
      /\ deviceOf \in [Key -> Device \cup {Absent}]
  OBVIOUS
<1>3. (device = Absent /\ NoFile) \/ WholeFile
  <2>1. PICK stage \in Stages :
          /\ file = [f \in Credential |-> IF stage = "fresh" THEN Absent ELSE First]
          /\ device = IF stage = "current" THEN FirstDevice ELSE Absent
          /\ deviceOf = [k \in Key |->
                IF k = First /\ stage # "fresh" THEN FirstDevice ELSE Absent]
          /\ sent = IF stage = "fresh" THEN {} ELSE {FirstDevice}
    OBVIOUS
  <2>2. \A p \in Proc : pc[p] = "idle"
    OBVIOUS
  <2>3. CASE stage = "current"
    BY <2>1, <2>2, <2>3 DEF WholeFile
  <2>4. CASE stage # "current"
    BY <2>1, <2>2, <2>4 DEF NoFile, NobodyHasDevice
  <2> QED
    BY <2>3, <2>4
<1> QED
  BY <1>0, <1>1, <1>2, <1>3 DEF DeviceInv

Elsewhere == {"device", "remove", "removeRest", "failed", "done", "migrate"}

\* Every step of a process takes it somewhere, and no process is idle again.
LEMMA StepsGoOn ==
  ASSUME NEW p \in Proc, Step(p) \/ Crash(p)
  PROVE  \E l \in Label \ {"idle"} : Goto(p, l)
<1> USE DEF Label, Ended
<1>1. CASE LoadIdentity(p)
  BY <1>1 DEF LoadIdentity
<1>2. CASE ReadCert(p) \/ ReadKey(p)
  BY <1>2 DEF ReadCert, ReadKey
<1>3. CASE SignRenewal(p) \/ SignEnrollment(p)
  BY <1>3 DEF SignRenewal, SignEnrollment, StartStore, Refused, AnswerLost
<1>4. CASE BeginEnroll(p) \/ BeginLogout(p)
  BY <1>4 DEF BeginEnroll, BeginLogout
<1>5. CASE ReadDevice(p) \/ Migrate(p)
  BY <1>5 DEF ReadDevice, Migrate, NoDevice, WithDevice
<1>6. CASE CreateDevice(p) \/ WriteDevice(p) \/ DeviceFails(p)
  BY <1>6 DEF CreateDevice, WriteDevice, DeviceFails, WithDevice, NoDevice
<1>7. CASE Truncate(p) \/ Fill(p) \/ StoreFails(p)
  BY <1>7 DEF Truncate, Fill, StoreFails
<1>7a. CASE Remove(p) \/ RemoveFails(p) \/ Crash(p)
  BY <1>7a DEF Remove, RemoveFails, Crash
<1> QED
  BY <1>1, <1>2, <1>3, <1>4, <1>5, <1>6, <1>7, <1>7a DEF Step

LEMMA SkippedStays ==
  ASSUME NEW p \in Proc, Step(p) \/ Crash(p)
  PROVE  skipped => skipped'
BY DEF Step, Crash, LoadIdentity, ReadCert, ReadKey, SignRenewal, BeginEnroll, BeginLogout,
   ReadDevice, Migrate, CreateDevice, WriteDevice, DeviceFails, SignEnrollment, Truncate, Fill,
   StoreFails, Remove, RemoveFails, history

\* A process that moves, and neither touches a file nor comes to hold a device id.
LEMMA MovingKeeps ==
  ASSUME DeviceInv, NEW p \in Proc, p \notin Renewer, NEW l \in Elsewhere, Goto(p, l),
         file' = file, device' = device, dev' = dev, deviceOf' = deviceOf, sent' = sent,
         l \in {"remove", "removeRest"} => device # Absent \/ file["whoami"] = Absent
  PROVE  DeviceInv'
<1>1. pc' \in [Proc -> Label] /\ pc'[p] = l /\ \A q \in Proc \ {p} : pc'[q] = pc[q]
  BY DEF DeviceInv, Goto, Elsewhere, Label, Ended
<1> USE DEF Elsewhere
<1>2. CASE device = Absent /\ NoFile
  BY <1>1, <1>2, KindAssumption DEF DeviceInv, NoFile, NobodyHasDevice
<1>3. CASE device = Blank /\ EmptyFile
  BY <1>1, <1>3 DEF DeviceInv, EmptyFile, Proc
<1>4. CASE WholeFile
  BY <1>1, <1>4 DEF DeviceInv, WholeFile, Proc
<1> QED
  BY <1>2, <1>3, <1>4 DEF DeviceInv

\* Every step of a login or a logout keeps the device id of the installation.
LEMMA NextDevice ==
  ASSUME DeviceInv, RenewersIdle', ~skipped', [Next]_vars
  PROVE  DeviceInv'
<1> USE KindAssumption DEF local, remote, history, Label, Ended
<1>1. CASE UNCHANGED vars
  BY <1>1 DEF vars, DeviceInv, NoFile, NobodyHasDevice, EmptyFile, WholeFile
<1>2. CASE Expire
  BY <1>2 DEF Expire, DeviceInv, NoFile, NobodyHasDevice, EmptyFile, WholeFile
<1>3. ASSUME NEW p \in Proc, Step(p) \/ Crash(p)
      PROVE  DeviceInv'
  <2>r. p \notin Renewer
    <3>1. PICK l \in Label \ {"idle"} : Goto(p, l)
      BY <1>3, StepsGoOn
    <3>2. pc'[p] = l
      BY <3>1 DEF Goto, DeviceInv
    <3> QED
      BY <3>1, <3>2 DEF RenewersIdle
  <2> USE <2>r
  <2>0. \/ device = Absent /\ NoFile
        \/ device = Blank /\ EmptyFile
        \/ WholeFile
    BY DEF DeviceInv
  <2>1. ~LoadIdentity(p) /\ ~SignRenewal(p) /\ ~ReadCert(p) /\ ~ReadKey(p)
    BY DEF LoadIdentity, SignRenewal, ReadCert, ReadKey, DeviceInv
  <2>4. CASE BeginEnroll(p)
    <3>1. file' = file /\ device' = device /\ dev' = dev /\ deviceOf' = deviceOf /\ sent' = sent
      BY <2>4 DEF BeginEnroll
    <3>2. CASE Goto(p, "device")
      BY <3>1, <3>2, MovingKeeps DEF Elsewhere
    <3>3. CASE Goto(p, "failed")
      BY <3>1, <3>3, MovingKeeps DEF Elsewhere
    <3> QED
      BY <2>4, <3>2, <3>3 DEF BeginEnroll
  <2>5. CASE BeginLogout(p)
    <3>1. file' = file /\ device' = device /\ dev' = dev /\ deviceOf' = deviceOf /\ sent' = sent
      BY <2>5 DEF BeginLogout
    <3>2. CASE file["whoami"] = Absent
      BY <2>5, <3>1, <3>2, MovingKeeps DEF BeginLogout, Elsewhere
    <3>3. CASE file["whoami"] # Absent
      BY <2>5, <3>1, <3>3, MovingKeeps DEF BeginLogout, Elsewhere
    <3> QED
      BY <3>2, <3>3
  <2>6. CASE Crash(p)
    BY <2>6, MovingKeeps DEF Crash, Elsewhere
  <2>7. CASE ReadDevice(p)
    <3>1. file' = file /\ device' = device /\ deviceOf' = deviceOf /\ sent' = sent
      BY <2>7 DEF ReadDevice
    <3>2. CASE dev' = dev /\ device = Absent
      BY <2>7, <3>1, <3>2, MovingKeeps DEF ReadDevice, Elsewhere, Device, Key
    <3>3. CASE dev' = dev /\ device = Blank
      <4>1. PICK l \in {"removeRest", "failed"} : Goto(p, l)
        BY <2>7, <3>3 DEF ReadDevice, NoDevice, Device
      <4> QED
        BY <3>1, <3>3, <4>1, MovingKeeps DEF Elsewhere
    <3>4. CASE device \in Device /\ dev' = [dev EXCEPT ![p] = device] /\ Goto(p, WithDevice(p))
      <4>1. WholeFile
        BY <2>0, <3>4
      <4>2. /\ pc' \in [Proc -> Label]
            /\ dev' \in [Proc -> Device \cup {Absent}]
            /\ \A q \in Proc \ {p} : pc'[q] = pc[q] /\ dev'[q] = dev[q]
            /\ pc'[p] = WithDevice(p) /\ dev'[p] = device
        BY <3>4 DEF Goto, DeviceInv, WithDevice
      <4>3. pc'[p] \in {"remove", "sign"}
        BY <4>2 DEF WithDevice
      <4>4. WholeFile'
        BY <3>1, <3>4, <4>1, <4>2, <4>3 DEF WholeFile, Proc
      <4> QED
        BY <3>1, <4>2, <4>3, <4>4 DEF DeviceInv
    <3> QED
      BY <2>7, <3>2, <3>3, <3>4 DEF ReadDevice
  <2>8. CASE Migrate(p)
    <3>1. file' = file /\ device' = device /\ deviceOf' = deviceOf /\ sent' = sent
      BY <2>8 DEF Migrate
    <3>2. PICK l \in {"removeRest", "failed", "create"} : Goto(p, l)
      BY <2>8 DEF Migrate, NoDevice
    <3>3. PICK d \in Device \cup {Absent} : dev' = [dev EXCEPT ![p] = d]
      BY <2>8 DEF Migrate, DeviceInv, Device, Key, Proc
    <3>4. /\ pc' \in [Proc -> Label]
          /\ dev' \in [Proc -> Device \cup {Absent}]
          /\ \A q \in Proc \ {p} : pc'[q] = pc[q] /\ dev'[q] = dev[q]
          /\ pc'[p] = l /\ dev'[p] = d
      BY <3>2, <3>3 DEF Goto, DeviceInv
    <3>5. CASE device = Absent /\ NoFile
      <4>1. l = "create" /\ d \in Device /\ sent \subseteq {d}
        BY <2>8, <3>4, <3>5 DEF Migrate, Goto, NoFile, DeviceInv, Device, Key, Proc
      <4>2. NoFile'
        BY <3>1, <3>4, <3>5, <4>1 DEF NoFile, NobodyHasDevice
      <4> QED
        BY <3>1, <3>4, <3>5, <4>1, <4>2 DEF DeviceInv
    <3>6. CASE device = Blank /\ EmptyFile
      BY <3>1, <3>4, <3>6 DEF DeviceInv, EmptyFile, Proc
    <3>7. CASE WholeFile
      BY <3>1, <3>4, <3>7 DEF DeviceInv, WholeFile, Proc
    <3> QED
      BY <2>0, <3>5, <3>6, <3>7
  <2>9. CASE CreateDevice(p)
    <3>1. file' = file /\ dev' = dev /\ deviceOf' = deviceOf /\ sent' = sent /\ pc[p] = "create"
      BY <2>9 DEF CreateDevice
    <3>2. CASE device = Absent /\ device' = Blank /\ Goto(p, "write")
      <4>1. NoFile
        BY <2>0, <3>2 DEF WholeFile, Device, Key
      <4>2. /\ pc' \in [Proc -> Label] /\ pc'[p] = "write"
            /\ \A q \in Proc \ {p} : pc'[q] = pc[q]
        BY <3>2 DEF Goto, DeviceInv
      <4>3. EmptyFile'
        BY <3>1, <3>2, <4>1, <4>2 DEF EmptyFile, NoFile, NobodyHasDevice, Proc
      <4> QED
        BY <3>1, <3>2, <4>2, <4>3 DEF DeviceInv
    <3>3. CASE device' = device /\ Goto(p, "device")
      BY <3>1, <3>3, MovingKeeps DEF Elsewhere
    <3> QED
      BY <2>9, <3>2, <3>3 DEF CreateDevice
  <2>10. CASE WriteDevice(p)
    <3>1. /\ file' = file /\ dev' = dev /\ deviceOf' = deviceOf /\ sent' = sent
          /\ pc[p] = "write" /\ device' = dev[p] /\ Goto(p, WithDevice(p))
      BY <2>10 DEF WriteDevice
    <3>2. EmptyFile
      BY <2>0, <3>1 DEF NoFile, NobodyHasDevice, WholeFile
    <3>3. /\ pc' \in [Proc -> Label] /\ pc'[p] \in {"remove", "sign"}
          /\ \A q \in Proc \ {p} : pc'[q] = pc[q]
      BY <3>1 DEF Goto, DeviceInv, WithDevice
    <3>4. WholeFile'
      BY <3>1, <3>2, <3>3 DEF EmptyFile, WholeFile, Proc
    <3> QED
      BY <3>1, <3>3, <3>4 DEF DeviceInv
  <2>10a. CASE DeviceFails(p)
    <3>1. /\ file' = file /\ dev' = dev /\ deviceOf' = deviceOf /\ sent' = sent
          /\ \/ pc[p] \in {"device", "migrate", "create"} /\ device' = device
             \/ pc[p] = "write" /\ device' \in {Blank, dev[p]}
      BY <2>10a DEF DeviceFails
    <3>2. PICK l \in {"removeRest", "failed"} : Goto(p, l) /\ (l = "removeRest" => p \in Leaver)
      BY <2>10a DEF DeviceFails, NoDevice
    <3>3. CASE pc[p] \in {"device", "migrate", "create"} /\ device' = device
      <4>1. l = "failed"
        BY <2>10a, <3>2, <3>3 DEF DeviceFails
      <4> QED
        BY <3>1, <3>2, <3>3, <4>1, MovingKeeps DEF Elsewhere
    <3>4. CASE pc[p] = "write" /\ device' \in {Blank, dev[p]}
      <4>1. EmptyFile
        BY <2>0, <3>4 DEF NoFile, NobodyHasDevice, WholeFile
      <4>2. /\ pc' \in [Proc -> Label] /\ pc'[p] = l
            /\ \A q \in Proc \ {p} : pc'[q] = pc[q]
        BY <3>2 DEF Goto, DeviceInv
      <4>3. CASE device' = Blank
        <5>1. EmptyFile'
          BY <3>1, <4>1, <4>2 DEF EmptyFile, Proc
        <5> QED
          BY <3>1, <4>2, <4>3, <5>1 DEF DeviceInv
      <4>4. CASE device' = dev[p]
        <5>1. WholeFile'
          BY <3>1, <3>4, <4>1, <4>2, <4>4 DEF EmptyFile, WholeFile, Proc
        <5> QED
          BY <3>1, <4>2, <5>1 DEF DeviceInv
      <4> QED
        BY <3>4, <4>3, <4>4
    <3> QED
      BY <3>1, <3>3, <3>4
  <2>11. CASE SignEnrollment(p)
    <3>1. /\ file' = file /\ dev' = dev /\ device' = device /\ sent' = sent \cup {dev[p]}
          /\ pc[p] = "sign" /\ p \in Enroller
      BY <2>11 DEF SignEnrollment
    <3>2. WholeFile
      BY <2>0, <3>1 DEF NoFile, NobodyHasDevice, EmptyFile
    <3>3. PICK l \in {"truncate", "failed"} : Goto(p, l)
      BY <2>11 DEF SignEnrollment, StartStore, Refused, AnswerLost
    <3>4. pc' \in [Proc -> Label] /\ pc'[p] = l /\ \A q \in Proc \ {p} : pc'[q] = pc[q]
      BY <3>3 DEF Goto, DeviceInv
    <3>5. deviceOf' = deviceOf \/ deviceOf' = [deviceOf EXCEPT ![p] = dev[p]]
      BY <2>11 DEF SignEnrollment, Certify, Refused, AnswerLost
    <3>6. deviceOf' \in [Key -> Device \cup {Absent}]
      BY <3>5 DEF DeviceInv
    <3>7. WholeFile'
      BY <3>1, <3>2, <3>4 DEF WholeFile, Proc
    <3> QED
      BY <3>1, <3>4, <3>6, <3>7 DEF DeviceInv
  <2>12. CASE Truncate(p)
    <3>1. /\ dev' = dev /\ device' = device /\ deviceOf' = deviceOf /\ sent' = sent
          /\ pc[p] = "truncate" /\ Goto(p, "fill")
          /\ file' = [file EXCEPT ![Head(todo[p])] = Blank]
      BY <2>12 DEF Truncate
    <3>2. file' \in [Credential -> Key \cup {Absent, Blank}]
      BY <3>1 DEF DeviceInv
    <3>3. pc' \in [Proc -> Label] /\ pc'[p] = "fill" /\ \A q \in Proc \ {p} : pc'[q] = pc[q]
      BY <3>1 DEF Goto, DeviceInv
    <3> QED
      BY <2>0, <3>1, <3>2, <3>3 DEF DeviceInv, NoFile, NobodyHasDevice, EmptyFile, WholeFile, Proc
  <2>13. CASE Fill(p)
    <3>1. /\ dev' = dev /\ device' = device /\ deviceOf' = deviceOf /\ sent' = sent
          /\ pc[p] = "fill"
          /\ file' = file \/ file' = [file EXCEPT ![Head(todo[p])] = p]
      BY <2>13 DEF Fill
    <3>2. file' \in [Credential -> Key \cup {Absent, Blank}]
      BY <3>1 DEF DeviceInv, Key
    <3>3. PICK l \in {"truncate", "done"} : Goto(p, l)
      BY <2>13 DEF Fill, Proc
    <3>4. pc' \in [Proc -> Label] /\ pc'[p] = l /\ \A q \in Proc \ {p} : pc'[q] = pc[q]
      BY <3>3 DEF Goto, DeviceInv
    <3> QED
      BY <2>0, <3>1, <3>2, <3>4 DEF DeviceInv, NoFile, NobodyHasDevice, EmptyFile, WholeFile, Proc
  <2>14. CASE Remove(p)
    <3>1. /\ dev' = dev /\ device' = device /\ deviceOf' = deviceOf /\ sent' = sent
          /\ pc[p] \in {"remove", "removeRest"}
          /\ file' = [file EXCEPT ![Head(todo[p])] = Absent]
      BY <2>14 DEF Remove
    <3>2. file' \in [Credential -> Key \cup {Absent, Blank}]
      BY <3>1 DEF DeviceInv
    <3>3. file["whoami"] = Absent => file'["whoami"] = Absent
      BY <3>1 DEF DeviceInv, Credential
    <3>4. PICK l \in {"remove", "removeRest", "done", "failed"} : Goto(p, l)
      BY <2>14 DEF Remove
    <3>5. pc' \in [Proc -> Label] /\ pc'[p] = l /\ \A q \in Proc \ {p} : pc'[q] = pc[q]
      BY <3>4 DEF Goto, DeviceInv
    <3> QED
      BY <2>0, <3>1, <3>2, <3>3, <3>5
         DEF DeviceInv, NoFile, NobodyHasDevice, EmptyFile, WholeFile, Proc
  <2>15. CASE StoreFails(p)
    BY <2>15, MovingKeeps DEF StoreFails, Elsewhere
  <2>16. CASE RemoveFails(p)
    <3>1. /\ UNCHANGED <<file, device, dev, deviceOf, sent>>
          /\ pc[p] \in {"remove", "removeRest"}
      BY <2>16 DEF RemoveFails
    <3>2. PICK l \in {"removeRest", "failed"} : Goto(p, l)
      BY <2>16 DEF RemoveFails
    <3>3. device # Absent \/ file["whoami"] = Absent
      BY <2>0, <3>1 DEF NoFile, WholeFile, Device, Key
    <3> QED
      BY <3>1, <3>2, <3>3, MovingKeeps DEF Elsewhere
  <2> QED
    BY <1>3, <2>1, <2>4, <2>5, <2>6, <2>7, <2>8, <2>9, <2>10, <2>10a, <2>11, <2>12, <2>13,
       <2>14, <2>15, <2>16 DEF Step
<1> QED
  BY <1>1, <1>2, <1>3 DEF Next

\* "Exclusive creation makes concurrent first enrollments share one identity"
\* (device_id.go:56-57), and migration keeps the one an older version was given, for
\* any number of logins and logouts and whatever fails, while no renewal has begun
\* and no logout has gone on without the device id after a failing file operation.
THEOREM OneDeviceEver == Spec => []OneDevice
<1>1. Init => IdentityInv
  BY InitDevice DEF IdentityInv, DeviceInv
<1>2. IdentityInv /\ [Next]_vars => IdentityInv'
  <2> SUFFICES ASSUME IdentityInv, [Next]_vars PROVE IdentityInv'
    OBVIOUS
  <2>1. /\ pc' \in [Proc -> Label]
        /\ RenewersIdle' => RenewersIdle
        /\ skipped => skipped'
    <3>1. CASE UNCHANGED vars
      BY <3>1 DEF IdentityInv, RenewersIdle, vars, local, history
    <3>2. CASE Expire
      BY <3>2 DEF IdentityInv, RenewersIdle, Expire, local, history
    <3>3. ASSUME NEW p \in Proc, Step(p) \/ Crash(p)
          PROVE  /\ pc' \in [Proc -> Label]
                 /\ RenewersIdle' => RenewersIdle
                 /\ skipped => skipped'
      BY <3>3, StepsGoOn, SkippedStays DEF IdentityInv, RenewersIdle, Goto, Proc
    <3> QED
      BY <3>1, <3>2, <3>3 DEF Next
  <2> QED
    BY <2>1, NextDevice DEF IdentityInv
<1>3. IdentityInv => OneDevice
  BY DEF IdentityInv, RenewersIdle, DeviceInv, NoFile, EmptyFile, WholeFile, OneDevice
<1> QED
  BY <1>1, <1>2, <1>3, PTL DEF Spec

-----------------------------------------------------------------------------
(* One process at a time: what it has written or removed, and the rest.      *)

Whole == file["key"] = file["cert"] /\ file["cert"] = file["whoami"]
AllThree == <<"key", "cert", "whoami">>
Lists == {AllThree, <<"cert", "whoami">>, <<"whoami">>, <<>>}
BeforeRemoval == {"device", "migrate", "create", "write"}

\* What a process that stores or removes the three files is done with.
Handled(p) ==
    {f \in Credential : \/ f = "key" /\ todo[p] # AllThree
                        \/ f = "cert" /\ todo[p] = <<"whoami">>}

AloneParts ==
    /\ orphan = {}
    /\ \A p, q \in Proc : Running(p) /\ Running(q) => p = q
    /\ \A p \in Proc : pc[p] \in {"truncate", "fill"} => \A f \in Handled(p) : file[f] = p
    /\ \A p \in Proc : pc[p] = "remove" => \A f \in Handled(p) : file[f] = Absent
    /\ \A p \in Proc : pc[p] = "removeRest" /\ ~cut => \A f \in Handled(p) : file[f] = Absent
    /\ Whole \/ cut \/ \E p \in Proc : pc[p] \in Changing

AloneType ==
    /\ pc \in [Proc -> Label] /\ todo \in [Proc -> Lists]
    /\ file \in [Credential -> Key \cup {Absent, Blank}]
    /\ \A p \in Leaver : pc[p] \in BeforeRemoval => todo[p] = AllThree
    /\ \A p \in Proc : pc[p] \in Changing => todo[p] # <<>>

AloneInv ==
    /\ AloneType
    /\ overlapped \/ AloneParts

LEMMA AloneInit == Init => AloneInv
<1> SUFFICES ASSUME Init PROVE AloneInv
  OBVIOUS
<1>1. /\ pc = [p \in Proc |-> "idle"] /\ todo = [p \in Proc |-> <<>>] /\ orphan = {}
      /\ file = [f \in Credential |-> Absent] \/ file = [f \in Credential |-> First]
  BY DEF Init
<1>2. file \in [Credential -> Key \cup {Absent, Blank}] /\ Whole
  BY <1>1 DEF Whole, Credential, Key
<1>3. AloneParts
  BY <1>1, <1>2 DEF AloneParts, Running, Ended
<1> QED
  BY <1>1, <1>2, <1>3 DEF AloneInv, AloneType, Label, Ended, Lists, Changing, BeforeRemoval, Proc

\* A process begins once, and works alone unless the runs overlap.
LEMMA StepsRun ==
  ASSUME NEW p \in Proc, Step(p)
  PROVE  /\ \E l \in Label \ {"idle"} : Goto(p, l)
         /\ Begins(p) \/ (Running(p) /\ overlapped' = overlapped)
<1> USE DEF Label, Ended, Running
<1>1. CASE LoadIdentity(p)
  BY <1>1 DEF LoadIdentity
<1>2. CASE ReadCert(p) \/ ReadKey(p)
  BY <1>2 DEF ReadCert, ReadKey, history
<1>3. CASE SignRenewal(p) \/ SignEnrollment(p)
  BY <1>3 DEF SignRenewal, SignEnrollment, StartStore, Refused, AnswerLost, history
<1>4. CASE BeginEnroll(p) \/ BeginLogout(p)
  BY <1>4 DEF BeginEnroll, BeginLogout
<1>5. CASE ReadDevice(p) \/ Migrate(p)
  BY <1>5 DEF ReadDevice, Migrate, NoDevice, WithDevice, history
<1>6. CASE CreateDevice(p) \/ WriteDevice(p) \/ DeviceFails(p)
  BY <1>6 DEF CreateDevice, WriteDevice, DeviceFails, WithDevice, NoDevice, history
<1>7. CASE Truncate(p) \/ Fill(p) \/ StoreFails(p)
  BY <1>7 DEF Truncate, Fill, StoreFails, history
<1>7a. CASE Remove(p) \/ RemoveFails(p)
  BY <1>7a DEF Remove, RemoveFails
<1> QED
  BY <1>1, <1>2, <1>3, <1>4, <1>5, <1>6, <1>7, <1>7a DEF Step

\* The files keep their kind, and a process that changes them has one to do.
LEMMA StepsTyped ==
  ASSUME AloneType, NEW p \in Proc, Step(p)
  PROVE  /\ AloneType'
         /\ pc[p] \notin Changing /\ pc'[p] \in Changing => todo'[p] = AllThree
<1>1. PICK l \in Label \ {"idle"} : Goto(p, l)
  BY StepsRun
<1>2. pc' \in [Proc -> Label] /\ pc'[p] = l /\ \A q \in Proc \ {p} : pc'[q] = pc[q]
  BY <1>1 DEF Goto, AloneType
<1>3. SUFFICES /\ todo' \in [Proc -> Lists] /\ file' \in [Credential -> Key \cup {Absent, Blank}]
               /\ \A q \in Proc \ {p} : todo'[q] = todo[q]
               /\ p \in Leaver /\ l \in BeforeRemoval => todo'[p] = AllThree
               /\ l \in Changing => todo'[p] # <<>>
               /\ pc[p] \notin Changing /\ l \in Changing => todo'[p] = AllThree
  BY <1>2 DEF AloneType, Proc
<1>4. AllThree \in Lists /\ AllThree # <<>>
  BY DEF Lists, AllThree
<1> USE DEF AloneType, BeforeRemoval, Changing, Proc
<1>5. CASE LoadIdentity(p) \/ ReadCert(p) \/ ReadKey(p)
  BY <1>2, <1>5, KindAssumption DEF LoadIdentity, ReadCert, ReadKey, Goto
<1>6. CASE SignRenewal(p) \/ SignEnrollment(p)
  <2>1. file' = file /\ p \notin Leaver
    BY <1>6, KindAssumption DEF SignRenewal, SignEnrollment
  <2>2. \/ l = "truncate" /\ todo' = [todo EXCEPT ![p] = AllThree]
        \/ l = "failed" /\ todo' = todo
    BY <1>2, <1>6 DEF SignRenewal, SignEnrollment, StartStore, Refused, AnswerLost, Goto, AllThree
  <2> QED
    BY <1>4, <2>1, <2>2
<1>7. CASE BeginEnroll(p)
  BY <1>2, <1>7, KindAssumption DEF BeginEnroll, Goto
<1>8. CASE BeginLogout(p)
  BY <1>2, <1>4, <1>8 DEF BeginLogout, AllThree
<1>9. CASE ReadDevice(p) \/ Migrate(p) \/ CreateDevice(p) \/ WriteDevice(p) \/ DeviceFails(p)
  <2>1. UNCHANGED <<file, todo>> /\ pc[p] \in BeforeRemoval
    BY <1>9 DEF ReadDevice, Migrate, CreateDevice, WriteDevice, DeviceFails
  <2>2. \/ l \in {"sign", "failed"} \/ l \in BeforeRemoval
        \/ p \in Leaver /\ l \in {"remove", "removeRest"}
    BY <1>2, <1>9 DEF ReadDevice, Migrate, CreateDevice, WriteDevice, DeviceFails, WithDevice,
       NoDevice, Goto
  <2> QED
    BY <1>4, <2>1, <2>2
<1>10. CASE Truncate(p)
  BY <1>2, <1>10 DEF Truncate, Goto
<1>10a. CASE StoreFails(p)
  BY <1>2, <1>10a DEF StoreFails, Goto
<1>11. CASE Fill(p) \/ Remove(p) \/ RemoveFails(p)
  <2>1. file' \in [Credential -> Key \cup {Absent, Blank}]
    BY <1>11 DEF Fill, Remove, RemoveFails, Key
  <2>2. todo[p] \in Lists \ {<<>>}
    BY <1>11 DEF Fill, Remove, RemoveFails
  <2>3. Tail(todo[p]) \in Lists /\ (Len(todo[p]) > 1 => Tail(todo[p]) # <<>>)
    <3>1. /\ Tail(AllThree) = <<"cert", "whoami">>
          /\ Tail(<<"cert", "whoami">>) = <<"whoami">>
          /\ Tail(<<"whoami">>) = <<>> /\ ~(Len(<<"whoami">>) > 1)
          /\ <<"cert", "whoami">> # <<>> /\ <<"whoami">> # <<>>
      BY DEF AllThree
    <3> QED
      BY <2>2, <3>1 DEF Lists
  <2>4. /\ todo' = [todo EXCEPT ![p] = Tail(todo[p])]
        /\ l \in Changing => Len(todo[p]) > 1
        /\ l \notin BeforeRemoval /\ pc[p] \in Changing
    BY <1>2, <1>11 DEF Fill, Remove, RemoveFails, Goto
  <2> QED
    BY <2>1, <2>3, <2>4
<1> QED
  BY <1>5, <1>6, <1>7, <1>8, <1>9, <1>10, <1>10a, <1>11 DEF Step

\* What is left to show of a step of the one process at work.
LEMMA OnlyOne ==
  ASSUME AloneType, AloneParts, AloneType', NEW p \in Proc, Step(p), ~overlapped',
         orphan' = {},
         pc'[p] \in {"truncate", "fill"} => \A f \in Handled(p)' : file'[f] = p,
         pc'[p] = "remove" => \A f \in Handled(p)' : file'[f] = Absent,
         pc'[p] = "removeRest" /\ ~cut' => \A f \in Handled(p)' : file'[f] = Absent,
         pc'[p] \notin Changing => Whole' \/ cut'
  PROVE  AloneParts'
<1>1. PICK l \in Label \ {"idle"} : Goto(p, l)
  BY StepsRun
<1>2. pc'[p] = l /\ \A q \in Proc \ {p} : pc'[q] = pc[q]
  BY <1>1 DEF Goto, AloneType
<1>3. \A q \in Proc \ {p} : pc[q] \in Ended \cup {"idle"}
  BY StepsRun DEF Begins, AloneParts, Running
<1>4. \A q \in Proc \ {p} : pc'[q] \notin Changing
  BY <1>2, <1>3 DEF Ended, Changing
<1>5. \A q, r \in Proc : Running(q)' /\ Running(r)' => q = r
  BY <1>2, <1>3 DEF Running
<1>7. /\ \A q \in Proc : pc'[q] \in {"truncate", "fill"} => \A f \in Handled(q)' : file'[f] = q
      /\ \A q \in Proc : pc'[q] = "remove" => \A f \in Handled(q)' : file'[f] = Absent
      /\ \A q \in Proc : pc'[q] = "removeRest" /\ ~cut'
                            => \A f \in Handled(q)' : file'[f] = Absent
  BY <1>4 DEF Changing
<1> QED
  BY <1>5, <1>7 DEF AloneParts

\* A step that changes no file leaves all three to do, if any.
LEMMA OnlyMoves ==
  ASSUME AloneType, AloneParts, AloneType', NEW p \in Proc, Step(p), ~overlapped',
         pc[p] \notin Changing, UNCHANGED <<file, orphan, cut>>,
         pc'[p] \in Changing => todo'[p] = AllThree
  PROVE  AloneParts'
<1>1. \A q \in Proc : pc[q] \notin Changing
  BY StepsRun DEF Begins, AloneParts, Running, Ended, Changing
<1>2. Whole' \/ cut'
  BY <1>1 DEF AloneParts, Whole
<1>3. todo'[p] = AllThree => Handled(p)' = {}
  BY DEF Handled, AllThree
<1> QED
  BY <1>2, <1>3, OnlyOne DEF AloneParts, Changing

\* Truncating, filling or removing the next file.
LEMMA OnlyChanges ==
  ASSUME AloneType, AloneParts, AloneType', NEW p \in Proc, ~overlapped',
         Truncate(p) \/ Fill(p) \/ Remove(p) \/ RemoveFails(p)
  PROVE  AloneParts'
<1>1. Step(p) /\ pc[p] \in Changing /\ todo[p] \in Lists \ {<<>>}
  BY DEF Step, Truncate, Fill, Remove, RemoveFails, Changing, AloneType, AloneParts
<1>2. /\ AllThree # <<"cert", "whoami">> /\ AllThree # <<"whoami">> /\ AllThree # <<>>
      /\ <<"cert", "whoami">> # <<"whoami">> /\ <<"cert", "whoami">> # <<>> /\ <<"whoami">> # <<>>
  BY DEF AllThree
<1>2a. /\ Head(AllThree) = "key" /\ Tail(AllThree) = <<"cert", "whoami">> /\ Len(AllThree) > 1
      /\ Head(<<"cert", "whoami">>) = "cert" /\ Tail(<<"cert", "whoami">>) = <<"whoami">>
      /\ Len(<<"cert", "whoami">>) > 1
      /\ Head(<<"whoami">>) = "whoami" /\ Tail(<<"whoami">>) = <<>> /\ ~(Len(<<"whoami">>) > 1)
  BY DEF AllThree
<1>3. PICK h \in Credential, t \in Lists :
        /\ Head(todo[p]) = h /\ Tail(todo[p]) = t
        /\ Len(todo[p]) > 1 <=> t # <<>>
        /\ \/ todo[p] = AllThree /\ h = "key" /\ t = <<"cert", "whoami">>
           \/ todo[p] = <<"cert", "whoami">> /\ h = "cert" /\ t = <<"whoami">>
           \/ todo[p] = <<"whoami">> /\ h = "whoami" /\ t = <<>>
  <2>1. CASE todo[p] = AllThree
    BY <1>2, <1>2a, <2>1 DEF Lists, Credential
  <2>2. CASE todo[p] = <<"cert", "whoami">>
    BY <1>2, <1>2a, <2>2 DEF Lists, Credential
  <2>3. CASE todo[p] = <<"whoami">>
    BY <1>2, <1>2a, <2>3 DEF Lists, Credential
  <2> QED
    BY <1>1, <2>1, <2>2, <2>3 DEF Lists
<1>4. h \notin Handled(p)
  BY <1>2, <1>3 DEF Handled
<1>5. todo'[p] = t => \A f \in Handled(p)' : f \in Handled(p) \/ f = h
  <2>1. CASE h = "key"
    BY <1>2, <1>3, <2>1 DEF Handled
  <2>2. CASE h # "key"
    BY <1>2, <1>3, <2>2 DEF Handled
  <2> QED
    BY <2>1, <2>2
<1>6. todo'[p] = todo[p] => Handled(p)' = Handled(p)
  BY DEF Handled
<1>7. \A f \in Credential : t = <<>> => f \in Handled(p) \/ f = h
  <2>1. t = <<>> => todo[p] = <<"whoami">> /\ h = "whoami"
    BY <1>2, <1>3
  <2> QED
    BY <1>2, <2>1 DEF Handled, Credential
<1>8. "key" \in Credential /\ "cert" \in Credential /\ "whoami" \in Credential
  BY DEF Credential
<1>9. ASSUME NEW x \in Key \cup {Absent, Blank}
      PROVE  /\ [file EXCEPT ![h] = x] \in [Credential -> Key \cup {Absent, Blank}]
             /\ [file EXCEPT ![h] = x][h] = x
             /\ \A f \in Credential \ {h} : [file EXCEPT ![h] = x][f] = file[f]
  BY DEF AloneType
<1>10. CASE Truncate(p)
  <2>1. /\ file' = [file EXCEPT ![h] = Blank] /\ pc' = [pc EXCEPT ![p] = "fill"]
        /\ pc[p] = "truncate" /\ UNCHANGED <<todo, orphan, cut>>
    BY <1>3, <1>10 DEF Truncate, Goto, history
  <2>2. AloneType' /\ pc'[p] = "fill"
    BY <1>9, <2>1 DEF AloneType, Label, Ended
  <2>3. \A f \in Handled(p)' : file'[f] = p
    BY <1>4, <1>6, <1>9, <2>1 DEF AloneParts, Handled
  <2> QED
    BY <1>1, <2>1, <2>2, <2>3, OnlyOne DEF AloneParts, Changing
<1>11. CASE Fill(p)
  <2>1. /\ file' = [file EXCEPT ![h] = p] /\ todo' = [todo EXCEPT ![p] = t] /\ orphan' = {}
        /\ pc[p] = "fill"
        /\ pc' = [pc EXCEPT ![p] = IF t # <<>> THEN "truncate"
                                   ELSE IF p \in Renewer THEN "useCert" ELSE "done"]
    BY <1>3, <1>11 DEF Fill, Goto, AloneParts
  <2>2. /\ AloneType' /\ todo'[p] = t /\ \A q \in Proc \ {p} : todo'[q] = todo[q]
        /\ pc'[p] \in {"truncate", "useCert", "done"} /\ (pc'[p] = "truncate" <=> t # <<>>)
    BY <1>9, <2>1 DEF AloneType, Label, Ended, Key
  <2>3. \A f \in Handled(p)' : file'[f] = p
    BY <1>5, <1>9, <2>1, <2>2 DEF AloneParts, Handled, Key
  <2>4. t = <<>> => Whole'
    <3> SUFFICES ASSUME t = <<>> PROVE Whole'
      OBVIOUS
    <3>1. file'[h] = p /\ \A f \in Credential \ {h} : file'[f] = file[f]
      BY <1>9, <2>1 DEF Key
    <3>2. \A f \in Handled(p) : file[f] = p
      BY <2>1 DEF AloneParts
    <3>3. \A f \in Credential : file'[f] = p
      BY <1>7, <3>1, <3>2
    <3> QED
      BY <1>8, <3>3 DEF Whole
  <2> QED
    BY <1>1, <2>1, <2>2, <2>3, <2>4, OnlyOne DEF Changing
<1>12. CASE Remove(p)
  <2>1. /\ file' = [file EXCEPT ![h] = Absent] /\ todo' = [todo EXCEPT ![p] = t]
        /\ orphan' = orphan \cup {q \in Proc : pc[q] = "fill" /\ Head(todo[q]) = h}
        /\ pc[p] \in {"remove", "removeRest"}
        /\ pc' = [pc EXCEPT ![p] = IF t # <<>> THEN pc[p]
                                   ELSE IF pc[p] = "remove" THEN "done" ELSE "failed"]
        /\ cut' = (cut /\ (t # <<>> \/ pc[p] = "removeRest"))
    BY <1>3, <1>12 DEF Remove, Goto
  <2>2. orphan' = {}
    BY <2>1 DEF AloneParts, Running, Ended
  <2>3. /\ AloneType' /\ todo'[p] = t /\ \A q \in Proc \ {p} : todo'[q] = todo[q]
        /\ pc'[p] \in {"remove", "removeRest", "done", "failed"}
        /\ pc'[p] \in {"remove", "removeRest"} => t # <<>> /\ pc'[p] = pc[p]
        /\ t # <<>> => pc'[p] = pc[p]
    BY <1>9, <2>1 DEF AloneType, Label, Ended
  <2>4. pc[p] = "remove" \/ ~cut => \A f \in Handled(p) : file[f] = Absent
    BY <2>1 DEF AloneParts
  <2>4a. pc[p] = "remove" \/ ~cut => \A f \in Handled(p)' : file'[f] = Absent
    BY <1>5, <1>9, <2>1, <2>3, <2>4 DEF Handled
  <2>5. t = <<>> /\ (pc[p] = "remove" \/ ~cut) => Whole'
    <3> SUFFICES ASSUME t = <<>>, pc[p] = "remove" \/ ~cut PROVE Whole'
      OBVIOUS
    <3>1. file'[h] = Absent /\ \A f \in Credential \ {h} : file'[f] = file[f]
      <4>1. file' = [file EXCEPT ![h] = Absent]
        BY <2>1
      <4> QED
        BY <1>9, <4>1
    <3>2. \A f \in Credential : file'[f] = Absent
      <4> TAKE f \in Credential
      <4>1. CASE f = h
        BY <3>1, <4>1
      <4>2. CASE f # h
        <5>1. f \in Handled(p)
          BY <1>7, <4>2
        <5>2. file[f] = Absent
          BY <2>4, <5>1
        <5> QED
          BY <3>1, <4>2, <5>2
      <4> QED
        BY <4>1, <4>2
    <3> QED
      BY <1>8, <3>2 DEF Whole
  <2>6. /\ pc'[p] = "remove" => \A f \in Handled(p)' : file'[f] = Absent
        /\ pc'[p] = "removeRest" /\ ~cut' => \A f \in Handled(p)' : file'[f] = Absent
        /\ pc'[p] \notin Changing => Whole' \/ cut'
        /\ pc'[p] \notin {"truncate", "fill"}
    BY <2>1, <2>3, <2>4a, <2>5 DEF Changing
  <2> QED
    BY <1>1, <2>2, <2>6, OnlyOne
<1>13. CASE RemoveFails(p)
  <2>1. cut' /\ orphan' = {} /\ \E l \in {"removeRest", "failed"} : Goto(p, l)
    BY <1>13 DEF RemoveFails, AloneParts
  <2>2. pc'[p] \in {"removeRest", "failed"}
    BY <2>1 DEF Goto, AloneType
  <2> QED
    BY <1>1, <2>1, <2>2, OnlyOne
<1> QED
  BY <1>10, <1>11, <1>12, <1>13

LEMMA AloneNext == AloneInv /\ [Next]_vars => AloneInv'
<1> SUFFICES ASSUME AloneInv, [Next]_vars PROVE AloneInv'
  OBVIOUS
<1>1. CASE UNCHANGED vars
  BY <1>1 DEF vars, local, history, AloneInv, AloneType, AloneParts, Running, Whole, Handled
<1>2. CASE Expire
  BY <1>2 DEF Expire, local, history, AloneInv, AloneType, AloneParts, Running, Whole, Handled
<1>3. ASSUME NEW p \in Proc, Crash(p) \/ StoreFails(p)
      PROVE  AloneInv'
  <2>1. /\ Goto(p, "failed") /\ UNCHANGED <<file, todo, overlapped>> /\ Running(p)
        /\ orphan' \subseteq orphan
        /\ cut => cut'
        /\ pc[p] \in Changing => cut'
    BY <1>3 DEF Crash, StoreFails, Running, Ended, Changing
  <2>2. AloneType'
    BY <2>1 DEF Goto, AloneInv, AloneType, Label, Ended, Changing, BeforeRemoval
  <2>3. ASSUME AloneParts
        PROVE  AloneParts'
    <3>1. pc'[p] = "failed" /\ \A q \in Proc \ {p} : pc'[q] = pc[q] /\ pc[q] \in Ended \cup {"idle"}
      BY <2>1, <2>3 DEF Goto, AloneInv, AloneType, AloneParts, Running
    <3>2. Whole' \/ cut'
      BY <2>1, <2>3, <3>1 DEF AloneParts, Whole, Changing, Ended
    <3> QED
      BY <2>1, <2>3, <3>1, <3>2 DEF AloneParts, Running, Ended
  <2> QED
    BY <2>1, <2>2, <2>3 DEF AloneInv
<1>4. ASSUME NEW p \in Proc, Step(p), ~StoreFails(p)
      PROVE  AloneInv'
  <2>1. AloneType /\ AloneType'
    BY <1>4, StepsTyped DEF AloneInv
  <2>2. CASE overlapped'
    BY <2>1, <2>2 DEF AloneInv
  <2>3. CASE ~overlapped'
    <3>1. AloneParts
      BY <1>4, <2>3, StepsRun DEF Begins, AloneInv
    <3>2. CASE Truncate(p) \/ Fill(p) \/ Remove(p) \/ RemoveFails(p)
      <4>1. AloneParts'
        BY <2>1, <2>3, <3>1, <3>2, OnlyChanges
      <4> QED
        BY <2>1, <4>1 DEF AloneInv
    <3>3. CASE ~(Truncate(p) \/ Fill(p) \/ Remove(p) \/ RemoveFails(p))
      <4>1. UNCHANGED <<file, orphan, cut>> /\ pc[p] \notin Changing
        BY <1>4, <3>3 DEF Step, LoadIdentity, ReadCert, ReadKey, SignRenewal, BeginEnroll,
           BeginLogout, ReadDevice, Migrate, CreateDevice, WriteDevice, DeviceFails,
           SignEnrollment, Changing, Begins, history
      <4>2. AloneParts'
        BY <1>4, <2>1, <2>3, <3>1, <4>1, StepsTyped, OnlyMoves
      <4> QED
        BY <2>1, <4>2 DEF AloneInv
    <3> QED
      BY <3>2, <3>3
  <2> QED
    BY <2>2, <2>3
<1> QED
  BY <1>1, <1>2, <1>3, <1>4 DEF Next

\* A login, a logout or a renewal that works alone leaves the key, the certificate
\* and the metadata of one identity, or none of the three, whether it succeeds, is
\* refused, loses its answer, or fails or is killed before it changes a file; and one
\* that succeeds does so whatever files an earlier one, cut short, had left.
THEOREM AloneKeepsIdentity == Spec => []IdentityIsWhole
<1>1. AloneInv => IdentityIsWhole
  BY DEF AloneInv, AloneParts, IdentityIsWhole, Whole, Quiet, Running, Changing, Ended
<1> QED
  BY AloneInit, AloneNext, <1>1, PTL DEF Spec

=============================================================================
