--------------------------- MODULE LoginIdentity ---------------------------
(***************************************************************************)
(* The login identity: a client key, its certificate, metadata about both    *)
(* (whoami.json), and the device id of the installation, four files that     *)
(* every keydris process reads and writes without a lock.  Hooks, wrappers   *)
(* and the daemon renew a certificate that enters its last 48 hours,         *)
(* `keydris login` enrolls a new one, and `keydris logout` removes it.       *)
(*                                                                           *)
(* os.WriteFile truncates and then writes, in two steps; a file that is      *)
(* removed in between swallows the write.  A key is named after the process  *)
(* that generates it, and so is the certificate signed for it.  The pinned   *)
(* CA file is written with the others and never read.                        *)
(*                                                                           *)
(* Any file operation may fail.  A store stops at the first that does, with  *)
(* the files before it already new; a logout goes on to the next file, and   *)
(* also when it could not migrate the device id.                             *)
(***************************************************************************)
EXTENDS Naturals, Sequences

CONSTANTS
    Renewer,  \* processes that run EnsureFresh and then HTTPClient, once
    Enroller, \* processes that run `keydris login`
    Leaver,   \* processes that run `keydris logout`
    First,    \* the key of an earlier login, inside its renewal window
    FirstDevice, \* the device id the control plane gave that login
    Stages,   \* what earlier use has left: subset of Stage
    Faults,   \* what may go wrong: subset of Fault
    Absent, Blank \* a file that does not exist, or is truncated

Proc == Renewer \cup Enroller \cup Leaver
Key == Proc \cup {First}
Device == Proc \cup {FirstDevice}
\* An answer is lost, a process is killed, a file operation fails.
Fault == {"lost", "crash", "io"}
\* Never logged in; logged in by a version without device ids; logged in.
Stage == {"fresh", "old", "current"}
Credential == {"key", "cert", "whoami"}

ASSUME KindAssumption ==
    /\ Renewer \cap Enroller = {} /\ Renewer \cap Leaver = {} /\ Enroller \cap Leaver = {}
    /\ First \notin Proc /\ FirstDevice \notin Proc
    /\ Absent \notin Key \cup Device /\ Blank \notin Key \cup Device /\ Absent # Blank
ASSUME SwitchAssumption ==
    Faults \subseteq Fault /\ Stages \subseteq Stage

VARIABLES
    file,     \* key, cert and whoami: the key each belongs to
    device,   \* the device-id file
    pc, todo, \* where each process is; the files it still has to write or remove
    held,     \* the certificate it has read or presents
    dev,      \* the device id it enrolls with
    orphan,   \* processes that write to a file that has been removed
    deviceOf, \* control plane: the device each key was certified for, if it was
    sent,     \* control plane: device ids of the enrollments it has seen
    expired,  \* whether First's certificate has expired
    overlapped, \* history: whether two processes have ever run at once
    cut,      \* history: whether the files were last changed by a process that
              \* failed or was killed before it had changed all three
    skipped   \* history: whether a logout went on without the device id after a
              \* file operation failed

local == <<pc, todo, held, dev>>
remote == <<deviceOf, sent, expired>>
history == <<overlapped, cut, skipped>>
vars == <<file, device, local, orphan, remote, history>>

Ended == {"done", "failed"}
Running(p) == pc[p] \notin Ended \cup {"idle"}

Init ==
    /\ \E stage \in Stages :
          /\ file = [f \in Credential |-> IF stage = "fresh" THEN Absent ELSE First]
          /\ device = IF stage = "current" THEN FirstDevice ELSE Absent
          /\ deviceOf = [k \in Key |->
                IF k = First /\ stage # "fresh" THEN FirstDevice ELSE Absent]
          /\ sent = IF stage = "fresh" THEN {} ELSE {FirstDevice}
    /\ pc = [p \in Proc |-> "idle"]
    /\ todo = [p \in Proc |-> <<>>]
    /\ held = [p \in Proc |-> Absent]
    /\ dev = [p \in Proc |-> Absent]
    /\ orphan = {}
    /\ expired = FALSE
    /\ overlapped = FALSE /\ cut = FALSE /\ skipped = FALSE

Begins(p) ==
    /\ pc[p] = "idle"
    /\ overlapped' = (overlapped \/ \E q \in Proc : Running(q))
    /\ UNCHANGED cut

Goto(p, l) == pc' = [pc EXCEPT ![p] = l]

-----------------------------------------------------------------------------
(* EnsureFresh and HTTPClient.                                               *)

\* Load, and whether the certificate is inside its window or past its end.
LoadIdentity(p) ==
    /\ p \in Renewer
    /\ Begins(p)
    /\ \/ file["whoami"] \in {Absent, Blank} /\ Goto(p, "failed")
       \/ file["whoami"] = First /\ expired /\ Goto(p, "failed")
       \/ file["whoami"] = First /\ ~expired /\ Goto(p, "renewCert")
       \/ file["whoami"] \in Proc /\ Goto(p, "useCert")
       \/ "io" \in Faults /\ Goto(p, "failed")
    /\ UNCHANGED <<file, device, todo, held, dev, orphan, remote, skipped>>

\* tls.LoadX509KeyPair reads the certificate, ...
ReadCert(p) ==
    /\ pc[p] \in {"renewCert", "useCert"}
    /\ held' = [held EXCEPT ![p] = file["cert"]]
    /\ \/ Goto(p, IF file["cert"] \in {Absent, Blank} THEN "failed"
                  ELSE IF pc[p] = "renewCert" THEN "renewKey" ELSE "useKey")
       \/ "io" \in Faults /\ Goto(p, "failed")
    /\ UNCHANGED <<file, device, todo, dev, orphan, remote, history>>

\* ... then the key, and requires that they match.
ReadKey(p) ==
    /\ pc[p] \in {"renewKey", "useKey"}
    /\ \/ Goto(p, IF file["key"] # held[p] THEN "failed"
                  ELSE IF pc[p] = "renewKey" THEN "sign" ELSE "done")
       \/ "io" \in Faults /\ Goto(p, "failed")
    /\ UNCHANGED <<file, device, todo, held, dev, orphan, remote, history>>

Certify(p, d) == deviceOf' = [deviceOf EXCEPT ![p] = d]
Refused(p) == Goto(p, "failed") /\ UNCHANGED <<todo, deviceOf>>
AnswerLost(p, d) == "lost" \in Faults /\ Certify(p, d) /\ Goto(p, "failed") /\ UNCHANGED todo

\* store: the key is first, the metadata last.
StartStore(p) ==
    /\ Goto(p, "truncate")
    /\ todo' = [todo EXCEPT ![p] = <<"key", "cert", "whoami">>]

\* Mutant: the generated key is installed before the answer.
InstallsEarly(p) ==
    /\ p \in Renewer /\ pc[p] = "sign"
    /\ file' = [file EXCEPT !["key"] = p]
    /\ \/ /\ ~(held[p] = First /\ expired)
          /\ Certify(p, deviceOf[held[p]])
          /\ StartStore(p)
       \/ Refused(p)
       \/ AnswerLost(p, deviceOf[held[p]])
    /\ UNCHANGED <<device, held, dev, orphan, sent, expired, history>>

\* POST /identity/renew under the old certificate.
SignRenewal(p) ==
    /\ p \in Renewer /\ pc[p] = "sign"
    /\ \/ /\ ~(held[p] = First /\ expired)
          /\ Certify(p, deviceOf[held[p]])
          /\ StartStore(p)
       \/ Refused(p)
       \/ AnswerLost(p, deviceOf[held[p]])
    /\ UNCHANGED <<file, device, held, dev, orphan, sent, expired, history>>

-----------------------------------------------------------------------------
(* enroll: the device id, then the certificate.                              *)

\* A logout goes on without a device id, and reports the error at its end.
NoDevice(p) == IF p \in Leaver THEN "removeRest" ELSE "failed"
WithDevice(p) == IF p \in Leaver THEN "remove" ELSE "sign"

\* Logout migrates the device id only of an installation with metadata.
BeginLogout(p) ==
    /\ p \in Leaver
    /\ Begins(p)
    /\ \/ /\ Goto(p, IF file["whoami"] = Absent THEN "remove" ELSE "device")
          /\ UNCHANGED skipped
       \/ "io" \in Faults /\ Goto(p, "remove") /\ skipped' = TRUE
    /\ todo' = [todo EXCEPT ![p] = <<"key", "cert", "whoami">>]
    /\ UNCHANGED <<file, device, held, dev, orphan, remote>>

\* The browser's code (or its timeout) and the tokens come first.
BeginEnroll(p) ==
    /\ p \in Enroller
    /\ Begins(p)
    /\ Goto(p, "device") \/ Goto(p, "failed")
    /\ UNCHANGED <<file, device, todo, held, dev, orphan, remote, skipped>>

ReadDevice(p) ==
    /\ pc[p] = "device"
    /\ \/ device = Absent /\ Goto(p, "migrate") /\ UNCHANGED dev
       \/ device = Blank /\ Goto(p, NoDevice(p)) /\ UNCHANGED dev
       \/ /\ device \in Device
          /\ dev' = [dev EXCEPT ![p] = device]
          /\ Goto(p, WithDevice(p))
    /\ UNCHANGED <<file, device, todo, held, orphan, remote, history>>

\* The device id of the metadata, or a new one.
Migrate(p) ==
    /\ pc[p] = "migrate"
    /\ \/ file["whoami"] = Blank /\ Goto(p, NoDevice(p)) /\ UNCHANGED dev
       \/ file["whoami"] = Absent /\ Goto(p, "create") /\ dev' = [dev EXCEPT ![p] = p]
       \/ /\ file["whoami"] \in Key
          /\ Goto(p, "create")
          /\ dev' = [dev EXCEPT ![p] = deviceOf[file["whoami"]]]
    /\ UNCHANGED <<file, device, todo, held, orphan, remote, history>>

\* Mutant: the file is created without O_EXCL.
CreateShared(p) ==
    /\ pc[p] = "create"
    /\ device' = Blank /\ Goto(p, "write")
    /\ UNCHANGED <<file, todo, held, dev, orphan, remote, history>>

\* O_EXCL: the process that finds the file there starts over.
CreateDevice(p) ==
    /\ pc[p] = "create"
    /\ \/ device = Absent /\ device' = Blank /\ Goto(p, "write")
       \/ device # Absent /\ Goto(p, "device") /\ UNCHANGED device
    /\ UNCHANGED <<file, todo, held, dev, orphan, remote, history>>

WriteDevice(p) ==
    /\ pc[p] = "write"
    /\ device' = dev[p]
    /\ Goto(p, WithDevice(p))
    /\ UNCHANGED <<file, todo, held, dev, orphan, remote, history>>

\* A read, the creation or the write fails; a failing write leaves the file
\* empty, or whole when only its Close failed.
DeviceFails(p) ==
    /\ "io" \in Faults
    /\ \/ pc[p] \in {"device", "migrate", "create"} /\ UNCHANGED device
       \/ pc[p] = "write" /\ device' \in {Blank, dev[p]}
    /\ Goto(p, NoDevice(p))
    /\ skipped' = (skipped \/ (p \in Leaver /\ pc[p] # "write"))
    /\ UNCHANGED <<file, todo, held, dev, orphan, remote, overlapped, cut>>

\* signCSR: POST /identity/sign with the bearer of the login.
SignEnrollment(p) ==
    /\ p \in Enroller /\ pc[p] = "sign"
    /\ \/ Certify(p, dev[p]) /\ StartStore(p)
       \/ Refused(p)
       \/ AnswerLost(p, dev[p])
    /\ sent' = sent \cup {dev[p]}
    /\ UNCHANGED <<file, device, held, dev, orphan, expired, history>>

-----------------------------------------------------------------------------
(* store and Logout.                                                         *)

Truncate(p) ==
    /\ pc[p] = "truncate"
    /\ file' = [file EXCEPT ![Head(todo[p])] = Blank]
    /\ Goto(p, "fill")
    /\ UNCHANGED <<device, todo, held, dev, orphan, remote, history>>

\* A renewal goes on to HTTPClient.
Fill(p) ==
    /\ pc[p] = "fill"
    /\ file' = IF p \in orphan THEN file ELSE [file EXCEPT ![Head(todo[p])] = p]
    /\ orphan' = orphan \ {p}
    /\ todo' = [todo EXCEPT ![p] = Tail(todo[p])]
    /\ Goto(p, IF Len(todo[p]) > 1 THEN "truncate"
               ELSE IF p \in Renewer THEN "useCert" ELSE "done")
    /\ cut' = (cut /\ Len(todo[p]) > 1)
    /\ UNCHANGED <<device, held, dev, remote, overlapped, skipped>>

\* A file cannot be opened, or is left empty by a write that fails; the files
\* before it stay new, the ones after it old.
StoreFails(p) ==
    /\ "io" \in Faults
    /\ pc[p] \in {"truncate", "fill"}
    /\ Goto(p, "failed")
    /\ orphan' = orphan \ {p}
    /\ cut' = TRUE
    /\ UNCHANGED <<file, device, todo, held, dev, remote, overlapped, skipped>>

Remove(p) ==
    /\ pc[p] \in {"remove", "removeRest"}
    /\ file' = [file EXCEPT ![Head(todo[p])] = Absent]
    /\ orphan' = orphan \cup
                    {q \in Proc : pc[q] = "fill" /\ Head(todo[q]) = Head(todo[p])}
    /\ todo' = [todo EXCEPT ![p] = Tail(todo[p])]
    /\ Goto(p, IF Len(todo[p]) > 1 THEN pc[p]
               ELSE IF pc[p] = "remove" THEN "done" ELSE "failed")
    /\ cut' = (cut /\ (Len(todo[p]) > 1 \/ pc[p] = "removeRest"))
    /\ UNCHANGED <<device, held, dev, remote, overlapped, skipped>>

\* The file stays; Logout goes on to the next and returns the first error.
RemoveFails(p) ==
    /\ "io" \in Faults
    /\ pc[p] \in {"remove", "removeRest"}
    /\ todo' = [todo EXCEPT ![p] = Tail(todo[p])]
    /\ Goto(p, IF Len(todo[p]) > 1 THEN "removeRest" ELSE "failed")
    /\ cut' = TRUE
    /\ UNCHANGED <<file, device, held, dev, orphan, remote, overlapped, skipped>>

-----------------------------------------------------------------------------
Changing == {"truncate", "fill", "remove", "removeRest"}

Crash(p) ==
    /\ "crash" \in Faults
    /\ Running(p)
    /\ Goto(p, "failed")
    /\ cut' = (cut \/ pc[p] \in Changing)
    /\ UNCHANGED <<file, device, todo, held, dev, orphan, remote, overlapped, skipped>>

\* First's certificate passes its end.
Expire ==
    /\ ~expired
    /\ expired' = TRUE
    /\ UNCHANGED <<file, device, local, orphan, deviceOf, sent, history>>

Step(p) ==
    \/ LoadIdentity(p) \/ ReadCert(p) \/ ReadKey(p) \/ SignRenewal(p)
    \/ BeginEnroll(p) \/ BeginLogout(p)
    \/ ReadDevice(p) \/ Migrate(p) \/ CreateDevice(p) \/ WriteDevice(p) \/ DeviceFails(p)
    \/ SignEnrollment(p)
    \/ Truncate(p) \/ Fill(p) \/ StoreFails(p) \/ Remove(p) \/ RemoveFails(p)

Next == Expire \/ \E p \in Proc : Step(p) \/ Crash(p)

Spec == Init /\ [][Next]_vars

-----------------------------------------------------------------------------
(* Properties.                                                               *)

Quiet == \A p \in Proc : ~Running(p)

\* With no process at work, and as long as no two of them ran at once, the key, the
\* certificate and the metadata that are installed belong together, or all are gone,
\* whatever order logins, logouts and renewals ran in and wherever one of them was
\* refused, lost its answer, or failed or was killed before it changed a file; and
\* where a store or a removal was cut short, by a failing file operation or a kill,
\* the next login that succeeds, or logout without an error, makes them whole again.
IdentityIsWhole ==
    Quiet /\ ~overlapped /\ ~cut
        => file["key"] = file["cert"] /\ file["cert"] = file["whoami"]

\* "a new private key is generated locally and replaces the old key only after the
\* server signs it" (renew.go:17-19): where nobody logs out, the installed
\* certificate is the one that was signed for the installed key.
CertificateMatchesKey == Quiet => file["key"] = file["cert"]

\* "Exclusive creation makes concurrent first enrollments share one identity. ...
\* it never invents a second ID" (device_id.go:56-57), and the id of an older
\* installation is migrated before a new one is allocated (device_id.go:31).  Two
\* logouts of such an installation go on without and delete its metadata: one that
\* finds them half written by a renewal, and one that could not read them, or the
\* file of the device id, or create it.
OneDevice ==
    (\A p \in Renewer : pc[p] = "idle") /\ ~skipped => \A d, e \in sent : d = e

=============================================================================
