-------------------------- MODULE EvidenceLedger --------------------------
(***************************************************************************)
(* The daemon's evidence ledger: an append-only JSONL file whose records     *)
(* carry the hash of the record before them.  Goroutines append under one    *)
(* mutex; a daemon that starts reads the file back, verifies it and goes on  *)
(* from its last record, or refuses to run.                                  *)
(*                                                                           *)
(* Abstractions: a hash is the record it is computed from, so that hashes    *)
(* collide only for equal records.  write(2) and fsync(2) are steps of their own: a write may stop  *)
(* short of its line or of the newline, a fsync may fail, the process may be *)
(* killed between any two steps (its writes stay), and the machine may lose  *)
(* power (what was never synced may be lost).                                *)
(***************************************************************************)
EXTENDS Naturals, Sequences, FiniteSets

CONSTANTS
    Appender, \* goroutines, each of which calls Append at most once
    Payload,  \* what they append
    Long,     \* payloads that, escaped as JSON, exceed the 2 MiB a line may have
    None

ASSUME ConstantAssumption == Long \subseteq Payload /\ None \notin Appender

\* A line that does not parse; records are numbered from 1.
Torn == [seq |-> 0, prev |-> None, body |-> None]

VARIABLES
    file,     \* the lines of the ledger
    unended,  \* its last line has no newline
    synced,   \* how many lines are known to be on disk
    daemon,   \* "down", "up", or "refused"
    lastHash, seq, mu, \* the fields of Ledger
    apc,      \* where each Append call is
    rec,      \* the record it has built
    failures  \* history: which of "write", "sync", "power" have gone wrong

disk == <<file, unended, synced>>
tip == <<lastHash, seq>>
ledgerVars == <<disk, daemon, tip, mu, apc, rec, failures>>

Appending == {"open", "sync"}

LedgerInit ==
    /\ file = <<>> /\ unended = FALSE /\ synced = 0
    /\ daemon = "down"
    /\ lastHash = None /\ seq = 0
    /\ mu = None
    /\ apc = [a \in Appender |-> "idle"]
    /\ rec = [a \in Appender |-> None]
    /\ failures = {}

\* hashRecord.
Hash(r) == r

\* Read succeeds and verifyRecords finds nothing wrong.
Verified(lines) ==
    \A i \in DOMAIN lines :
        /\ lines[i] # Torn /\ lines[i].body \notin Long
        /\ lines[i].seq = i
        /\ lines[i].prev = IF i = 1 THEN None ELSE Hash(lines[i - 1])

-----------------------------------------------------------------------------
(* Open, when the daemon starts.                                             *)

OpenLedger ==
    /\ daemon = "down"
    /\ Verified(file)
    /\ daemon' = "up"
    /\ lastHash' = IF file = <<>> THEN None ELSE Hash(file[Len(file)])
    /\ seq' = IF file = <<>> THEN 0 ELSE file[Len(file)].seq
    /\ UNCHANGED <<disk, mu, apc, rec, failures>>

OpenRefused ==
    /\ daemon = "down"
    /\ ~Verified(file)
    /\ daemon' = "refused"
    /\ UNCHANGED <<disk, tip, mu, apc, rec, failures>>

-----------------------------------------------------------------------------
(* Append.                                                                   *)

\* Mutant: the mutex does not keep a second Append out.
LockNobody(a, payload) ==
    /\ daemon = "up"
    /\ apc[a] = "idle"
    /\ mu' = a
    /\ rec' = [rec EXCEPT ![a] = [seq |-> seq + 1, prev |-> lastHash, body |-> payload]]
    /\ apc' = [apc EXCEPT ![a] = "open"]
    /\ UNCHANGED <<disk, daemon, tip, failures>>

\* The mutex is held from here to the return; the record follows the tip.
Lock(a, payload) ==
    /\ daemon = "up"
    /\ apc[a] = "idle"
    /\ mu = None
    /\ mu' = a
    /\ rec' = [rec EXCEPT ![a] = [seq |-> seq + 1, prev |-> lastHash, body |-> payload]]
    /\ apc' = [apc EXCEPT ![a] = "open"]
    /\ UNCHANGED <<disk, daemon, tip, failures>>

\* Mutant: the mutex stays locked on the error paths.
ReturnHolds(a, result) ==
    /\ apc' = [apc EXCEPT ![a] = result]
    /\ mu' = IF result = "failed" THEN mu ELSE None

\* The mutex is released by a deferred call on every path.
Return(a, result) ==
    /\ apc' = [apc EXCEPT ![a] = result]
    /\ mu' = None

\* What appending text to the file makes of its last lines: text that follows
\* a line without newline spoils that line.
Extended(line) ==
    IF unended THEN [file EXCEPT ![Len(file)] = Torn] ELSE Append(file, line)

Write(a) ==
    /\ apc[a] = "open"
    /\ file' = Extended(rec[a])
    /\ unended' = FALSE
    /\ apc' = [apc EXCEPT ![a] = "sync"]
    /\ UNCHANGED <<synced, daemon, tip, mu, rec, failures>>

\* The file cannot be opened, or the write stops before, within, or right
\* after the record: Append returns the error and keeps the tip.
WriteFails(a) ==
    /\ apc[a] = "open"
    /\ \/ UNCHANGED <<file, unended>>
       \/ \E line \in {Torn, rec[a]} : file' = Extended(line) /\ unended' = TRUE
    /\ Return(a, "failed")
    /\ failures' = failures \cup {"write"}
    /\ UNCHANGED <<synced, daemon, tip, rec>>

\* Mutant: the record is acknowledged without a sync.
SyncSkipped(a) ==
    /\ apc[a] = "sync"
    /\ lastHash' = Hash(rec[a])
    /\ seq' = rec[a].seq
    /\ Return(a, "acked")
    /\ UNCHANGED <<disk, daemon, rec, failures>>

\* The record is on disk before the tip moves.
Sync(a) ==
    /\ apc[a] = "sync"
    /\ synced' = Len(file)
    /\ lastHash' = Hash(rec[a])
    /\ seq' = rec[a].seq
    /\ Return(a, "acked")
    /\ UNCHANGED <<file, unended, daemon, rec, failures>>

SyncFails(a) ==
    /\ apc[a] = "sync"
    /\ Return(a, "failed")
    /\ failures' = failures \cup {"sync"}
    /\ UNCHANGED <<disk, daemon, tip, rec>>

Step(a) == Write(a) \/ WriteFails(a) \/ Sync(a) \/ SyncFails(a)

-----------------------------------------------------------------------------
(* The end of the process.                                                   *)

Die ==
    /\ daemon = "up"
    /\ daemon' = "down"
    /\ mu' = None
    /\ apc' = [a \in Appender |-> IF apc[a] \in Appending THEN "dead" ELSE apc[a]]
    /\ lastHash' = None /\ seq' = 0
    /\ UNCHANGED rec

Kill ==
    /\ Die
    /\ UNCHANGED <<disk, failures>>

\* Lines that were never synced may be gone, the first of them in part.
PowerLoss ==
    /\ Die
    /\ failures' = failures \cup {"power"}
    /\ \E n \in synced .. Len(file) :
          \/ file' = SubSeq(file, 1, n) /\ unended' = (unended /\ n = Len(file))
          \/ n < Len(file) /\ file' = Append(SubSeq(file, 1, n), Torn) /\ unended' = TRUE
    /\ UNCHANGED synced

LedgerNext ==
    \/ OpenLedger \/ OpenRefused
    \/ \E a \in Appender, p \in Payload : Lock(a, p)
    \/ \E a \in Appender : Step(a)
    \/ Kill \/ PowerLoss

LedgerSpec == LedgerInit /\ [][LedgerNext]_ledgerVars

-----------------------------------------------------------------------------
(* Properties.                                                               *)

\* "Each record's hash covers the previous record's hash" (ledger.go:2-3): as
\* long as at most kills have happened the file verifies at any moment, so that
\* `keydris logs` accepts it and the daemon can be started again.
HashChained == failures = {} => Verified(file)

\* A record that Append reported as written can be read back, whatever was
\* killed, lost power or could not be synced before and after, unless a write
\* stopped short.
AckedIsDurable ==
    "write" \notin failures => \A a \in Appender :
        apc[a] = "acked" => \E i \in 1 .. synced : file[i] = rec[a]

AtTip ==
    /\ seq = Len(file)
    /\ lastHash = IF file = <<>> THEN None ELSE Hash(file[Len(file)])

Chained ==
    /\ Verified(file) /\ ~unended
    /\ daemon \in {"down", "up"}
    /\ \A a \in Appender :
          /\ apc[a] \in Appending => mu = a /\ daemon = "up"
          /\ apc[a] = "open" =>
                rec[a].seq = seq + 1 /\ rec[a].prev = lastHash /\ rec[a].body \notin Long
          /\ apc[a] = "sync" => file # <<>> /\ rec[a] = file[Len(file)]
    /\ daemon = "up" /\ (\A a \in Appender : apc[a] # "sync") => AtTip

\* The inductive invariant behind HashChained and LedgerReopens, as long as at
\* most kills have happened: the tip is the last record of the file, except
\* while a record is being synced.
ChainInv == failures = {} => Chained

\* "... and `keydris logs` verifies the chain on read" (README.md:577); the
\* daemon does the same at its start: unless a write or a sync has failed or power
\* was lost, it is never refused its own ledger.
LedgerReopens == failures = {} => daemon # "refused"

=============================================================================
