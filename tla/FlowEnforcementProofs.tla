----------------------- MODULE FlowEnforcementProofs -----------------------
(***************************************************************************)
(* Proofs about the evidence ledger, for any number of appending goroutines, *)
(* payloads and restarts:                                                    *)
(*   - as long as at most kills happen, and if no record is too long to be   *)
(*     read, the file verifies at any moment and the daemon always restarts; *)
(*   - as long as no write stops short, an acknowledged record stays on       *)
(*     disk and readable, through failing syncs, kills and power losses.     *)
(* And about the broker path on top of it, for any number of concurrent       *)
(* requests and under every failure of the ledger:                           *)
(*   - it implements the audited gate;                                       *)
(*   - a request that left with a credential has its allow on disk.          *)
(***************************************************************************)
EXTENDS FlowEnforcement, SequenceTheorems, TLAPS

\* The file is a sequence; nothing is said of its elements.
IsFile == \E S : file \in Seq(S)

\* What Append does to a sequence, whatever its elements.
LEMMA AppendFacts ==
    ASSUME NEW s, NEW e, \E S : s \in Seq(S)
    PROVE  /\ \E S : Append(s, e) \in Seq(S)
           /\ Len(s) \in Nat /\ Len(Append(s, e)) = Len(s) + 1
           /\ \A i \in 1 .. Len(s) : Append(s, e)[i] = s[i]
           /\ Append(s, e)[Len(s) + 1] = e
           /\ DOMAIN Append(s, e) = 1 .. Len(s) + 1 /\ DOMAIN s = 1 .. Len(s)
           /\ Append(s, e) # <<>>
<1>1. PICK S : s \in Seq(S)
  OBVIOUS
<1> DEFINE T == S \cup {e}
<1>2. s \in Seq(T) /\ e \in T
  <2>1. Len(s) \in Nat /\ s \in [1 .. Len(s) -> S]
    BY <1>1
  <2>2. s \in [1 .. Len(s) -> T]
    BY <2>1
  <2> QED
    BY <2>1, <2>2
<1>3. Append(s, e) \in Seq(T) /\ Len(Append(s, e)) = Len(s) + 1 /\ Len(s) \in Nat
  BY <1>2
<1>4. /\ \A i \in 1 .. Len(s) : Append(s, e)[i] = s[i]
      /\ Append(s, e)[Len(s) + 1] = e
  BY <1>2
<1>5. DOMAIN Append(s, e) = 1 .. Len(s) + 1 /\ DOMAIN s = 1 .. Len(s)
  BY <1>1, <1>3
<1>6. Append(s, e) # <<>>
  BY <1>3
<1>7. \E U : Append(s, e) \in Seq(U)
  BY <1>3
<1> HIDE DEF T
<1> QED
  BY <1>3, <1>4, <1>5, <1>6, <1>7

\* The same, read off a sequence whose length has a name.
LEMMA AppendAt ==
    ASSUME NEW s, NEW e, NEW n, \E S : s \in Seq(S), Len(s) = n
    PROVE  /\ \E S : Append(s, e) \in Seq(S)
           /\ Len(Append(s, e)) = n + 1
           /\ \A i \in 1 .. n : Append(s, e)[i] = s[i]
           /\ Append(s, e)[n + 1] = e
           /\ Append(s, e) # <<>>
<1>1. \E S : Append(s, e) \in Seq(S)
  BY AppendFacts
<1>2. Len(Append(s, e)) = n + 1
  BY AppendFacts
<1>3. \A i \in 1 .. n : Append(s, e)[i] = s[i]
  BY AppendFacts
<1>4. Append(s, e)[n + 1] = e
  BY AppendFacts
<1>5. Append(s, e) # <<>>
  BY AppendFacts
<1> QED
  BY <1>1, <1>2, <1>3, <1>4, <1>5, Zenon

-----------------------------------------------------------------------------
(* The chain.                                                                *)

\* Extending a verified file by a record that follows its last one gives a
\* verified file.
LEMMA ChainExtends ==
    ASSUME IsFile, Verified(file), NEW r,
           r.seq = Len(file) + 1,
           r.prev = IF file = <<>> THEN None ELSE Hash(file[Len(file)]),
           r.body \notin Long
    PROVE  Verified(Append(file, r))
<1> DEFINE g == Append(file, r)
           n == Len(file)
<1>1. /\ n \in Nat /\ DOMAIN g = 1 .. n + 1 /\ DOMAIN file = 1 .. n
      /\ \A i \in 1 .. n : g[i] = file[i]
      /\ g[n + 1] = r
  BY AppendFacts, Zenon DEF IsFile
<1>2. file = <<>> <=> n = 0
  <2>1. PICK S : file \in Seq(S)
    BY DEF IsFile
  <2> QED
    BY <2>1
<1> HIDE DEF g, n
<1>3. ASSUME NEW i \in 1 .. n
      PROVE  /\ g[i] # Torn /\ g[i].body \notin Long
             /\ g[i].seq = i
             /\ g[i].prev = IF i = 1 THEN None ELSE Hash(g[i - 1])
  <2>1. i = 1 \/ i - 1 \in 1 .. n
    BY <1>1
  <2>2. g[i] = file[i] /\ (i # 1 => g[i - 1] = file[i - 1])
    BY <1>1, <2>1
  <2> QED
    BY <1>1, <2>2 DEF Verified
<1>4. /\ g[n + 1] # Torn /\ g[n + 1].body \notin Long
      /\ g[n + 1].seq = n + 1
      /\ g[n + 1].prev = IF n + 1 = 1 THEN None ELSE Hash(g[(n + 1) - 1])
  <2>1. r.seq = n + 1 /\ r.prev = IF n = 0 THEN None ELSE Hash(file[n])
    BY <1>2 DEF n
  <2>2. r # Torn
    BY <2>1, <1>1 DEF Torn
  <2>3. n # 0 => g[(n + 1) - 1] = file[n]
    BY <1>1
  <2> QED
    BY <1>1, <2>1, <2>2, <2>3
<1>5. \A i \in DOMAIN g :
          /\ g[i] # Torn /\ g[i].body \notin Long
          /\ g[i].seq = i
          /\ g[i].prev = IF i = 1 THEN None ELSE Hash(g[i - 1])
  <2>1. \A i \in DOMAIN g : i \in 1 .. n \/ i = n + 1
    BY <1>1
  <2> QED
    BY <2>1, <1>3, <1>4
<1> QED
  BY <1>5 DEF Verified, g

Domains == DOMAIN apc = Appender /\ DOMAIN rec = Appender
LInv == IsFile /\ Domains /\ Chained

\* What has happened stays so.
LEMMA FailuresStay ==
    ASSUME [LedgerNext]_ledgerVars
    PROVE  failures \subseteq failures'
BY DEF LedgerNext, OpenLedger, OpenRefused, Lock, Step, Write, WriteFails, Sync, SyncFails,
       Kill, PowerLoss, ledgerVars

\* The chain is kept by every step that is not a failure.
LEMMA ChainInductive ==
    ASSUME Long = {}, failures' = {}, LInv, [LedgerNext]_ledgerVars
    PROVE  LInv'
<1> USE DEF Appending
<1>1. CASE UNCHANGED ledgerVars
  BY <1>1 DEF LInv, IsFile, Domains, Chained, Verified, AtTip, ledgerVars, disk, tip
<1>2. CASE OpenLedger
  <2>1. UNCHANGED <<file, unended, mu, apc, rec>> /\ daemon' = "up" /\ daemon = "down"
    BY <1>2 DEF OpenLedger, disk
  <2>2. \A a \in Appender : apc[a] \notin Appending
    BY <2>1 DEF LInv, Chained
  <2>3. AtTip'
    <3>1. lastHash' = IF file = <<>> THEN None ELSE Hash(file[Len(file)])
      BY <1>2 DEF OpenLedger
    <3>2. seq' = Len(file)
      <4>1. PICK S : file \in Seq(S)
        BY DEF LInv, IsFile
      <4>2. CASE file = <<>>
        BY <1>2, <4>2 DEF OpenLedger
      <4>3. CASE file # <<>>
        <5>1. Len(file) \in DOMAIN file
          BY <4>1, <4>3
        <5> QED
          BY <1>2, <4>3, <5>1 DEF OpenLedger, Verified
      <4> QED
        BY <4>2, <4>3
    <3> QED
      BY <3>1, <3>2, <2>1 DEF AtTip
  <2> QED
    BY <2>1, <2>2, <2>3 DEF LInv, IsFile, Domains, Chained, Verified
<1>3. CASE OpenRefused
  BY <1>3 DEF LInv, Chained, OpenRefused
<1>4. ASSUME NEW a \in Appender, NEW p \in Payload, Lock(a, p)
      PROVE  LInv'
  <2>1. /\ UNCHANGED <<file, unended, daemon, lastHash, seq>>
        /\ apc' = [apc EXCEPT ![a] = "open"] /\ mu' = a /\ mu = None
        /\ rec' = [rec EXCEPT ![a] = [seq |-> seq + 1, prev |-> lastHash, body |-> p]]
        /\ daemon = "up"
    BY <1>4 DEF Lock, disk, tip
  <2>2. \A b \in Appender : apc[b] \notin Appending
    BY <2>1, ConstantAssumption DEF LInv, Chained
  <2>3. \A b \in Appender : b # a => apc'[b] = apc[b] /\ rec'[b] = rec[b]
    BY <2>1 DEF LInv, Domains
  <2>4. apc'[a] = "open" /\ rec'[a] = [seq |-> seq + 1, prev |-> lastHash, body |-> p]
    BY <2>1 DEF LInv, Domains
  <2>5. AtTip'
    BY <2>1, <2>2 DEF LInv, Chained, AtTip
  <2> QED
    BY <2>1, <2>2, <2>3, <2>4, <2>5 DEF LInv, IsFile, Domains, Chained, Verified
<1>5. ASSUME NEW a \in Appender, Write(a)
      PROVE  LInv'
  <2>1. /\ apc[a] = "open" /\ mu = a /\ daemon = "up"
        /\ file' = Append(file, rec[a]) /\ ~unended'
        /\ apc' = [apc EXCEPT ![a] = "sync"]
        /\ UNCHANGED <<daemon, lastHash, seq, mu, rec>>
    BY <1>5 DEF LInv, Chained, Write, Extended, tip
  <2>2. \A b \in Appender : b # a => apc[b] \notin Appending
    BY <2>1 DEF LInv, Chained
  <2>3. AtTip
    BY <2>1, <2>2 DEF LInv, Chained
  <2>4. rec[a].seq = seq + 1 /\ rec[a].prev = lastHash /\ rec[a].body \notin Long
    BY <2>1 DEF LInv, Chained
  <2>5. Verified(Append(file, rec[a]))
    BY <2>3, <2>4, ChainExtends DEF LInv, Chained, AtTip
  <2>6. Verified(file)'
    BY <2>1, <2>5 DEF Verified
  <2>7. IsFile' /\ file' # <<>> /\ file'[Len(file')] = rec[a]
    <3>1. \E S : file \in Seq(S)
      BY DEF LInv, IsFile
    <3>2. /\ \E S : Append(file, rec[a]) \in Seq(S)
          /\ Len(Append(file, rec[a])) = Len(file) + 1
          /\ Append(file, rec[a])[Len(file) + 1] = rec[a]
          /\ Append(file, rec[a]) # <<>>
      BY <3>1, AppendFacts, Zenon
    <3>3. file' = Append(file, rec[a])
      BY <2>1
    <3> QED
      BY <3>2, <3>3 DEF IsFile
  <2>8. apc'[a] = "sync" /\ \A b \in Appender : b # a => apc'[b] = apc[b]
    BY <2>1 DEF LInv, Domains
  <2> QED
    BY <2>1, <2>2, <2>6, <2>7, <2>8 DEF LInv, Domains, Chained
<1>6. ASSUME NEW a \in Appender, WriteFails(a) \/ SyncFails(a)
      PROVE  LInv'
  BY <1>6 DEF WriteFails, SyncFails
<1>7. ASSUME NEW a \in Appender, Sync(a)
      PROVE  LInv'
  <2>1. /\ apc[a] = "sync" /\ mu = a /\ daemon = "up"
        /\ lastHash' = Hash(rec[a]) /\ seq' = rec[a].seq
        /\ apc' = [apc EXCEPT ![a] = "acked"] /\ mu' = None
        /\ UNCHANGED <<file, unended, daemon, rec>>
    BY <1>7 DEF LInv, Chained, Sync, Return
  <2>2. \A b \in Appender : b # a => apc[b] \notin Appending
    BY <2>1 DEF LInv, Chained
  <2>3. file # <<>> /\ rec[a] = file[Len(file)]
    BY <2>1 DEF LInv, Chained
  <2>4. rec[a].seq = Len(file)
    <3>1. PICK S : file \in Seq(S)
      BY DEF LInv, IsFile
    <3>2. Len(file) \in DOMAIN file
      BY <3>1, <2>3
    <3> QED
      BY <3>2, <2>3 DEF LInv, Chained, Verified
  <2>5. AtTip'
    BY <2>1, <2>3, <2>4 DEF AtTip
  <2>6. \A b \in Appender : apc'[b] \notin Appending
    BY <2>1, <2>2 DEF LInv, Domains
  <2> QED
    BY <2>1, <2>5, <2>6 DEF LInv, IsFile, Domains, Chained, Verified
<1>8. CASE Kill
  <2>1. /\ UNCHANGED <<file, unended, rec>> /\ daemon' = "down"
        /\ apc' = [b \in Appender |-> IF apc[b] \in Appending THEN "dead" ELSE apc[b]]
    BY <1>8 DEF Kill, Die, disk
  <2>2. \A b \in Appender : apc'[b] \notin Appending
    BY <2>1
  <2> QED
    BY <2>1, <2>2 DEF LInv, IsFile, Domains, Chained, Verified
<1>9. ~PowerLoss
  BY DEF PowerLoss
<1> QED
  BY <1>1, <1>2, <1>3, <1>4, <1>5, <1>6, <1>7, <1>8, <1>9 DEF LedgerNext, Step

\* The chain invariant, for any number of appends and restarts.
THEOREM ChainInvariant ==
    ASSUME Long = {}
    PROVE  LedgerSpec => []ChainInv
<1> DEFINE Inv == failures = {} => LInv
<1>1. LedgerInit => Inv
  <2> SUFFICES ASSUME LedgerInit PROVE LInv
    OBVIOUS
  <2>1. file \in Seq({}) /\ DOMAIN file = {}
    BY DEF LedgerInit
  <2> QED
    BY <2>1 DEF LedgerInit, LInv, IsFile, Domains, Chained, Verified, Appending
<1>2. Inv /\ [LedgerNext]_ledgerVars => Inv'
  <2> SUFFICES ASSUME Inv, [LedgerNext]_ledgerVars, failures' = {}
               PROVE  LInv'
    OBVIOUS
  <2>1. LInv
    BY FailuresStay
  <2> HIDE DEF Inv
  <2> QED
    BY <2>1, ChainInductive
<1>3. Inv => ChainInv
  BY DEF LInv, ChainInv
<1> QED
  BY <1>1, <1>2, <1>3, PTL DEF LedgerSpec

\* "Each record's hash covers the previous record's hash" (ledger.go:2-3).
THEOREM FileVerifies ==
    ASSUME Long = {}
    PROVE  LedgerSpec => []HashChained
<1>1. ChainInv => HashChained
  BY DEF ChainInv, Chained, HashChained
<1> QED
  BY <1>1, ChainInvariant, PTL

\* The daemon is never refused its own ledger.
THEOREM AlwaysReopens ==
    ASSUME Long = {}
    PROVE  LedgerSpec => []LedgerReopens
<1>1. ChainInv => LedgerReopens
  BY DEF ChainInv, Chained, LedgerReopens
<1> QED
  BY <1>1, ChainInvariant, PTL

-----------------------------------------------------------------------------
(* Acknowledged records.                                                     *)

\* A file whose last line has no newline ends in an unreadable line, and no
\* daemon is running on it; a record being synced is in the file.
DInv ==
    /\ IsFile /\ Domains
    /\ synced \in 0 .. Len(file)
    /\ unended => daemon # "up" /\ file # <<>> /\ file[Len(file)] = Torn
    /\ \A a \in Appender :
          /\ apc[a] \in Appending => daemon = "up"
          /\ apc[a] = "sync" => \E i \in 1 .. Len(file) : file[i] = rec[a]
    /\ AckedIsDurable

\* What cutting a file back to its first n lines, and perhaps part of the next,
\* leaves of it.
LEMMA CutFacts ==
    ASSUME NEW s, \E S : s \in Seq(S), NEW n \in 0 .. Len(s)
    PROVE  /\ \E S : SubSeq(s, 1, n) \in Seq(S)
           /\ Len(SubSeq(s, 1, n)) = n
           /\ \A i \in 1 .. n : SubSeq(s, 1, n)[i] = s[i]
<1>1. PICK S : s \in Seq(S)
  OBVIOUS
<1>2. SubSeq(s, 1, n) \in Seq(S) /\ Len(SubSeq(s, 1, n)) = n
  BY <1>1
<1>3. \A i \in 1 .. n : SubSeq(s, 1, n)[i] = s[i]
  BY <1>1
<1> QED
  BY <1>2, <1>3

\* A file that still has its synced lines keeps every acknowledged record.
LEMMA AckedKept ==
    ASSUME DInv, "write" \notin failures, synced' \in Nat, synced' >= synced,
           \A i \in 1 .. synced : file'[i] = file[i],
           \A a \in Appender : apc'[a] = "acked" => apc[a] = "acked" /\ rec'[a] = rec[a]
    PROVE  AckedIsDurable'
<1>1. synced \in Nat
  <2>1. PICK S : file \in Seq(S)
    BY DEF DInv, IsFile
  <2> QED
    BY <2>1 DEF DInv
<1> SUFFICES ASSUME NEW a \in Appender, apc'[a] = "acked"
             PROVE  \E i \in 1 .. synced' : file'[i] = rec'[a]
  BY DEF AckedIsDurable
<1>2. PICK i \in 1 .. synced : file[i] = rec[a]
  BY DEF DInv, AckedIsDurable
<1>3. i \in 1 .. synced'
  BY <1>1
<1> QED
  BY <1>2, <1>3

\* A step that leaves the file alone.
LEMMA SameFile ==
    ASSUME DInv, "write" \notin failures, UNCHANGED disk, Domains', daemon' # "up" \/ daemon = "up" \/ ~unended,
           \A a \in Appender :
              /\ apc'[a] \in Appending => daemon' = "up"
              /\ apc'[a] \in {"sync", "acked"} => apc[a] = apc'[a] /\ rec'[a] = rec[a]
    PROVE  DInv'
<1>1. synced \in Nat
  <2>1. PICK S : file \in Seq(S)
    BY DEF DInv, IsFile
  <2> QED
    BY <2>1 DEF DInv
<1>2. AckedIsDurable'
  BY <1>1, AckedKept DEF disk
<1>3. IsFile' /\ (synced \in 0 .. Len(file))' /\ UNCHANGED <<file, unended>>
  BY DEF DInv, IsFile, disk
<1> QED
  BY <1>2, <1>3 DEF DInv

\* Every step but a write that stops short keeps the acknowledged records.
LEMMA DurableInductive ==
    ASSUME "write" \notin failures, "write" \notin failures', DInv, [LedgerNext]_ledgerVars
    PROVE  DInv'
<1> USE DEF Appending
<1>0. PICK S : file \in Seq(S)
  BY DEF DInv, IsFile
<1>1. CASE UNCHANGED ledgerVars
  BY <1>1, SameFile DEF DInv, Domains, ledgerVars
<1>2. CASE OpenLedger
  <2>1. ~unended
    <3>1. CASE unended
      <4>1. Len(file) \in DOMAIN file
        BY <1>0, <3>1 DEF DInv
      <4> QED
        BY <1>2, <3>1, <4>1 DEF DInv, OpenLedger, Verified
    <3> QED
      BY <3>1
  <2>2. UNCHANGED disk /\ daemon' = "up" /\ UNCHANGED <<apc, rec>>
    BY <1>2 DEF OpenLedger
  <2> QED
    BY <2>1, <2>2, SameFile DEF DInv, Domains
<1>3. CASE OpenRefused
  <2>1. UNCHANGED disk /\ daemon = "down" /\ daemon' = "refused" /\ UNCHANGED <<apc, rec>>
    BY <1>3 DEF OpenRefused
  <2> QED
    BY <2>1, SameFile DEF DInv, Domains
<1>4. ASSUME NEW a \in Appender, NEW p \in Payload, Lock(a, p)
      PROVE  DInv'
  <2>1. /\ UNCHANGED <<disk, daemon>> /\ daemon = "up"
        /\ apc' = [apc EXCEPT ![a] = "open"]
        /\ rec' = [rec EXCEPT ![a] = [seq |-> seq + 1, prev |-> lastHash, body |-> p]]
    BY <1>4 DEF Lock
  <2>2. /\ Domains' /\ apc'[a] = "open"
        /\ \A b \in Appender : b # a => apc'[b] = apc[b] /\ rec'[b] = rec[b]
    BY <2>1 DEF DInv, Domains
  <2> QED
    BY <2>1, <2>2, SameFile DEF DInv
<1>5. ASSUME NEW a \in Appender, Write(a)
      PROVE  DInv'
  <2>1. /\ apc[a] = "open" /\ daemon = "up" /\ ~unended
        /\ file' = Append(file, rec[a]) /\ ~unended'
        /\ apc' = [apc EXCEPT ![a] = "sync"]
        /\ UNCHANGED <<synced, daemon, rec>>
    BY <1>5 DEF DInv, Write, Extended
  <2>2. /\ IsFile' /\ Len(file) \in Nat /\ Len(file') = Len(file) + 1
        /\ \A i \in 1 .. Len(file) : file'[i] = file[i]
        /\ file'[Len(file) + 1] = rec[a]
    <3>1. \E T : file \in Seq(T)
      BY DEF DInv, IsFile
    <3>2. /\ \E T : Append(file, rec[a]) \in Seq(T)
          /\ Len(file) \in Nat /\ Len(Append(file, rec[a])) = Len(file) + 1
          /\ \A i \in 1 .. Len(file) : Append(file, rec[a])[i] = file[i]
          /\ Append(file, rec[a])[Len(file) + 1] = rec[a]
      <4> DEFINE r == rec[a]
      <4> HIDE DEF r
      <4>1. \E T : Append(file, r) \in Seq(T)
        BY <3>1, AppendFacts
      <4>2. Len(file) \in Nat /\ Len(Append(file, r)) = Len(file) + 1
        BY <3>1, AppendFacts
      <4>3. \A i \in 1 .. Len(file) : Append(file, r)[i] = file[i]
        BY <3>1, AppendFacts
      <4>4. Append(file, r)[Len(file) + 1] = r
        BY <3>1, AppendFacts
      <4> QED
        BY <4>1, <4>2, <4>3, <4>4 DEF r
    <3>3. file' = Append(file, rec[a])
      BY <2>1
    <3> QED
      BY <3>2, <3>3 DEF IsFile
  <2>3. /\ Domains' /\ apc'[a] = "sync"
        /\ \A b \in Appender : b # a => apc'[b] = apc[b]
    BY <2>1 DEF DInv, Domains
  <2>4. AckedIsDurable'
    BY <2>1, <2>2, <2>3, AckedKept DEF DInv
  <2>5. synced' \in 0 .. Len(file')
    BY <2>1, <2>2 DEF DInv
  <2>6. ASSUME NEW b \in Appender, apc'[b] = "sync"
        PROVE  \E i \in 1 .. Len(file') : file'[i] = rec'[b]
    <3>1. CASE b = a
      BY <3>1, <2>1, <2>2
    <3>2. CASE b # a
      <4>1. PICK i \in 1 .. Len(file) : file[i] = rec[b]
        BY <2>3, <2>6, <3>2 DEF DInv
      <4>2. i \in 1 .. Len(file') /\ file'[i] = rec'[b]
        BY <4>1, <2>1, <2>2
      <4> QED
        BY <4>2
    <3> QED
      BY <3>1, <3>2
  <2> QED
    BY <2>1, <2>2, <2>3, <2>4, <2>5, <2>6 DEF DInv
<1>6. ASSUME NEW a \in Appender, SyncFails(a)
      PROVE  DInv'
  <2>1. /\ UNCHANGED <<disk, daemon, rec>> /\ apc' = [apc EXCEPT ![a] = "failed"]
    BY <1>6 DEF SyncFails, Return
  <2>2. /\ Domains' /\ apc'[a] = "failed"
        /\ \A b \in Appender : b # a => apc'[b] = apc[b]
    BY <2>1 DEF DInv, Domains
  <2> QED
    BY <2>1, <2>2, SameFile DEF DInv
<1>7. ASSUME NEW a \in Appender, Sync(a)
      PROVE  DInv'
  <2>1. /\ apc[a] = "sync" /\ synced' = Len(file)
        /\ apc' = [apc EXCEPT ![a] = "acked"]
        /\ UNCHANGED <<file, unended, daemon, rec>>
    BY <1>7 DEF Sync, Return
  <2>2. /\ Domains' /\ apc'[a] = "acked"
        /\ \A b \in Appender : b # a => apc'[b] = apc[b]
    BY <2>1 DEF DInv, Domains
  <2>3. Len(file) \in Nat /\ synced \in 0 .. Len(file)
    BY <1>0 DEF DInv
  <2>4. AckedIsDurable'
    <3> SUFFICES ASSUME NEW b \in Appender, apc'[b] = "acked"
                 PROVE  \E i \in 1 .. synced' : file'[i] = rec'[b]
      BY DEF AckedIsDurable
    <3>1. PICK i \in 1 .. Len(file) : file[i] = rec[b]
      <4>1. CASE b = a
        BY <4>1, <2>1 DEF DInv
      <4>2. CASE b # a
        <5>1. PICK i \in 1 .. synced : file[i] = rec[b]
          BY <4>2, <2>2 DEF DInv, AckedIsDurable
        <5>2. i \in 1 .. Len(file)
          BY <2>3
        <5> QED
          BY <5>1, <5>2
      <4> QED
        BY <4>1, <4>2
    <3> QED
      BY <3>1, <2>1
  <2> QED
    BY <2>1, <2>2, <2>3, <2>4 DEF DInv, IsFile
<1>8. CASE Kill
  <2>1. /\ UNCHANGED <<disk, rec>> /\ daemon' = "down"
        /\ apc' = [b \in Appender |-> IF apc[b] \in Appending THEN "dead" ELSE apc[b]]
    BY <1>8 DEF Kill, Die
  <2>2. /\ Domains'
        /\ \A b \in Appender : apc'[b] \notin Appending
        /\ \A b \in Appender : apc'[b] = "acked" => apc[b] = "acked"
    BY <2>1 DEF DInv, Domains
  <2> QED
    BY <2>1, <2>2, SameFile DEF DInv
<1>9. CASE PowerLoss
  <2>1. /\ UNCHANGED <<synced, rec>> /\ daemon = "up" /\ daemon' = "down"
        /\ apc' = [b \in Appender |-> IF apc[b] \in Appending THEN "dead" ELSE apc[b]]
    BY <1>9 DEF PowerLoss, Die
  <2>2. PICK n \in synced .. Len(file) :
          \/ file' = SubSeq(file, 1, n) /\ unended' = (unended /\ n = Len(file))
          \/ n < Len(file) /\ file' = Append(SubSeq(file, 1, n), Torn) /\ unended' = TRUE
    BY <1>9 DEF PowerLoss
  <2>3. n \in Nat /\ n \in 0 .. Len(file) /\ synced \in Nat /\ synced <= n
    BY <1>0 DEF DInv
  <2>4. /\ \E T : SubSeq(file, 1, n) \in Seq(T)
        /\ Len(SubSeq(file, 1, n)) = n
        /\ \A i \in 1 .. n : SubSeq(file, 1, n)[i] = file[i]
    <3>1. \E T : file \in Seq(T)
      BY <1>0
    <3> QED
      BY <2>3, <3>1, CutFacts, Zenon
  <2>5. /\ \E T : Append(SubSeq(file, 1, n), Torn) \in Seq(T)
        /\ Len(Append(SubSeq(file, 1, n), Torn)) = n + 1
        /\ \A i \in 1 .. n : Append(SubSeq(file, 1, n), Torn)[i] = SubSeq(file, 1, n)[i]
        /\ Append(SubSeq(file, 1, n), Torn)[n + 1] = Torn
        /\ Append(SubSeq(file, 1, n), Torn) # <<>>
    <3> DEFINE cut == SubSeq(file, 1, n)
               torn == Torn
    <3>1. (\E T : cut \in Seq(T)) /\ Len(cut) = n
      BY <2>4, Zenon
    <3> HIDE DEF cut, torn
    <3>2. \E T : Append(cut, torn) \in Seq(T)
      BY <3>1, AppendAt
    <3>3. Len(Append(cut, torn)) = n + 1
      BY <3>1, AppendAt
    <3>4. \A i \in 1 .. n : Append(cut, torn)[i] = cut[i]
      BY <3>1, AppendAt
    <3>5. Append(cut, torn)[n + 1] = torn
      BY <3>1, AppendAt
    <3>6. Append(cut, torn) # <<>>
      BY <3>1, AppendAt
    <3> QED
      BY <3>2, <3>3, <3>4, <3>5, <3>6, Zenon DEF cut, torn
  <2>6. ~unended
    BY <2>1 DEF DInv
  <2>7. /\ IsFile' /\ synced' \in 0 .. Len(file')
        /\ \A i \in 1 .. synced : file'[i] = file[i]
        /\ unended' => file' # <<>> /\ file'[Len(file')] = Torn
    <3>1. CASE file' = SubSeq(file, 1, n) /\ unended' = (unended /\ n = Len(file))
      <4>1. IsFile' /\ Len(file') = n
        BY <2>4, <3>1 DEF IsFile
      <4>2. \A i \in 1 .. synced : file'[i] = file[i]
        <5>1. \A i \in 1 .. synced : i \in 1 .. n
          BY <2>3
        <5> QED
          BY <5>1, <2>4, <3>1
      <4>3. synced' \in 0 .. n
        BY <2>1, <2>3
      <4> QED
        BY <4>1, <4>2, <4>3, <2>6, <3>1
    <3>2. CASE n < Len(file) /\ file' = Append(SubSeq(file, 1, n), Torn) /\ unended' = TRUE
      BY <2>1, <2>3, <2>4, <2>5, <3>2 DEF IsFile
    <3> QED
      BY <2>2, <3>1, <3>2
  <2>8. /\ Domains'
        /\ \A b \in Appender : apc'[b] \notin Appending
        /\ \A b \in Appender : apc'[b] = "acked" => apc[b] = "acked"
    BY <2>1 DEF DInv, Domains
  <2>9. AckedIsDurable'
    BY <2>1, <2>3, <2>7, <2>8, AckedKept
  <2> QED
    BY <2>1, <2>7, <2>8, <2>9 DEF DInv
<1> QED
  BY <1>1, <1>2, <1>3, <1>4, <1>5, <1>6, <1>7, <1>8, <1>9
     DEF LedgerNext, Step, WriteFails

\* A record that Append reported as written stays on disk and readable, unless
\* a write stops short.
THEOREM AcknowledgedStays == LedgerSpec => []AckedIsDurable
<1> DEFINE Inv == "write" \notin failures => DInv
<1>1. LedgerInit => Inv
  <2> SUFFICES ASSUME LedgerInit PROVE DInv
    OBVIOUS
  <2>1. file \in Seq({}) /\ Len(file) = 0
    BY DEF LedgerInit
  <2> QED
    BY <2>1 DEF LedgerInit, DInv, IsFile, Domains, AckedIsDurable, Appending
<1>2. Inv /\ [LedgerNext]_ledgerVars => Inv'
  <2> SUFFICES ASSUME Inv, [LedgerNext]_ledgerVars, "write" \notin failures'
               PROVE  DInv'
    OBVIOUS
  <2>1. DInv /\ "write" \notin failures
    BY FailuresStay
  <2> HIDE DEF Inv
  <2> QED
    BY <2>1, DurableInductive
<1>3. Inv => AckedIsDurable
  BY DEF DInv, AckedIsDurable
<1> QED
  BY <1>1, <1>2, <1>3, PTL DEF LedgerSpec

-----------------------------------------------------------------------------
(* The audited gate.                                                         *)

\* Where a handler is, where its append is, and what it has answered.
GateInv ==
    /\ DOMAIN apc = Flow /\ fpc \in [Flow -> {"new", "audit", "done"}]
    /\ DOMAIN decision = Flow /\ DOMAIN answer = Flow
    /\ \A f \in Flow :
          /\ apc[f] # "idle" => fpc[f] # "new"
          /\ apc[f] \in Appending => fpc[f] = "audit"
          /\ fpc[f] \in {"new", "audit"} => answer[f] = "none"
          /\ fpc[f] = "audit" => decision[f] \in Decision

Recorded == {<<f, decision[f]>> : f \in {g \in Flow : apc[g] = "acked"}}

\* The invariant holds at first and is kept by every step.
LEMMA GateInductive ==
    ASSUME GateInv, [Next]_vars PROVE GateInv'
<1> USE DEF Appending
<1>1. CASE UNCHANGED vars
  BY <1>1 DEF GateInv, vars, ledgerVars, flowVars
<1>2. CASE LedgerWork
  <2>1. CASE OpenLedger \/ OpenRefused
    BY <1>2, <2>1 DEF LedgerWork, OpenLedger, OpenRefused, GateInv, flowVars
  <2>2. ASSUME NEW f \in Flow, Step(f)
        PROVE  GateInv'
    <3>1. UNCHANGED flowVars
      BY <1>2 DEF LedgerWork
    <3>2. apc[f] \in Appending
          /\ \E r \in {"sync", "acked", "failed"} : apc' = [apc EXCEPT ![f] = r]
      BY <2>2 DEF Step, Write, WriteFails, Sync, SyncFails, Return
    <3> QED
      BY <3>1, <3>2 DEF GateInv, flowVars
  <2> QED
    BY <1>2, <2>1, <2>2 DEF LedgerWork
<1>3. CASE Stop
  <2>1. /\ apc' = [f \in Flow |-> IF apc[f] \in Appending THEN "dead" ELSE apc[f]]
        /\ fpc' = [f \in Flow |-> IF fpc[f] = "audit" THEN "done" ELSE fpc[f]]
        /\ answer' = [f \in Flow |-> IF fpc[f] = "audit" THEN "refused" ELSE answer[f]]
        /\ UNCHANGED decision
    BY <1>3 DEF Stop, Kill, PowerLoss, Die, Flow
  <2> QED
    BY <2>1 DEF GateInv
<1>4. ASSUME NEW f \in Flow, HandleFlow(f)
      PROVE  GateInv'
  <2>1. CASE PassThrough(f)
    BY <2>1 DEF PassThrough, Answer, GateInv, ledgerVars
  <2>2. CASE DenyMalformed(f) \/ Authorize(f)
    BY <2>2 DEF DenyMalformed, Authorize, Decided, GateInv, ledgerVars, Decision
  <2>3. CASE Audit(f)
    BY <2>3 DEF Audit, Lock, GateInv, flowVars
  <2>4. CASE Inject(f) \/ Reject(f)
    BY <2>4 DEF Inject, Reject, Answer, Audited, GateInv, ledgerVars
  <2> QED
    BY <1>4, <2>1, <2>2, <2>3, <2>4 DEF HandleFlow
<1> QED
  BY <1>1, <1>2, <1>3, <1>4 DEF Next

\* A step under which no append is acknowledged and no recorded decision
\* changes leaves the record alone.
LEMMA RecordKept ==
    ASSUME DOMAIN apc = Flow,
           \A f \in Flow : apc'[f] = "acked" <=> apc[f] = "acked",
           \A f \in Flow : apc[f] = "acked" => decision'[f] = decision[f]
    PROVE  UNCHANGED Recorded
BY DEF Recorded

\* Every step is a step of the gate or changes nothing the gate sees.
LEMMA GateStep ==
    ASSUME GateInv, [Next]_vars
    PROVE  [Gate!Next]_(Gate!vars)
<1> USE DEF Appending
<1>1. CASE UNCHANGED vars
  BY <1>1 DEF vars, ledgerVars, flowVars, Gate!vars
<1>2. CASE LedgerWork
  <2>1. UNCHANGED flowVars
    BY <1>2 DEF LedgerWork
  <2>2. CASE OpenLedger \/ OpenRefused
    BY <2>1, <2>2 DEF OpenLedger, OpenRefused, Gate!vars, flowVars
  <2>3. ASSUME NEW f \in Flow, Step(f), ~Sync(f)
        PROVE  UNCHANGED Gate!vars
    <3>1. apc[f] \in Appending
          /\ \E r \in {"sync", "failed"} : apc' = [apc EXCEPT ![f] = r]
      BY <2>3 DEF Step, Write, WriteFails, SyncFails, Return
    <3>2. UNCHANGED Recorded
      BY <3>1, <2>1, RecordKept DEF GateInv, flowVars
    <3> QED
      BY <3>2, <2>1 DEF Gate!vars, flowVars, Recorded
  <2>4. ASSUME NEW f \in Flow, Sync(f)
        PROVE  \E d \in Decision : Gate!Record(f, d)
    <3>1. apc[f] = "sync" /\ apc' = [apc EXCEPT ![f] = "acked"]
      BY <2>4 DEF Sync, Return
    <3>2. answer[f] = "none" /\ decision[f] \in Decision
      BY <3>1 DEF GateInv
    <3>3. \A entry \in Recorded : entry[1] # f
      BY <3>1 DEF Recorded
    <3>4. Recorded' = Recorded \cup {<<f, decision[f]>>}
      <4>1. {g \in Flow : apc'[g] = "acked"} = {g \in Flow : apc[g] = "acked"} \cup {f}
        BY <3>1 DEF GateInv
      <4> QED
        BY <4>1, <2>1 DEF Recorded, flowVars
    <3>5. PICK d \in Decision : d = decision[f]
      BY <3>2
    <3>6. Gate!Record(f, d)
      BY <3>2, <3>3, <3>4, <3>5, <2>1 DEF Gate!Record, Recorded, flowVars
    <3> QED
      BY <3>6
  <2>5. ASSUME NEW f \in Flow, Step(f)
        PROVE  [Gate!Next]_(Gate!vars)
    <3>1. CASE Sync(f)
      <4>1. PICK d \in Decision : Gate!Record(f, d)
        BY <2>4, <3>1
      <4> QED
        BY <4>1 DEF Gate!Next
    <3>2. CASE ~Sync(f)
      BY <2>3, <2>5, <3>2
    <3> QED
      BY <3>1, <3>2
  <2> QED
    BY <1>2, <2>2, <2>5 DEF LedgerWork
<1>3. CASE Stop
  <2> DEFINE R == {f \in Flow : fpc[f] = "audit"}
  <2>1. \A f \in R : answer[f] = "none"
    BY DEF GateInv
  <2>2. answer' = [f \in Flow |-> IF f \in R THEN "refused" ELSE answer[f]]
    BY <1>3 DEF Stop
  <2>3. UNCHANGED Recorded
    <3>1. /\ apc' = [a \in Flow |-> IF apc[a] \in Appending THEN "dead" ELSE apc[a]]
          /\ UNCHANGED decision
      BY <1>3 DEF Stop, Kill, PowerLoss, Die, Flow
    <3> QED
      BY <3>1, RecordKept DEF GateInv
  <2>4. Gate!Refuse(R) /\ R \in SUBSET Flow
    BY <2>1, <2>2, <2>3 DEF Gate!Refuse, Recorded
  <2> QED
    BY <2>4 DEF Gate!Next
<1>4. ASSUME NEW f \in Flow, HandleFlow(f)
      PROVE  [Gate!Next]_(Gate!vars)
  <2>1. CASE PassThrough(f)
    <3>1. /\ f \notin Managed /\ fpc[f] = "new" /\ answer' = [answer EXCEPT ![f] = "passed"]
          /\ UNCHANGED <<apc, decision>>
      BY <2>1 DEF PassThrough, Answer, ledgerVars
    <3>2. answer[f] = "none"
      BY <3>1 DEF GateInv
    <3>3. Gate!PassThrough(f)
      BY <3>1, <3>2 DEF Gate!PassThrough, Gate!Answer
    <3> QED
      BY <3>3 DEF Gate!Next
  <2>2. CASE DenyMalformed(f) \/ Authorize(f)
    <3>1. /\ fpc[f] = "new" /\ UNCHANGED <<apc, answer>>
          /\ \E d : decision' = [decision EXCEPT ![f] = d]
      BY <2>2 DEF DenyMalformed, Authorize, Decided, ledgerVars
    <3>2. apc[f] # "acked"
      BY <3>1 DEF GateInv
    <3>3. UNCHANGED Recorded
      BY <3>1, <3>2, RecordKept DEF GateInv
    <3> QED
      BY <3>1, <3>3 DEF Gate!vars, Recorded
  <2>3. CASE Audit(f)
    <3>1. apc[f] = "idle" /\ apc' = [apc EXCEPT ![f] = "open"] /\ UNCHANGED flowVars
      BY <2>3 DEF Audit, Lock
    <3>2. UNCHANGED Recorded
      BY <3>1, RecordKept DEF GateInv, flowVars
    <3> QED
      BY <3>1, <3>2 DEF Gate!vars, Recorded, flowVars
  <2>4. CASE Inject(f)
    <3>1. /\ fpc[f] = "audit" /\ apc[f] = "acked" /\ decision[f] = "allow"
          /\ answer' = [answer EXCEPT ![f] = "injected"] /\ UNCHANGED <<apc, decision>>
      BY <2>4 DEF Inject, Audited, Answer, ledgerVars
    <3>2. answer[f] = "none" /\ <<f, "allow">> \in Recorded
      BY <3>1 DEF GateInv, Recorded
    <3>3. Gate!Forward(f)
      BY <3>1, <3>2 DEF Gate!Forward, Gate!Answer, Recorded
    <3> QED
      BY <3>3 DEF Gate!Next
  <2>5. CASE Reject(f)
    <3>1. /\ fpc[f] = "audit" /\ answer' = [answer EXCEPT ![f] = "refused"]
          /\ UNCHANGED <<apc, decision>>
      BY <2>5 DEF Reject, Answer, ledgerVars
    <3>2. answer[f] = "none"
      BY <3>1 DEF GateInv
    <3>3. Gate!Refuse({f}) /\ {f} \in SUBSET Flow
      BY <3>1, <3>2 DEF Gate!Refuse, GateInv
    <3> QED
      BY <3>3 DEF Gate!Next
  <2> QED
    BY <1>4, <2>1, <2>2, <2>3, <2>4, <2>5 DEF HandleFlow
<1> QED
  BY <1>1, <1>2, <1>3, <1>4 DEF Next

\* The broker path is an audited gate, for any number of requests.
THEOREM ImplementsGate == Spec => GateSpec
<1>1. Init => GateInv
  BY DEF Init, LedgerInit, GateInv, Flow, Appending
<1>2. GateInv /\ [Next]_vars => GateInv'
  BY GateInductive
<1>3. Init => Gate!Init
  BY DEF Init, LedgerInit, Gate!Init, Flow
<1>4. GateInv /\ [Next]_vars => [Gate!Next]_(Gate!vars)
  BY GateStep
<1> QED
  BY <1>1, <1>2, <1>3, <1>4, PTL DEF Spec, GateSpec, Gate!Spec

-----------------------------------------------------------------------------
(* What left with a credential is on record.                                 *)

\* An unreadable line may stand where a record was written: this is what
\* becomes of the last line when a write stops short and another follows.
Holds(line, r) == line \in {r, Torn}

SpoilInv ==
    /\ IsFile /\ Domains
    /\ synced \in 0 .. Len(file)
    /\ unended => file # <<>>
    /\ \A a \in Appender :
          /\ apc[a] = "sync" => \E i \in 1 .. Len(file) : Holds(file[i], rec[a])
          /\ apc[a] = "acked" => \E i \in 1 .. synced : Holds(file[i], rec[a])

\* The record of a flow holds its decision, and only an audited allow is acted on.
FlowRecords ==
    \A f \in Flow :
        /\ apc[f] # "idle" => rec[f].body = <<f, decision[f]>>
        /\ answer[f] = "injected" => apc[f] = "acked" /\ decision[f] = "allow"

SpoiltOrKept == GateInv /\ SpoilInv /\ FlowRecords

\* What a write makes of the file: a line more, or a last line spoilt.
LEMMA ExtendedFacts ==
    ASSUME IsFile, unended => file # <<>>, NEW line, file' = Extended(line)
    PROVE  /\ IsFile' /\ file' # <<>>
           /\ Len(file) \in Nat /\ Len(file') \in Nat /\ Len(file') >= Len(file)
           /\ \A i \in 1 .. Len(file) : file'[i] \in {file[i], Torn}
           /\ Len(file') >= 1 /\ Holds(file'[Len(file')], line)
<1>0. PICK S : file \in Seq(S)
  BY DEF IsFile
<1>1. CASE unended
  <2> DEFINE torn == Torn
             T == S \cup {torn}
  <2> HIDE DEF torn
  <2>1. Len(file) \in Nat /\ Len(file) \in 1 .. Len(file) /\ Len(file) >= 1
    BY <1>0, <1>1, EmptySeq
  <2>2. file' = [file EXCEPT ![Len(file)] = torn]
    BY <1>1 DEF Extended, torn
  <2>3. file \in Seq(T) /\ torn \in T
    BY <1>0, SeqMonotonic
  <2> HIDE DEF T
  <2>4. /\ file' \in Seq(T) /\ Len(file') = Len(file)
        /\ \A i \in 1 .. Len(file) : file'[i] = IF i = Len(file) THEN torn ELSE file[i]
    <3>1. /\ [file EXCEPT ![Len(file)] = torn] \in Seq(T)
          /\ Len([file EXCEPT ![Len(file)] = torn]) = Len(file)
          /\ \A i \in 1 .. Len(file) : [file EXCEPT ![Len(file)] = torn][i] =
                                     IF i = Len(file) THEN torn ELSE file[i]
      BY <2>1, <2>3, ExceptSeq
    <3> QED
      BY <2>2, <3>1
  <2>5. file' # <<>> /\ IsFile'
    BY <2>1, <2>4, EmptySeq DEF IsFile
  <2>6. /\ \A i \in 1 .. Len(file) : file'[i] \in {file[i], torn}
        /\ file'[Len(file')] = torn
    BY <2>1, <2>4
  <2> QED
    BY <2>1, <2>4, <2>5, <2>6 DEF Holds, torn
<1>2. CASE ~unended
  <2>1. file' = Append(file, line)
    BY <1>2 DEF Extended
  <2>2. /\ \E U : file' \in Seq(U)
        /\ Len(file) \in Nat /\ Len(file') = Len(file) + 1
        /\ \A i \in 1 .. Len(file) : file'[i] = file[i]
        /\ file'[Len(file) + 1] = line /\ file' # <<>>
    <3>1. \E U : file \in Seq(U)
      BY <1>0
    <3>2. \E U : Append(file, line) \in Seq(U)
      BY <3>1, AppendFacts
    <3>3. Len(file) \in Nat /\ Len(Append(file, line)) = Len(file) + 1
      BY <3>1, AppendFacts
    <3>4. \A i \in 1 .. Len(file) : Append(file, line)[i] = file[i]
      BY <3>1, AppendFacts
    <3>5. Append(file, line)[Len(file) + 1] = line /\ Append(file, line) # <<>>
      BY <3>1, AppendFacts
    <3> QED
      BY <2>1, <3>2, <3>3, <3>4, <3>5
  <2> QED
    BY <2>2 DEF IsFile, Holds
<1> QED
  BY <1>1, <1>2

\* A step under which the synced lines at worst become unreadable, and so do
\* those being synced as long as the process lives.
LEMMA SpoilStep ==
    ASSUME SpoilInv, IsFile', Domains', synced' \in 0 .. Len(file'), unended' => file' # <<>>,
           synced \in Nat, synced' >= synced,
           \A i \in 1 .. synced : file'[i] \in {file[i], Torn},
           \A a \in Appender :
              /\ apc'[a] = "acked" => rec'[a] = rec[a] /\ apc[a] = "acked"
              /\ apc'[a] = "sync" => \E i \in 1 .. Len(file') : Holds(file'[i], rec'[a])
    PROVE  SpoilInv'
<1>1. ASSUME NEW a \in Appender, apc'[a] = "acked"
      PROVE  \E i \in 1 .. synced' : Holds(file'[i], rec'[a])
  <2>1. PICK i \in 1 .. synced : Holds(file[i], rec[a])
    BY <1>1 DEF SpoilInv
  <2>2. i \in 1 .. synced' /\ Holds(file'[i], rec'[a])
    BY <1>1, <2>1 DEF Holds
  <2> QED
    BY <2>2
<1> QED
  BY <1>1 DEF SpoilInv

\* The lines stay as they are and none comes back from being unsynced.
LEMMA SameLines ==
    ASSUME SpoilInv, UNCHANGED disk, Domains',
           \A a \in Appender :
              apc'[a] \in {"sync", "acked"} => apc[a] = apc'[a] /\ rec'[a] = rec[a]
    PROVE  SpoilInv'
<1>1. synced \in Nat
  <2>1. PICK S : file \in Seq(S)
    BY DEF SpoilInv, IsFile
  <2> QED
    BY <2>1 DEF SpoilInv
<1> QED
  BY <1>1, SpoilStep DEF SpoilInv, disk, IsFile

LEMMA LedgerSpoils ==
    ASSUME SpoilInv,
           \/ OpenLedger \/ OpenRefused \/ Kill \/ PowerLoss \/ UNCHANGED ledgerVars
           \/ \E a \in Appender : Step(a) \/ \E p : Lock(a, p)
    PROVE  SpoilInv'
<1> USE DEF Appending
<1>0. /\ Len(file) \in Nat /\ synced \in Nat /\ synced <= Len(file)
      /\ \E S : file \in Seq(S)
  <2>1. PICK S : file \in Seq(S)
    BY DEF SpoilInv, IsFile
  <2> QED
    BY <2>1 DEF SpoilInv
<1>1. CASE OpenLedger \/ OpenRefused \/ UNCHANGED ledgerVars
  BY <1>1, SameLines DEF OpenLedger, OpenRefused, ledgerVars, SpoilInv, Domains
<1>2. ASSUME NEW a \in Appender, NEW p, Lock(a, p)
      PROVE  SpoilInv'
  <2>1. /\ UNCHANGED disk /\ apc' = [apc EXCEPT ![a] = "open"]
        /\ \E r : rec' = [rec EXCEPT ![a] = r]
    BY <1>2 DEF Lock
  <2> QED
    BY <2>1, SameLines DEF SpoilInv, Domains
<1>3. ASSUME NEW a \in Appender, SyncFails(a)
      PROVE  SpoilInv'
  <2>1. /\ UNCHANGED <<disk, rec>> /\ apc' = [apc EXCEPT ![a] = "failed"]
    BY <1>3 DEF SyncFails, Return
  <2> QED
    BY <2>1, SameLines DEF SpoilInv, Domains
<1>4. ASSUME NEW a \in Appender, Write(a) \/ WriteFails(a)
      PROVE  SpoilInv'
  <2>1. PICK r \in {"sync", "failed"} :
           /\ apc' = [apc EXCEPT ![a] = r] /\ UNCHANGED <<synced, rec>>
           /\ r = "sync" => file' = Extended(rec[a]) /\ ~unended'
    BY <1>4 DEF Write, WriteFails, Return
  <2>2. \/ UNCHANGED <<file, unended>>
        \/ \E line : file' = Extended(line)
    BY <1>4 DEF Write, WriteFails
  <2>3. /\ IsFile' /\ (unended' => file' # <<>>)
        /\ Len(file') \in Nat /\ Len(file') >= Len(file)
        /\ \A i \in 1 .. Len(file) : file'[i] \in {file[i], Torn}
    <3>1. CASE UNCHANGED <<file, unended>>
      BY <1>0, <3>1 DEF SpoilInv, IsFile
    <3>2. CASE \E line : file' = Extended(line)
      BY <3>2, ExtendedFacts DEF SpoilInv
    <3> QED
      BY <2>2, <3>1, <3>2
  <2>4. r = "sync" => Len(file') >= 1 /\ Holds(file'[Len(file')], rec[a])
    BY <2>1, ExtendedFacts DEF SpoilInv
  <2>5. Domains' /\ apc'[a] = r /\ \A b \in Appender \ {a} : apc'[b] = apc[b]
    BY <2>1 DEF SpoilInv, Domains
  <2>6. ASSUME NEW b \in Appender, apc'[b] = "sync"
        PROVE  \E i \in 1 .. Len(file') : Holds(file'[i], rec'[b])
    <3>1. CASE b = a
      <4>1. Len(file') \in 1 .. Len(file')
        BY <2>3, <2>4, <2>5, <2>6, <3>1
      <4> QED
        BY <2>1, <2>4, <2>5, <2>6, <3>1, <4>1
    <3>2. CASE b # a
      <4>1. PICK i \in 1 .. Len(file) : Holds(file[i], rec[b])
        BY <2>5, <2>6, <3>2 DEF SpoilInv
      <4>2. i \in 1 .. Len(file') /\ Holds(file'[i], rec'[b])
        BY <1>0, <2>1, <2>3, <4>1 DEF Holds
      <4> QED
        BY <4>2
    <3> QED
      BY <3>1, <3>2
  <2>7. /\ synced' \in 0 .. Len(file') /\ synced' >= synced
        /\ \A i \in 1 .. synced : i \in 1 .. Len(file)
    BY <1>0, <2>1, <2>3
  <2> QED
    BY <1>0, <2>1, <2>3, <2>5, <2>6, <2>7, SpoilStep
<1>5. ASSUME NEW a \in Appender, Sync(a)
      PROVE  SpoilInv'
  <2>1. /\ apc[a] = "sync" /\ synced' = Len(file) /\ apc' = [apc EXCEPT ![a] = "acked"]
        /\ UNCHANGED <<file, unended, rec>>
    BY <1>5 DEF Sync, Return
  <2>2. Domains' /\ apc'[a] = "acked" /\ \A b \in Appender \ {a} : apc'[b] = apc[b]
    BY <2>1 DEF SpoilInv, Domains
  <2>3. ASSUME NEW b \in Appender, apc'[b] \in {"sync", "acked"}
        PROVE  \E i \in 1 .. Len(file) : Holds(file[i], rec[b])
    <3>1. CASE b = a \/ apc[b] = "sync"
      BY <2>1, <3>1 DEF SpoilInv
    <3>2. CASE b # a /\ apc[b] = "acked"
      <4>1. PICK i \in 1 .. synced : Holds(file[i], rec[b])
        BY <3>2 DEF SpoilInv
      <4>2. i \in 1 .. Len(file)
        BY <1>0
      <4> QED
        BY <4>1, <4>2
    <3> QED
      BY <2>2, <2>3, <3>1, <3>2
  <2> QED
    BY <1>0, <2>1, <2>2, <2>3 DEF SpoilInv, IsFile
<1>6. CASE Kill \/ PowerLoss
  <2>1. /\ UNCHANGED <<synced, rec>>
        /\ apc' = [b \in Appender |-> IF apc[b] \in Appending THEN "dead" ELSE apc[b]]
    BY <1>6 DEF Kill, PowerLoss, Die, disk
  <2>2. /\ Domains' /\ \A b \in Appender : apc'[b] # "sync"
        /\ \A b \in Appender : apc'[b] = "acked" => apc[b] = "acked"
    BY <2>1 DEF SpoilInv, Domains
  <2>3. CASE Kill
    <3>1. UNCHANGED disk
      BY <2>3 DEF Kill
    <3> QED
      BY <2>1, <2>2, <3>1, SameLines
  <2>4. CASE PowerLoss
    <3>1. PICK n \in synced .. Len(file) :
            \/ file' = SubSeq(file, 1, n) /\ unended' = (unended /\ n = Len(file))
            \/ n < Len(file) /\ file' = Append(SubSeq(file, 1, n), Torn) /\ unended' = TRUE
      BY <2>4 DEF PowerLoss
    <3> DEFINE cut == SubSeq(file, 1, n)
               torn == Torn
    <3>2. /\ (\E T : cut \in Seq(T)) /\ Len(cut) = n /\ n \in Nat /\ synced <= n
          /\ \A i \in 1 .. n : cut[i] = file[i]
      <4>1. n \in 0 .. Len(file) /\ n \in Nat /\ synced <= n
        BY <1>0
      <4> QED
        BY <1>0, <4>1, CutFacts, Zenon
    <3>3. n = Len(file) => cut = file
      <4>1. PICK S : file \in Seq(S)
        BY <1>0
      <4> QED
        BY <4>1, SubSeqFull
    <3>4. \/ file' = cut /\ (unended' => unended /\ n = Len(file))
          \/ file' = Append(cut, torn)
      BY <3>1
    <3> HIDE DEF cut, torn
    <3>5. /\ IsFile' /\ Len(file') \in Nat /\ Len(file') >= n
          /\ \A i \in 1 .. n : file'[i] = file[i]
          /\ unended' => file' # <<>>
      <4>1. CASE file' = cut /\ (unended' => unended /\ n = Len(file))
        BY <3>2, <3>3, <4>1 DEF IsFile, SpoilInv
      <4>2. CASE file' = Append(cut, torn)
        <5>1. (\E T : cut \in Seq(T)) /\ Len(cut) = n
          BY <3>2
        <5>2. \E T : Append(cut, torn) \in Seq(T)
          BY <5>1, AppendAt
        <5>3. Len(Append(cut, torn)) = n + 1
          BY <5>1, AppendAt
        <5>4. \A i \in 1 .. n : Append(cut, torn)[i] = cut[i]
          BY <5>1, AppendAt
        <5>5. Append(cut, torn) # <<>>
          BY <5>1, AppendAt
        <5> QED
          BY <3>2, <4>2, <5>2, <5>3, <5>4, <5>5 DEF IsFile
      <4> QED
        BY <3>4, <4>1, <4>2
    <3>6. /\ synced' \in 0 .. Len(file') /\ synced' >= synced
          /\ \A i \in 1 .. synced : i \in 1 .. n
      BY <1>0, <2>1, <3>2, <3>5
    <3> QED
      BY <1>0, <2>1, <2>2, <3>5, <3>6, SpoilStep
  <2> QED
    BY <1>6, <2>3, <2>4
<1> QED
  BY <1>1, <1>2, <1>3, <1>4, <1>5, <1>6 DEF Step

LEMMA FlowsSpoil ==
    ASSUME SpoilInv, [Next]_vars PROVE SpoilInv'
<1>1. CASE UNCHANGED vars \/ LedgerWork \/ Stop
  BY <1>1, LedgerSpoils DEF vars, LedgerWork, Stop, Flow
<1>2. ASSUME NEW f \in Flow, HandleFlow(f) PROVE SpoilInv'
  <2>1. \/ UNCHANGED ledgerVars \/ \E p : Lock(f, p)
    BY <1>2 DEF HandleFlow, PassThrough, DenyMalformed, Authorize, Audit, Inject, Reject
  <2> QED
    BY <2>1, LedgerSpoils DEF Flow
<1> QED
  BY <1>1, <1>2 DEF Next

LEMMA RecordsKept ==
    ASSUME GateInv, Domains, FlowRecords, [Next]_vars PROVE FlowRecords'
<1> USE DEF Appending
<1>1. CASE UNCHANGED vars
  BY <1>1 DEF FlowRecords, vars, ledgerVars, flowVars
<1>2. CASE LedgerWork
  <2>1. UNCHANGED <<rec, flowVars>>
    BY <1>2 DEF LedgerWork, OpenLedger, OpenRefused, Step, Write, WriteFails, Sync, SyncFails
  <2>2. \A f \in Flow : \/ apc'[f] = apc[f]
                        \/ apc[f] \in Appending
    BY <1>2 DEF LedgerWork, OpenLedger, OpenRefused, Step, Write, WriteFails, Sync,
       SyncFails, Return, GateInv
  <2> QED
    BY <2>1, <2>2 DEF FlowRecords, flowVars
<1>3. CASE Stop
  <2>1. /\ apc' = [a \in Flow |-> IF apc[a] \in Appending THEN "dead" ELSE apc[a]]
        /\ UNCHANGED <<rec, decision>>
        /\ answer' = [f \in Flow |-> IF fpc[f] = "audit" THEN "refused" ELSE answer[f]]
    BY <1>3 DEF Stop, Kill, PowerLoss, Die, Flow
  <2> QED
    BY <2>1 DEF FlowRecords, GateInv
<1>4. ASSUME NEW f \in Flow, HandleFlow(f)
      PROVE  FlowRecords'
  <2>1. CASE PassThrough(f) \/ Reject(f) \/ Inject(f)
    <3>1. PICK a \in {"passed", "refused", "injected"} :
             /\ UNCHANGED <<apc, rec, decision>>
             /\ answer' = [answer EXCEPT ![f] = a]
             /\ a = "injected" => apc[f] = "acked" /\ decision[f] = "allow"
      BY <2>1 DEF PassThrough, Reject, Inject, Audited, Answer, ledgerVars
    <3> QED
      BY <3>1 DEF FlowRecords, GateInv
  <2>2. CASE DenyMalformed(f) \/ Authorize(f)
    <3>1. /\ fpc[f] = "new" /\ UNCHANGED <<apc, rec, answer>>
          /\ \E d : decision' = [decision EXCEPT ![f] = d]
      BY <2>2 DEF DenyMalformed, Authorize, Decided, ledgerVars
    <3>2. apc[f] = "idle" /\ answer[f] = "none"
      BY <3>1 DEF GateInv
    <3> QED
      BY <3>1, <3>2 DEF FlowRecords, GateInv
  <2>3. CASE Audit(f)
    <3> DEFINE r == [seq |-> seq + 1, prev |-> lastHash, body |-> <<f, decision[f]>>]
    <3>1. /\ apc[f] = "idle" /\ apc' = [apc EXCEPT ![f] = "open"] /\ UNCHANGED flowVars
          /\ rec' = [rec EXCEPT ![f] = r]
      BY <2>3 DEF Audit, Lock
    <3>2. r.body = <<f, decision[f]>>
      OBVIOUS
    <3> HIDE DEF r
    <3> QED
      BY <3>1, <3>2 DEF FlowRecords, GateInv, Domains, Flow, flowVars
  <2> QED
    BY <1>4, <2>1, <2>2, <2>3 DEF HandleFlow
<1> QED
  BY <1>1, <1>2, <1>3, <1>4 DEF Next

\* A request that left with a credential has its allow on disk and readable,
\* through kills, power losses, failed syncs and failed writes, unless one of the
\* synced lines was spoilt.
THEOREM InjectedStaysOnRecord == Spec => []InjectedIsOnRecord
<1>1. Init => SpoiltOrKept
  <2> SUFFICES ASSUME Init PROVE SpoiltOrKept
    OBVIOUS
  <2>1. file \in Seq({}) /\ Len(file) = 0
    BY DEF Init, LedgerInit
  <2> QED
    BY <2>1 DEF Init, LedgerInit, SpoiltOrKept, GateInv, SpoilInv, FlowRecords, IsFile, Domains,
       Flow, Appending
<1>2. SpoiltOrKept /\ [Next]_vars => SpoiltOrKept'
  BY GateInductive, FlowsSpoil, RecordsKept DEF SpoiltOrKept, SpoilInv
<1>3. SpoiltOrKept => InjectedIsOnRecord
  BY DEF SpoiltOrKept, SpoilInv, FlowRecords, InjectedIsOnRecord, Holds, Flow
<1> QED
  BY <1>1, <1>2, <1>3, PTL DEF Spec

=============================================================================
