-------------------------- MODULE InstallationProofs --------------------------
(***************************************************************************)
(* What the edits of the harnesses' files do to every file: the user's     *)
(* entries survive, Configure is enough for its own check, Deconfigure     *)
(* leaves nothing behind, and on a file of the usual kind it is exactly    *)
(* the inverse of Configure.                                               *)
(*                                                                         *)
(* And theorems about Installation, for all integrations, options,         *)
(* settings and policies, however many commands run and are killed:        *)
(* whoever changed the settings of Claude Desktop can be found, and so can *)
(* the CA that the user's tools trust (LauncherInv, CAInv); the user loses *)
(* nothing, what is shared stays (UserInv, SharedInv); what a deinit or a  *)
(* reset removed is gone (RemovedInv); what an init reports is whole, and  *)
(* the CA that is served is the one in the bundle (WholeInv).              *)
(***************************************************************************)
EXTENDS Installation, TLAPS

USE HarnessAssumption

-----------------------------------------------------------------------------
(* Hooks. *)

\* Stripping takes the handlers of Keydris and no other.
LEMMA StripFacts ==
  ASSUME NEW G \in SUBSET SUBSET Handler
  PROVE  /\ StripKeydrisHandlers(G) \in SUBSET SUBSET Handler
         /\ \A g \in StripKeydrisHandlers(G) : g \cap KeydrisHandler = {}
         /\ (UNION StripKeydrisHandlers(G)) \ KeydrisHandler = (UNION G) \ KeydrisHandler
<1> DEFINE S == StripKeydrisHandlers(G)
<1>1. S \in SUBSET SUBSET Handler
  BY DEF StripKeydrisHandlers
<1>2. \A g \in S : g \cap KeydrisHandler = {}
  BY DEF StripKeydrisHandlers
<1>3. ASSUME NEW h \in (UNION S) \ KeydrisHandler
      PROVE  h \in (UNION G) \ KeydrisHandler
  <2>1. PICK f \in S : h \in f
    BY <1>3
  <2>2. f \in G \/ \E g \in G : f = g \ KeydrisHandler
    BY <2>1 DEF StripKeydrisHandlers
  <2> QED BY <2>1, <2>2, <1>3
<1>4. ASSUME NEW h \in (UNION G) \ KeydrisHandler
      PROVE  h \in (UNION S) \ KeydrisHandler
  <2>1. PICK g \in G : h \in g
    BY <1>4
  <2>2. CASE g \cap KeydrisHandler = {}
    BY <2>1, <2>2, <1>4 DEF StripKeydrisHandlers
  <2>3. CASE g \cap KeydrisHandler # {}
    <3>1. h \in g \ KeydrisHandler
      BY <2>1, <1>4
    <3>2. g \ KeydrisHandler \in S
      BY <2>1, <2>3, <3>1 DEF StripKeydrisHandlers
    <3> QED BY <3>1, <3>2, <1>4
  <2> QED BY <2>2, <2>3
<1> QED BY <1>1, <1>2, <1>3, <1>4

\* A group of its own is all that wiring a hook adds, and stripping takes it out.
LEMMA StripMerged ==
  ASSUME NEW G \in SUBSET SUBSET Handler, NEW c \in KeydrisHandler,
         \A g \in G : g \cap KeydrisHandler = {}
  PROVE  /\ StripKeydrisHandlers(G) = G
         /\ StripKeydrisHandlers(G \cup {{c}}) = G
<1>1. StripKeydrisHandlers(G) = G
  BY DEF StripKeydrisHandlers
<1>2. {g \in G \cup {{c}} : g \cap KeydrisHandler = {}} = G
  OBVIOUS
<1>3. {g \in G \cup {{c}} : g \cap KeydrisHandler # {}} = {{c}}
  OBVIOUS
<1>4. {g \ KeydrisHandler : g \in {{c}}} \ {{}} = {}
  OBVIOUS
<1>5. StripKeydrisHandlers(G \cup {{c}}) = G
  BY <1>2, <1>3, <1>4 DEF StripKeydrisHandlers
<1> QED BY <1>1, <1>5

\* The group that wiring adds holds no handler of the user.
LEMMA WiredIsKeydris ==
  ASSUME NEW T, NEW c \in KeydrisHandler
  PROVE  (UNION (T \cup {{c}})) \ KeydrisHandler = (UNION T) \ KeydrisHandler
<1>1. ASSUME NEW h \in (UNION (T \cup {{c}})) \ KeydrisHandler
      PROVE  h \in (UNION T) \ KeydrisHandler
  <2>1. PICK g \in T \cup {{c}} : h \in g
    BY <1>1
  <2>2. g # {c}
    BY <2>1, <1>1
  <2> QED BY <2>1, <2>2, <1>1
<1>2. ASSUME NEW h \in (UNION T) \ KeydrisHandler
      PROVE  h \in (UNION (T \cup {{c}})) \ KeydrisHandler
  BY <1>2
<1> QED BY <1>1, <1>2

\* The three wired events, one by one.
LEMMA ConfiguredHooks ==
  ASSUME NEW H \in Hooks, NEW o \in Options
  PROVE  LET N == MergePreToolUseHook(MergeHooks(H, o.start, o.end), o.pre) IN
         /\ N \in Hooks
         /\ N["SessionStart"] = StripKeydrisHandlers(H["SessionStart"]) \cup {{o.start}}
         /\ N["SessionEnd"] = StripKeydrisHandlers(H["SessionEnd"]) \cup {{o.end}}
         /\ N["PreToolUse"] = StripKeydrisHandlers(H["PreToolUse"]) \cup {{o.pre}}
         /\ N["PermissionRequest"] = H["PermissionRequest"]
         /\ N["Other"] = H["Other"]
<1> DEFINE N == MergePreToolUseHook(MergeHooks(H, o.start, o.end), o.pre)
<1>1. \A e \in Event : StripKeydrisHandlers(H[e]) \in SUBSET SUBSET Handler
  BY StripFacts DEF Hooks
<1>2. {{o.start}, {o.end}, {o.pre}} \subseteq SUBSET Handler
  BY DEF Options
<1>3. \A e \in Event : H[e] \in SUBSET SUBSET Handler
  BY DEF Hooks
<1> HIDE HarnessAssumption
<1>4. N = [e \in Event |->
            IF e = "PreToolUse" THEN StripKeydrisHandlers(H[e]) \cup {{o.pre}}
            ELSE IF e = "SessionEnd" THEN StripKeydrisHandlers(H[e]) \cup {{o.end}}
            ELSE IF e = "SessionStart" THEN StripKeydrisHandlers(H[e]) \cup {{o.start}}
            ELSE H[e]]
  BY DEF MergePreToolUseHook, MergeHooks, MergeEvent, Hooks, Event
<1>5. {"SessionStart", "SessionEnd", "PreToolUse", "PermissionRequest", "Other"} = Event
  BY DEF Event
<1>6. N \in Hooks
  BY <1>1, <1>2, <1>3, <1>4 DEF Hooks
<1> QED BY <1>4, <1>5, <1>6

-----------------------------------------------------------------------------
(* The user's entries. *)

\* init: whatever the file holds, the user's own hooks, domains, variables and
\* other settings are in it afterwards as they were before.
THEOREM ConfigureKeepsUser ==
  ASSUME NEW s \in Settings, NEW o \in Options
  PROVE  UserPart(Configure(s, o), o) = UserPart(s, o)
<1> DEFINE n == Configure(s, o)
<1>1. n.hooks = MergePreToolUseHook(MergeHooks(s.hooks, o.start, o.end), o.pre)
      /\ n.env = MergeCAEnv(s.env, o.ca) /\ n.sandbox = MergeSandbox(s.sandbox, o)
  BY DEF Configure
<1>2. s.hooks \in Hooks /\ s.env \in Env /\ s.sandbox \in Sandbox
  BY DEF Settings
<1> HIDE DEF n
<1>3. UserHandlers(n) = UserHandlers(s)
  <2> DEFINE M == MergePreToolUseHook(MergeHooks(s.hooks, o.start, o.end), o.pre)
  <2>0. /\ M["SessionStart"] = StripKeydrisHandlers(s.hooks["SessionStart"]) \cup {{o.start}}
        /\ M["SessionEnd"] = StripKeydrisHandlers(s.hooks["SessionEnd"]) \cup {{o.end}}
        /\ M["PreToolUse"] = StripKeydrisHandlers(s.hooks["PreToolUse"]) \cup {{o.pre}}
        /\ M["PermissionRequest"] = s.hooks["PermissionRequest"]
        /\ M["Other"] = s.hooks["Other"]
    <3>1. s.hooks \in Hooks
      BY <1>2
    <3> QED BY <3>1, ConfiguredHooks
  <2>2. n.hooks = M
    BY <1>1
  <2> HIDE DEF M
  <2>1. ASSUME NEW e \in Event
        PROVE  (UNION n.hooks[e]) \ KeydrisHandler = (UNION s.hooks[e]) \ KeydrisHandler
    <3>1. s.hooks[e] \in SUBSET SUBSET Handler
      BY <1>2 DEF Hooks
    <3>2. (UNION StripKeydrisHandlers(s.hooks[e])) \ KeydrisHandler
            = (UNION s.hooks[e]) \ KeydrisHandler
      BY <3>1, StripFacts
    <3>3. {o.start, o.end, o.pre} \subseteq KeydrisHandler
      BY DEF Options
    <3>4. \/ n.hooks[e] = s.hooks[e]
          \/ \E c \in {o.start, o.end, o.pre} :
                n.hooks[e] = StripKeydrisHandlers(s.hooks[e]) \cup {{c}}
      BY <2>0, <2>2 DEF Event
    <3> QED BY <3>2, <3>3, <3>4, WiredIsKeydris
  <2> QED BY <2>1 DEF UserHandlers
<1>4. UserDomains(n, o) = UserDomains(s, o)
  <2>1. n.sandbox.legacyDomains = None
        /\ n.sandbox.allowedDomains = MergeDomains(s.sandbox, o.domains)
    BY <1>1, <1>2 DEF MergeSandbox, Sandbox
  <2>2. s.sandbox.allowedDomains \in Domains /\ s.sandbox.legacyDomains \in Domains
        /\ o.domains \in SUBSET Domain
    BY <1>2 DEF Sandbox, Options
  <2>3. None \notin SUBSET Domain
    OBVIOUS
  <2>4. NamesIn(MergeDomains(s.sandbox, o.domains)) \ o.domains
          = (NamesIn(s.sandbox.allowedDomains) \cup NamesIn(s.sandbox.legacyDomains)) \ o.domains
    BY <2>2, <2>3, Zenon DEF MergeDomains, MergeStringSet, NamesIn, Domains
  <2> QED BY <2>1, <2>4 DEF UserDomains, NamesIn
<1>5. UserEnv(n) = UserEnv(s)
  BY <1>1, <1>2 DEF UserEnv, MergeCAEnv, Env
<1>6. n.sandbox.other = s.sandbox.other
  BY <1>1, <1>2 DEF MergeSandbox, Sandbox
<1> QED BY <1>3, <1>4, <1>5, <1>6 DEF UserPart, n

\* deinit and reset: what the user has, the user keeps.
THEOREM DeconfigureKeepsUser ==
  ASSUME NEW s \in Settings, NEW o \in Options
  PROVE  UserPart(Deconfigure(s, o), o) = UserPart(s, o)
<1> DEFINE n == Deconfigure(s, o)
<1>1. n.hooks = UnmergeKeydrisHooks(s.hooks) /\ n.env = UnmergeCAEnv(s.env, o.ca)
      /\ n.sandbox = UnmergeSandbox(s.sandbox, o)
  BY DEF Deconfigure
<1>2. s.hooks \in Hooks /\ s.env \in Env /\ s.sandbox \in Sandbox
  BY DEF Settings
<1> HIDE DEF n
<1>3. UserHandlers(n) = UserHandlers(s)
  <2>1. ASSUME NEW e \in Event
        PROVE  (UNION n.hooks[e]) \ KeydrisHandler = (UNION s.hooks[e]) \ KeydrisHandler
    <3>1. s.hooks[e] \in SUBSET SUBSET Handler
      BY <1>2 DEF Hooks
    <3>2. n.hooks[e] \in {s.hooks[e], StripKeydrisHandlers(s.hooks[e])}
      BY <1>1 DEF UnmergeKeydrisHooks, StripEvents
    <3> QED BY <3>1, <3>2, StripFacts
  <2> QED BY <2>1 DEF UserHandlers
<1>4. UserDomains(n, o) = UserDomains(s, o) /\ n.sandbox.other = s.sandbox.other
  <2> DEFINE cut == StripSandbox(s.sandbox, o)
  <2>1. n.sandbox = IF OnlyDisabled(cut) THEN NoSandbox ELSE cut
    BY <1>1 DEF UnmergeSandbox
  <2>2. /\ cut.allowedDomains = RemoveStrings(s.sandbox.allowedDomains, o.domains)
        /\ cut.legacyDomains = RemoveStrings(s.sandbox.legacyDomains, o.domains)
        /\ cut.other = s.sandbox.other
    BY DEF StripSandbox
  <2> HIDE DEF cut
  <2>3. /\ n.sandbox.allowedDomains = cut.allowedDomains
        /\ n.sandbox.legacyDomains = cut.legacyDomains
        /\ n.sandbox.other = cut.other
    BY <2>1 DEF OnlyDisabled, NoSandbox
  <2>4. ASSUME NEW D \in Domains
        PROVE  NamesIn(RemoveStrings(D, o.domains)) \ o.domains = NamesIn(D) \ o.domains
    <3>1. None \notin SUBSET Domain
      OBVIOUS
    <3> QED BY <3>1, Zenon DEF RemoveStrings, NamesIn, Domains
  <2>5. s.sandbox.allowedDomains \in Domains /\ s.sandbox.legacyDomains \in Domains
    BY <1>2 DEF Sandbox
  <2> QED BY <2>2, <2>3, <2>4, <2>5, Zenon DEF UserDomains
<1>5. UserEnv(n) = UserEnv(s)
  BY <1>1 DEF UserEnv, UnmergeCAEnv
<1> QED BY <1>3, <1>4, <1>5 DEF UserPart, n

-----------------------------------------------------------------------------
(* What each edit achieves. *)

\* init ends with a check of the file it wrote: nobody else touching it, the
\* check succeeds on every file a strict init may have found.
THEOREM ConfigureVerifies ==
  ASSUME NEW s \in Settings, NEW o \in Options, o.strict
  PROVE  VerifyOK(Configure(s, o), o)
<1> DEFINE M == MergePreToolUseHook(MergeHooks(s.hooks, o.start, o.end), o.pre)
<1>1. s.hooks \in Hooks /\ s.sandbox \in Sandbox
  BY DEF Settings
<1>2. /\ {o.start} \in M["SessionStart"]
      /\ {o.end} \in M["SessionEnd"]
      /\ {o.pre} \in M["PreToolUse"]
  <2>1. /\ M["SessionStart"] = StripKeydrisHandlers(s.hooks["SessionStart"]) \cup {{o.start}}
        /\ M["SessionEnd"] = StripKeydrisHandlers(s.hooks["SessionEnd"]) \cup {{o.end}}
        /\ M["PreToolUse"] = StripKeydrisHandlers(s.hooks["PreToolUse"]) \cup {{o.pre}}
    BY <1>1, ConfiguredHooks
  <2> HIDE DEF M
  <2> QED BY <2>1
<1>3. Configure(s, o).hooks = M /\ Configure(s, o).sandbox = MergeSandbox(s.sandbox, o)
  BY DEF Configure
<1> HIDE DEF M
<1>4. /\ MergeSandbox(s.sandbox, o).enabled = "true"
      /\ MergeSandbox(s.sandbox, o).httpProxyPort = o.port
      /\ MergeSandbox(s.sandbox, o).failIfUnavailable = "true"
      /\ MergeSandbox(s.sandbox, o).allowUnsandboxedCommands = "false"
  BY <1>1 DEF MergeSandbox, Sandbox
<1> QED BY <1>2, <1>3, <1>4 DEF VerifyOK, EventHasCommand

\* deinit and reset leave nothing an agent would run or a tool would trust, on
\* whatever file: damaged by hand, written by an earlier release, or twice.
THEOREM DeconfigureUntraced ==
  ASSUME NEW s \in Settings, NEW o \in Options
  PROVE  Untraced(Deconfigure(s, o), o)
<1> DEFINE n == Deconfigure(s, o)
<1>1. n.hooks = UnmergeKeydrisHooks(s.hooks) /\ n.env = UnmergeCAEnv(s.env, o.ca)
      /\ n.sandbox = UnmergeSandbox(s.sandbox, o)
  BY DEF Deconfigure
<1>2. s.hooks \in Hooks /\ s.env \in Env /\ s.sandbox \in Sandbox
      /\ o.port \in Port /\ o.ca \in Path
  BY DEF Settings, Options
<1> HIDE DEF n
<1>3. \A e \in {"SessionStart", "SessionEnd", "PreToolUse"} :
        \A g \in n.hooks[e] : g \cap KeydrisHandler = {}
  <2>1. \A e \in Event : s.hooks[e] \in SUBSET SUBSET Handler
    BY <1>2 DEF Hooks
  <2>2. \A e \in {"SessionStart", "SessionEnd", "PreToolUse"} :
          e \in Event /\ n.hooks[e] = StripKeydrisHandlers(s.hooks[e])
    BY <1>1 DEF UnmergeKeydrisHooks, StripEvents, Event
  <2> QED BY <2>1, <2>2, StripFacts
<1>4. \A k \in CAEnvKeys : n.env[k] # o.ca
  BY <1>1, <1>2 DEF UnmergeCAEnv
<1>5. n.sandbox.enabled # "true" /\ n.sandbox.httpProxyPort # o.port
  <2> DEFINE cut == StripSandbox(s.sandbox, o)
  <2>1. n.sandbox = IF OnlyDisabled(cut) THEN NoSandbox ELSE cut
    BY <1>1 DEF UnmergeSandbox
  <2>2. None # "true" /\ None # o.port
    BY <1>2
  <2>3. cut.enabled # "true" /\ cut.httpProxyPort # o.port
    BY <2>2 DEF StripSandbox
  <2> HIDE DEF cut
  <2> QED BY <2>1, <2>2, <2>3 DEF NoSandbox
<1> QED BY <1>3, <1>4, <1>5 DEF Untraced, n

\* On a file in which the user has set nothing that Configure overwrites,
\* deinit gives back exactly what init found.
THEOREM RoundTrip ==
  ASSUME NEW s \in Settings, NEW o \in Options, Ordinary(s, o)
  PROVE  Deconfigure(Configure(s, o), o) = s
<1> DEFINE c == Configure(s, o)
           M == MergePreToolUseHook(MergeHooks(s.hooks, o.start, o.end), o.pre)
<1>1. s.hooks \in Hooks /\ s.env \in Env /\ s.sandbox \in Sandbox
      /\ o.ca \in Path /\ o.port \in Port /\ o.domains \in SUBSET Domain
      /\ o.start \in KeydrisHandler /\ o.end \in KeydrisHandler /\ o.pre \in KeydrisHandler
  BY DEF Settings, Options
<1>2. s = [sandbox |-> s.sandbox, hooks |-> s.hooks, env |-> s.env]
  BY DEF Settings
<1>3. UnmergeKeydrisHooks(M) = s.hooks
  <2>1. \A e \in Event : s.hooks[e] \in SUBSET SUBSET Handler
                        /\ \A g \in s.hooks[e] : g \cap KeydrisHandler = {}
    BY <1>1 DEF Hooks, Ordinary
  <2>2. /\ M["SessionStart"] = StripKeydrisHandlers(s.hooks["SessionStart"]) \cup {{o.start}}
        /\ M["SessionEnd"] = StripKeydrisHandlers(s.hooks["SessionEnd"]) \cup {{o.end}}
        /\ M["PreToolUse"] = StripKeydrisHandlers(s.hooks["PreToolUse"]) \cup {{o.pre}}
        /\ M["PermissionRequest"] = s.hooks["PermissionRequest"]
        /\ M["Other"] = s.hooks["Other"]
    BY <1>1, ConfiguredHooks
  <2> HIDE DEF M
  <2>3. /\ StripKeydrisHandlers(M["SessionStart"]) = s.hooks["SessionStart"]
        /\ StripKeydrisHandlers(M["SessionEnd"]) = s.hooks["SessionEnd"]
        /\ StripKeydrisHandlers(M["PreToolUse"]) = s.hooks["PreToolUse"]
    <3>1. {"SessionStart", "SessionEnd", "PreToolUse"} \subseteq Event
      BY DEF Event
    <3>2. ASSUME NEW e \in Event, NEW k \in KeydrisHandler,
                 M[e] = StripKeydrisHandlers(s.hooks[e]) \cup {{k}}
          PROVE  StripKeydrisHandlers(M[e]) = s.hooks[e]
      <4>1. /\ s.hooks[e] \in SUBSET SUBSET Handler
            /\ \A g \in s.hooks[e] : g \cap KeydrisHandler = {}
        BY <2>1
      <4>2. /\ StripKeydrisHandlers(s.hooks[e]) = s.hooks[e]
            /\ StripKeydrisHandlers(s.hooks[e] \cup {{k}}) = s.hooks[e]
        BY <4>1, StripMerged
      <4> QED BY <3>2, <4>2
    <3> QED BY <1>1, <2>2, <3>1, <3>2
  <2>4. \A e \in Event : UnmergeKeydrisHooks(M)[e] = s.hooks[e]
    BY <2>2, <2>3 DEF UnmergeKeydrisHooks, StripEvents, Event
  <2>5. DOMAIN UnmergeKeydrisHooks(M) = Event /\ DOMAIN s.hooks = Event
    BY <1>1 DEF UnmergeKeydrisHooks, StripEvents, Hooks
  <2>6. UnmergeKeydrisHooks(M) = [e \in Event |-> UnmergeKeydrisHooks(M)[e]]
    BY DEF UnmergeKeydrisHooks, StripEvents
  <2>7. s.hooks = [e \in Event |-> s.hooks[e]]
    BY <1>1 DEF Hooks
  <2> QED BY <2>4, <2>6, <2>7
<1>4. UnmergeCAEnv(MergeCAEnv(s.env, o.ca), o.ca) = s.env
  BY <1>1 DEF UnmergeCAEnv, MergeCAEnv, Env, Ordinary
<1>5. UnmergeSandbox(MergeSandbox(s.sandbox, o), o) = s.sandbox
  <2> DEFINE old == s.sandbox
             new == MergeSandbox(old, o)
  <2>1. old.allowedDomains \in Domains /\ old.legacyDomains = None
        /\ NamesIn(old.allowedDomains) \cap o.domains = {} /\ old.allowedDomains # {}
    BY <1>1 DEF Sandbox, Ordinary
  <2>2. RemoveStrings(MergeDomains(old, o.domains), o.domains) = old.allowedDomains
    <3>1. None \notin SUBSET Domain
      OBVIOUS
    <3>2. CASE old.allowedDomains = None
      BY <1>1, <2>1, <3>1, <3>2 DEF MergeDomains, MergeStringSet, RemoveStrings
    <3>3. CASE old.allowedDomains # None
      <4>1. old.allowedDomains \cap o.domains = {} /\ old.allowedDomains # {}
            /\ old.allowedDomains \in SUBSET Domain
        BY <2>1, <3>3 DEF NamesIn, Domains
      <4>2. CASE o.domains = {}
        BY <2>1, <3>3, <4>1, <4>2 DEF MergeDomains, RemoveStrings
      <4>3. CASE o.domains # {}
        <5>1. MergeDomains(old, o.domains) = old.allowedDomains \cup o.domains
          BY <2>1, <3>3, <4>3 DEF MergeDomains, MergeStringSet
        <5>2. (old.allowedDomains \cup o.domains) # None
          BY <1>1, <3>1, <4>1
        <5>3. (old.allowedDomains \cup o.domains) \ o.domains = old.allowedDomains
          BY <4>1
        <5>4. ~(old.allowedDomains \cup o.domains \subseteq o.domains)
          BY <4>1
        <5>5. (old.allowedDomains \cup o.domains) \cap o.domains # {}
          BY <4>3
        <5> QED BY <5>1, <5>2, <5>3, <5>4, <5>5 DEF RemoveStrings
      <4> QED BY <4>2, <4>3
    <3> QED BY <3>2, <3>3
  <2>3. /\ new.enabled = "true" /\ new.httpProxyPort = o.port
        /\ new.allowedDomains = MergeDomains(old, o.domains)
        /\ new.legacyDomains = None /\ new.other = old.other
    BY DEF MergeSandbox
  <2> DEFINE cut == StripSandbox(new, o)
  <2>4. UnmergeSandbox(new, o) = IF OnlyDisabled(cut) THEN NoSandbox ELSE cut
    BY DEF UnmergeSandbox
  <2>5. RemoveStrings(None, o.domains) = None
    BY DEF RemoveStrings
  <2>6. cut = [enabled |-> "false", failIfUnavailable |-> None,
               allowUnsandboxedCommands |-> None, enableWeakerNetworkIsolation |-> None,
               httpProxyPort |-> None, allowedDomains |-> old.allowedDomains,
               legacyDomains |-> None, other |-> old.other]
    <3> HIDE DEF new
    <3> QED BY <2>2, <2>3, <2>5 DEF StripSandbox
  <2>7. old = [enabled |-> old.enabled, failIfUnavailable |-> None,
               allowUnsandboxedCommands |-> None, enableWeakerNetworkIsolation |-> None,
               httpProxyPort |-> None, allowedDomains |-> old.allowedDomains,
               legacyDomains |-> None, other |-> old.other]
    BY <1>1 DEF Sandbox, Ordinary
  <2> HIDE DEF cut, new, old
  <2>8. CASE old = NoSandbox
    <3>1. old.allowedDomains = None /\ old.other = None
      BY <2>8 DEF NoSandbox
    <3>2. cut = [NoSandbox EXCEPT !.enabled = "false"]
      BY <2>6, <3>1 DEF NoSandbox
    <3> QED BY <2>4, <2>8, <3>2 DEF OnlyDisabled, old, new
  <2>9. CASE old.enabled = "false" /\ ~OnlyDisabled(old)
    <3>1. cut = old
      BY <2>6, <2>7, <2>9
    <3> QED BY <2>4, <2>9, <3>1 DEF old, new
  <2> QED BY <2>8, <2>9 DEF Ordinary, old
<1>6. Deconfigure(c, o) = [sandbox |-> UnmergeSandbox(MergeSandbox(s.sandbox, o), o),
                           hooks |-> UnmergeKeydrisHooks(M),
                           env |-> UnmergeCAEnv(MergeCAEnv(s.env, o.ca), o.ca)]
  BY DEF Deconfigure, Configure
<1> QED BY <1>2, <1>3, <1>4, <1>5, <1>6

-----------------------------------------------------------------------------
(* MCP servers. *)

\* A server whose name the policies never used is left alone by every edit, and
\* the servers Keydris wrote are gone after a removal, whatever policies there
\* were before the last one.
THEOREM ManagedServersComeAndGo ==
  ASSUME NEW config \in McpConfig, NEW policy \in [Server -> Url \cup {None}],
         NEW names \in SUBSET Server, Governed(policy) \subseteq names,
         config.managed \subseteq names
  PROVE  LET new == ConfigureMcpServers(config, policy)
             old == RemoveManagedMcpServers(new)
         IN  /\ UserServers(new, names) = UserServers(config, names)
             /\ UserServers(old, names) = UserServers(config, names)
             /\ \A n \in config.managed \cup Governed(policy) : old.servers[n] = None
             /\ old.managed = {}
  BY DEF ConfigureMcpServers, RemoveManagedMcpServers, UserServers, McpConfig, Governed

-----------------------------------------------------------------------------
(* What an edit leaves can be edited again. *)

LEMMA ConfigureTyped ==
  ASSUME NEW s \in Settings, NEW o \in Options
  PROVE  Configure(s, o) \in Settings
<1>1. s.hooks \in Hooks /\ s.env \in Env /\ s.sandbox \in Sandbox
  BY DEF Settings
<1>2. MergePreToolUseHook(MergeHooks(s.hooks, o.start, o.end), o.pre) \in Hooks
  BY <1>1, ConfiguredHooks
<1>3. MergeCAEnv(s.env, o.ca) \in Env
  BY <1>1 DEF MergeCAEnv, Env, Options
<1>4. MergeSandbox(s.sandbox, o) \in Sandbox
  <2>1. MergeDomains(s.sandbox, o.domains) \in Domains
    BY <1>1 DEF MergeDomains, MergeStringSet, Sandbox, Domains, Options
  <2>2. QED
    BY <1>1, <2>1 DEF MergeSandbox, Sandbox, Switch, Domains, Options
<1>5. QED
  BY <1>2, <1>3, <1>4 DEF Configure, Settings

LEMMA DeconfigureTyped ==
  ASSUME NEW s \in Settings, NEW o \in Options
  PROVE  Deconfigure(s, o) \in Settings
<1>1. s.hooks \in Hooks /\ s.env \in Env /\ s.sandbox \in Sandbox
  BY DEF Settings
<1>2. UnmergeKeydrisHooks(s.hooks) \in Hooks
  <2>1. \A e \in Event : StripKeydrisHandlers(s.hooks[e]) \in SUBSET SUBSET Handler
    BY <1>1, StripFacts DEF Hooks
  <2>2. QED
    BY <1>1, <2>1 DEF UnmergeKeydrisHooks, StripEvents, Hooks
<1>3. UnmergeCAEnv(s.env, o.ca) \in Env
  BY <1>1 DEF UnmergeCAEnv, Env
<1>4. UnmergeSandbox(s.sandbox, o) \in Sandbox
  <2>1. /\ RemoveStrings(s.sandbox.allowedDomains, o.domains) \in Domains
        /\ RemoveStrings(s.sandbox.legacyDomains, o.domains) \in Domains
    BY <1>1 DEF RemoveStrings, Sandbox, Domains
  <2>2. StripSandbox(s.sandbox, o) \in Sandbox
    BY <1>1, <2>1 DEF StripSandbox, Sandbox, Switch
  <2>3. NoSandbox \in Sandbox
    BY DEF NoSandbox, Sandbox, Switch, Domains
  <2>4. QED
    BY <2>2, <2>3 DEF UnmergeSandbox
<1>5. QED
  BY <1>2, <1>3, <1>4 DEF Deconfigure, Settings

\* Codex's hooks keep a handler of Keydris only where no release wrote one.
LEMMA CodexHooksStripped ==
  ASSUME NEW H \in Hooks, \A g \in H["SessionEnd"] : g \cap KeydrisHandler = {}
  PROVE  /\ DeconfigureCodexHooks(H) \in Hooks
         /\ ~HasKeydrisHooks(DeconfigureCodexHooks(H))
         /\ DeconfigureCodexHooks(H)["SessionEnd"] = H["SessionEnd"]
<1> DEFINE N == DeconfigureCodexHooks(H)
<1>1. \A e \in Event : /\ StripKeydrisHandlers(H[e]) \in SUBSET SUBSET Handler
                       /\ \A g \in StripKeydrisHandlers(H[e]) : g \cap KeydrisHandler = {}
  BY StripFacts DEF Hooks
<1>2. N = [e \in Event |-> IF e \in {"PreToolUse", "PermissionRequest", "SessionStart"}
                           THEN StripKeydrisHandlers(H[e]) ELSE H[e]]
  BY DEF DeconfigureCodexHooks, StripEvents
<1>3. N \in Hooks
  BY <1>1, <1>2 DEF Hooks
<1>4. N["SessionEnd"] = H["SessionEnd"]
  BY <1>2 DEF Event
<1>5. ASSUME NEW e \in Event \ {"Other"}, NEW g \in N[e]
      PROVE  g \cap KeydrisHandler = {}
  BY <1>1, <1>2, <1>5 DEF Event
<1>6. QED
  BY <1>3, <1>4, <1>5 DEF HasKeydrisHooks

\* Claude Code's settings, likewise.
LEMMA ClaudeHooksStripped ==
  ASSUME NEW s \in Settings, NEW o \in Options,
         \A g \in s.hooks["PermissionRequest"] : g \cap KeydrisHandler = {}
  PROVE  /\ ~HasKeydrisHooks(Deconfigure(s, o).hooks)
         /\ Deconfigure(s, o).hooks["PermissionRequest"] = s.hooks["PermissionRequest"]
<1> DEFINE N == Deconfigure(s, o).hooks
<1>0. s.hooks \in Hooks
  BY DEF Settings
<1>1. \A e \in Event : \A g \in StripKeydrisHandlers(s.hooks[e]) : g \cap KeydrisHandler = {}
  BY <1>0, StripFacts DEF Hooks
<1>2. N = [e \in Event |-> IF e \in {"SessionStart", "SessionEnd", "PreToolUse"}
                           THEN StripKeydrisHandlers(s.hooks[e]) ELSE s.hooks[e]]
  BY DEF Deconfigure, UnmergeKeydrisHooks, StripEvents
<1>3. N["PermissionRequest"] = s.hooks["PermissionRequest"]
  BY <1>2 DEF Event
<1>4. ASSUME NEW e \in Event \ {"Other"}, NEW g \in N[e]
      PROVE  g \cap KeydrisHandler = {}
  BY <1>1, <1>2, <1>4 DEF Event
<1>5. QED
  BY <1>3, <1>4 DEF HasKeydrisHooks

\* A server of the user that no policy names is not touched.
LEMMA OtherServersStay ==
  ASSUME NEW config \in McpConfig, NEW policy \in [Server -> Url \cup {None}],
         NEW n \in Server, policy[n] = None, n \notin config.managed
  PROVE  \A new \in {ConfigureMcpServers(config, policy), ConfigureCodexMcpServers(config, policy),
                     RemoveManagedMcpServers(config), RemoveManagedCodexMcpServers(config)} :
           new.servers[n] = config.servers[n] /\ n \notin new.managed
<1> HIDE HarnessAssumption
<1>1. ConfigureMcpServers(config, policy).servers[n] = config.servers[n]
      /\ n \notin ConfigureMcpServers(config, policy).managed
  BY DEF ConfigureMcpServers, McpConfig, Governed
<1>2. ConfigureCodexMcpServers(config, policy).servers[n] = config.servers[n]
      /\ n \notin ConfigureCodexMcpServers(config, policy).managed
  BY DEF ConfigureCodexMcpServers, ConfigureMcpServers, McpConfig, Governed
<1>3. RemoveManagedMcpServers(config).servers[n] = config.servers[n]
      /\ n \notin RemoveManagedMcpServers(config).managed
  BY DEF RemoveManagedMcpServers, McpConfig
<1>4. QED
  BY <1>1, <1>2, <1>3 DEF RemoveManagedCodexMcpServers

LEMMA McpTyped ==
  ASSUME NEW config \in McpConfig, NEW policy \in [Server -> Url \cup {None}]
  PROVE  {ConfigureMcpServers(config, policy), ConfigureCodexMcpServers(config, policy),
          RemoveManagedMcpServers(config), RemoveManagedCodexMcpServers(config)} \subseteq McpConfig
<1> HIDE HarnessAssumption
<1>1. ConfigureMcpServers(config, policy) \in McpConfig
  BY DEF ConfigureMcpServers, McpConfig, Governed
<1>2. ConfigureCodexMcpServers(config, policy) \in McpConfig
  BY <1>1 DEF ConfigureCodexMcpServers, McpConfig
<1>3. RemoveManagedMcpServers(config) \in McpConfig
  BY DEF RemoveManagedMcpServers, McpConfig
<1>4. QED
  BY <1>1, <1>2, <1>3 DEF RemoveManagedCodexMcpServers

-----------------------------------------------------------------------------
(* The launcher of Claude Desktop. *)

Proxied(settings) == settings # None /\ settings.proxied
Clean(found) == ~found.pin /\ ~Proxied(found.desktop)

Changing == {"session", "apply", "pin", "record"}
OnRecord == {"app", "wait", "restore", "unpin", "forget"}

DesktopType ==
  /\ desktop \in {None} \cup DesktopSettings
  /\ pin \in BOOLEAN /\ leaked \in BOOLEAN
  /\ record \in {None, Torn} \cup Found
  /\ previous \in {None} \cup Found
  /\ lpc \in {"idle"} \cup Changing \cup OnRecord
  /\ lpc \in OnRecord \cup {"pin", "record"} => previous \in Found

\* What is on record is clean.
RecordClean == Whole(record) => Clean(record)

\* Until it writes its record a launcher is alone with what it found.
ChangesKnown ==
  /\ lpc \in Changing => record = None
  /\ lpc \in {"pin", "record"} => Clean(previous)
  /\ lpc \in {"session", "apply", "pin"} => ~pin
  /\ lpc \in {"session", "apply"} => ~Proxied(desktop)

\* From then on the record says it.
ChangesRecorded == lpc \in OnRecord => record = previous

\* What has been restored stays so.
Restored ==
  /\ lpc \in {"unpin", "forget"} => ~Proxied(desktop)
  /\ lpc = "forget" => ~pin
  /\ lpc = "idle" /\ ~Whole(record) => ~pin /\ ~Proxied(desktop)

LauncherInv ==
  /\ DesktopType
  /\ leaked \/ (RecordClean /\ ChangesKnown /\ ChangesRecorded /\ Restored)

launcherState == <<lpc, previous, desktopVars>>

USE DEF Changing, OnRecord, procVars, launchVars, sessionVars, credVars, daemonVars

\* A machine without Keydris has nothing to restore.
LEMMA LauncherInit == Init => LauncherInv
  BY InstallationAssumption
  DEF Init, LauncherInv, DesktopType, RecordClean, ChangesKnown, ChangesRecorded,
      Restored, Whole, Proxied

\* A step that leaves the launcher's state alone leaves its invariant.
LEMMA LauncherFrame ==
  ASSUME LauncherInv, UNCHANGED launcherState
  PROVE  LauncherInv'
  BY DEF launcherState, desktopVars, LauncherInv, DesktopType, RecordClean, ChangesKnown,
         ChangesRecorded, Restored, Whole, Proxied, Clean

\* What a restore leaves of the settings, though it fails, is not more than there was.
LEMMA RestoresKeep ==
  ASSUME DesktopType, NEW was \in {None} \cup DesktopSettings,
         desktop' \in Rewritten(was)
  PROVE  /\ desktop' \in {None} \cup DesktopSettings
         /\ Proxied(desktop') => Proxied(desktop) \/ Proxied(was)
         /\ desktop' \in {was, NoDesktop} => (Proxied(desktop') => Proxied(was))
<1>1. NoDesktop \in DesktopSettings /\ ~Proxied(NoDesktop)
  BY DEF NoDesktop, DesktopSettings, Proxied
<1>2. desktop' \in {desktop, was, NoDesktop}
  BY DEF Rewritten
<1>3. QED
  BY <1>1, <1>2 DEF DesktopType, Proxied

\* claude_desktop.go, sweep: whichever command comes first after a launcher is
\* gone puts back what its record says, or keeps the record.
LEMMA SweepKeeps ==
  ASSUME LauncherInv, SweepDesktopLaunch, UNCHANGED <<lpc, previous>>
  PROVE  LauncherInv'
<1>1. CASE LeftBehind
  <2>1. lpc = "idle" /\ Whole(record) /\ record \in Found
    BY <1>1 DEF LeftBehind, LauncherInv, DesktopType, Whole
  <2>2. /\ record.desktop \in {None} \cup DesktopSettings /\ record.pin \in BOOLEAN
        /\ leaked \/ Clean(record)
    BY <2>1 DEF LauncherInv, RecordClean, Found
  <2>3. CASE FinishDesktopLaunch
    <3>1. /\ desktop' = record.desktop /\ pin' = record.pin /\ record' = None
          /\ leaked' = leaked
      BY <2>3 DEF FinishDesktopLaunch
    <3>2. DesktopType'
      BY <2>1, <2>2, <3>1 DEF LauncherInv, DesktopType
    <3>3. QED
      BY <2>1, <2>2, <3>1, <3>2 DEF LauncherInv, RecordClean, ChangesKnown, ChangesRecorded,
         Restored, Whole, Clean, Proxied
  <2>4. CASE FinishFails
    <3>1. /\ desktop' \in Rewritten(record.desktop) /\ pin' \in {pin, record.pin}
          /\ record' = record /\ leaked' = leaked
      BY <2>4 DEF FinishFails
    <3>2. desktop' \in {None} \cup DesktopSettings
      BY <2>2, <3>1, RestoresKeep DEF LauncherInv
    <3>3. DesktopType'
      BY <2>2, <3>1, <3>2 DEF LauncherInv, DesktopType
    <3>4. QED
      BY <2>1, <3>1, <3>3 DEF LauncherInv, RecordClean, ChangesKnown, ChangesRecorded,
         Restored, Whole, Clean
  <2>5. QED
    BY <1>1, <2>3, <2>4 DEF SweepDesktopLaunch
<1>2. CASE ~LeftBehind
  BY <1>2, LauncherFrame DEF SweepDesktopLaunch, launcherState
<1>3. QED
  BY <1>1, <1>2

\* A command may write the settings as long as it does not send the app to the
\* proxy when it was not.
LEMMA SettingsKeep ==
  ASSUME LauncherInv,
         desktop' \in {None} \cup DesktopSettings,
         Proxied(desktop') => Proxied(desktop),
         UNCHANGED <<lpc, previous, pin, record, leaked>>
  PROVE  LauncherInv'
  BY DEF LauncherInv, DesktopType, RecordClean, ChangesKnown, ChangesRecorded, Restored,
         Whole, Proxied, Clean

-----------------------------------------------------------------------------
(* Setup commands and the launcher. *)

LEMMA InitStepsKeepLauncher == LauncherInv /\ InitSteps => LauncherInv'
<1> SUFFICES ASSUME LauncherInv, InitSteps PROVE LauncherInv'
  OBVIOUS
<1> USE LauncherFrame DEF launcherState
<1>1. ASSUME NEW t \in Integrations, InitBegin(t) PROVE LauncherInv'
  BY <1>1, SweepKeeps DEF InitBegin
<1>2. CASE InitIdentity
  BY <1>2 DEF InitIdentity
<1>3. CASE LoadOrCreateCA
  BY <1>3 DEF LoadOrCreateCA
<1>4. CASE InitCACert \/ InitCAKey
  BY <1>4 DEF InitCACert, InitCAKey
<1>5. CASE InitBundle
  BY <1>5 DEF InitBundle
<1>6. CASE InitConfigure
  <2>1. CASE target = "claude-desktop"
    <3>1. desktop' = [hooks |-> TRUE, proxied |-> Proxied(desktop)]
      BY <1>6, <2>1 DEF InitConfigure, ConfigureClaudeDesktop, Proxied
    <3>2. Proxied(desktop) \in BOOLEAN
      BY DEF LauncherInv, DesktopType, DesktopSettings, Proxied
    <3>3. desktop' \in DesktopSettings /\ (Proxied(desktop') => Proxied(desktop))
      BY <3>1, <3>2 DEF DesktopSettings, Proxied
    <3>4. QED
      BY <1>6, <3>3, SettingsKeep DEF InitConfigure
  <2>2. CASE target # "claude-desktop"
    BY <1>6, <2>2 DEF InitConfigure, desktopVars
  <2>3. QED
    BY <2>1, <2>2
<1>7. CASE InitTrust
  BY <1>7 DEF InitTrust
<1>8. CASE InitVerify
  BY <1>8 DEF InitVerify
<1>9. CASE InitFails
  BY <1>9 DEF InitFails, Stop
<1>10. QED
  BY <1>1, <1>2, <1>3, <1>4, <1>5, <1>6, <1>7, <1>8, <1>9 DEF InitSteps

LEMMA DeinitStepsKeepLauncher == LauncherInv /\ DeinitSteps => LauncherInv'
<1> SUFFICES ASSUME LauncherInv, DeinitSteps PROVE LauncherInv'
  OBVIOUS
<1> USE LauncherFrame DEF launcherState
<1>1. ASSUME NEW t \in Integrations, DeinitBegin(t) PROVE LauncherInv'
  BY <1>1, SweepKeeps DEF DeinitBegin
<1>2. CASE DeinitRemove
  <2>1. CASE target # "claude-desktop"
    BY <1>2, <2>1 DEF DeinitRemove, desktopVars
  <2>2. CASE target = "claude-desktop" /\ record = None
    <3>1. desktop' = None /\ UNCHANGED <<lpc, previous, pin, record, leaked>>
      BY <1>2, <2>2 DEF DeinitRemove
    <3>2. QED
      BY <3>1, SettingsKeep DEF Proxied
  <2>3. CASE target = "claude-desktop" /\ record # None
    <3>1. /\ record # Torn /\ lpc = "idle"
          /\ desktop' = None /\ pin' = record.pin /\ record' = None
          /\ UNCHANGED <<lpc, previous, leaked>>
      BY <1>2, <2>3 DEF DeinitRemove, LaunchRecorded
    <3>2. record \in Found /\ Whole(record)
      BY <2>3, <3>1 DEF LauncherInv, DesktopType, Whole
    <3>3. QED
      BY <3>1, <3>2 DEF LauncherInv, DesktopType, Found, RecordClean, ChangesKnown,
         ChangesRecorded, Restored, Whole, Proxied, Clean
  <2>4. QED
    BY <2>1, <2>2, <2>3
<1>3. CASE DeinitMcp
  BY <1>3 DEF DeinitMcp
<1>4. CASE DeinitShared
  BY <1>4 DEF DeinitShared
<1>5. CASE DeinitFails
  BY <1>5 DEF DeinitFails, Stop
<1>6. QED
  BY <1>1, <1>2, <1>3, <1>4, <1>5 DEF DeinitSteps

\* A reset that deletes the record says so.
LEMMA ResetStepsKeepLauncher == LauncherInv /\ ResetSteps => LauncherInv'
<1> SUFFICES ASSUME LauncherInv, ResetSteps PROVE LauncherInv'
  OBVIOUS
<1> USE LauncherFrame DEF launcherState
<1>1. CASE PlanReset
  BY <1>1, SweepKeeps DEF PlanReset
<1>2. CASE ResetGuard
  BY <1>2 DEF ResetGuard
<1>3. CASE ResetDown
  BY <1>3 DEF ResetDown
<1>4. CASE ResetTrust
  BY <1>4 DEF ResetTrust
<1>5. CASE ResetClaude
  BY <1>5 DEF ResetClaude
<1>6. CASE ResetHooks
  BY <1>6 DEF ResetHooks
<1>7. CASE ResetDelete
  <2>1. PICK f \in Foremost :
          /\ desktop' = Deleted(f, "claude-desktop", desktop)
          /\ record' = Deleted(f, "claude-desktop-launch.json", record)
          /\ leaked' = (leaked \/ f = "claude-desktop-launch.json")
          /\ UNCHANGED <<lpc, previous, pin>>
    BY <1>7 DEF ResetDelete
  <2>2. CASE f = "claude-desktop-launch.json"
    <3>1. desktop' = desktop /\ record' = None /\ leaked'
      BY <2>1, <2>2 DEF Deleted
    <3>2. QED
      BY <2>1, <3>1 DEF LauncherInv, DesktopType
  <2>3. CASE f # "claude-desktop-launch.json"
    <3>1. desktop' \in {None, desktop} /\ UNCHANGED <<record, leaked>>
      BY <2>1, <2>3 DEF Deleted, LauncherInv, DesktopType
    <3>2. QED
      BY <2>1, <3>1, SettingsKeep DEF Proxied, LauncherInv, DesktopType
  <2>4. QED
    BY <2>2, <2>3
<1>8. CASE ResetEnds
  BY <1>8 DEF ResetEnds
<1>9. CASE ResetFails
  BY <1>9 DEF ResetFails
<1>10. QED
  BY <1>1, <1>2, <1>3, <1>4, <1>5, <1>6, <1>7, <1>8, <1>9 DEF ResetSteps

\* The launcher's own steps.
LEMMA LauncherStepsKeepLauncher == LauncherInv /\ LauncherSteps => LauncherInv'
<1> SUFFICES ASSUME LauncherInv, LauncherSteps PROVE LauncherInv'
  OBVIOUS
<1> USE DEF LauncherInv, DesktopType, RecordClean, ChangesKnown, ChangesRecorded, Restored,
            Whole, Proxied, Clean
<1>1. CASE Launch
  <2>1. /\ lpc = "idle" /\ lpc' = "session" /\ previous' = previous /\ record # Torn
        /\ IF LeftBehind THEN FinishDesktopLaunch ELSE UNCHANGED desktopVars
    BY <1>1 DEF Launch
  <2>2. CASE record = None
    BY <2>1, <2>2 DEF LeftBehind, desktopVars
  <2>3. CASE record # None
    <3>1. /\ record \in Found
          /\ desktop' = record.desktop /\ pin' = record.pin /\ record' = None
          /\ leaked' = leaked
      BY <2>1, <2>3 DEF LeftBehind, FinishDesktopLaunch
    <3>2. QED
      BY <2>1, <2>3, <3>1 DEF Found
  <2>4. QED
    BY <2>2, <2>3
<1>2. CASE LaunchSession
  <2>1. /\ lpc = "session" /\ lpc' \in {"apply", "idle"} /\ previous' = previous
        /\ UNCHANGED <<desktop, pin, record, leaked>>
    BY <1>2 DEF LaunchSession, desktopVars
  <2>2. QED
    BY <2>1
<1>3. CASE LaunchApply
  <2>1. lpc = "apply" /\ UNCHANGED <<pin, record, leaked>>
    BY <1>3 DEF LaunchApply
  <2>2. CASE lpc' = "pin"
    <3>1. /\ previous' = [desktop |-> desktop, pin |-> pin]
          /\ desktop' = [hooks |-> DesktopConfigured, proxied |-> TRUE]
      BY <1>3, <2>2 DEF LaunchApply
    <3>2. desktop' \in DesktopSettings
      BY <3>1 DEF DesktopConfigured, DesktopSettings
    <3>3. previous' \in Found
      BY <3>1 DEF Found
    <3>4. QED
      BY <2>1, <2>2, <3>1, <3>2, <3>3
  <2>3. CASE lpc' = "idle"
    <3>1. desktop' \in {desktop, NoDesktop} /\ previous' = None
      BY <1>3, <2>3 DEF LaunchApply
    <3>2. NoDesktop \in DesktopSettings /\ ~NoDesktop.proxied
      BY DEF NoDesktop, DesktopSettings
    <3>3. QED
      BY <2>1, <2>3, <3>1, <3>2
  <2>4. QED
    BY <1>3, <2>2, <2>3 DEF LaunchApply
<1>4. CASE LaunchPin \/ LaunchRecord
  <2>1. previous \in Found /\ previous.desktop \in {None} \cup DesktopSettings /\ previous.pin \in BOOLEAN
    BY <1>4 DEF LaunchPin, LaunchRecord, Found
  <2>2. CASE GiveUp
    <3>1. /\ lpc' = "idle" /\ previous' = None /\ pin' \in {pin, previous.pin}
          /\ desktop' \in Rewritten(previous.desktop)
          /\ leaked' = (leaked \/ desktop' \notin {previous.desktop, NoDesktop} \/ pin' # previous.pin)
          /\ record' \in {record, Torn} /\ lpc \in {"pin", "record"}
      BY <1>4, <2>2 DEF GiveUp, LaunchPin, LaunchRecord
    <3>2. /\ desktop' \in {None} \cup DesktopSettings
          /\ desktop' \in {previous.desktop, NoDesktop} =>
               (Proxied(desktop') => Proxied(previous.desktop))
      BY <2>1, <3>1, RestoresKeep
    <3>3. DesktopType'
      BY <2>1, <3>1, <3>2
    <3>4. QED
      BY <3>1, <3>2, <3>3
  <2>3. CASE LaunchPin /\ ~GiveUp
    <3>1. /\ lpc = "pin" /\ lpc' = "record" /\ previous' = [previous EXCEPT !.pin = pin]
          /\ pin' = TRUE /\ UNCHANGED <<desktop, record, leaked>>
      BY <2>3 DEF LaunchPin
    <3>2. /\ previous' \in Found
          /\ previous'.desktop = previous.desktop /\ previous'.pin = pin
      BY <2>1, <3>1 DEF Found
    <3>3. QED
      BY <3>1, <3>2
  <2>4. CASE LaunchRecord /\ ~GiveUp
    <3>1. /\ lpc = "record" /\ lpc' = "app" /\ record' = previous
          /\ UNCHANGED <<previous, desktop, pin, leaked>>
      BY <2>4 DEF LaunchRecord
    <3>2. QED
      BY <2>1, <3>1, InstallationAssumption
  <2>5. QED
    BY <1>4, <2>2, <2>3, <2>4
<1>5. CASE LaunchApp
  BY <1>5 DEF LaunchApp, desktopVars
<1>6. CASE AppQuits
  BY <1>6 DEF AppQuits, desktopVars
<1>7. CASE RestoreSettings
  <2>1. /\ lpc = "restore" /\ lpc' = "unpin" /\ desktop' = previous.desktop
        /\ UNCHANGED <<previous, pin, record, leaked>>
    BY <1>7 DEF RestoreSettings
  <2>2. desktop' \in {None} \cup DesktopSettings
    BY <2>1 DEF Found
  <2>3. leaked \/ ~Proxied(desktop')
    BY <2>1, InstallationAssumption
  <2>4. QED
    BY <2>1, <2>2, <2>3
<1>8. CASE RestorePin
  <2>1. /\ lpc = "unpin" /\ lpc' = "forget" /\ pin' = previous.pin
        /\ UNCHANGED <<previous, desktop, record, leaked>>
    BY <1>8 DEF RestorePin
  <2>2. pin' \in BOOLEAN
    BY <2>1 DEF Found
  <2>3. leaked \/ ~pin'
    BY <2>1, InstallationAssumption
  <2>4. QED
    BY <2>1, <2>2, <2>3
<1>9. CASE RestoreFails
  <2>1. /\ lpc \in {"restore", "unpin", "forget"} /\ lpc' = "idle" /\ previous' = None
        /\ desktop' \in IF lpc = "restore" THEN Rewritten(previous.desktop) ELSE {desktop}
        /\ pin' \in {pin, previous.pin} /\ UNCHANGED <<record, leaked>>
    BY <1>9 DEF RestoreFails
  <2>2. previous.desktop \in {None} \cup DesktopSettings /\ previous.pin \in BOOLEAN
    BY <2>1 DEF Found
  <2>3. desktop' \in {None} \cup DesktopSettings
    BY <2>1, <2>2, RestoresKeep
  <2>4. leaked \/ record \in Found
    BY <2>1
  <2>5. QED
    BY <2>1, <2>2, <2>3, <2>4, InstallationAssumption
<1>10. CASE Forget
  BY <1>10 DEF Forget
<1>11. QED
  BY <1>1, <1>2, <1>3, <1>4, <1>5, <1>6, <1>7, <1>8, <1>9, <1>10 DEF LauncherSteps

\* Kills: of a setup command, and of the launcher.
LEMMA KillsKeepLauncher == LauncherInv /\ (KillCommand \/ KillLauncher) => LauncherInv'
<1>1. NoDesktop \in DesktopSettings /\ ~Proxied(NoDesktop)
  BY DEF NoDesktop, DesktopSettings, Proxied
<1>2. ASSUME LauncherInv, KillCommand PROVE LauncherInv'
  <2>1. desktop' \in {desktop, NoDesktop} /\ UNCHANGED <<lpc, previous, pin, record, leaked>>
    BY <1>2 DEF KillCommand, Cut
  <2>2. QED
    BY <1>1, <1>2, <2>1, SettingsKeep DEF LauncherInv, DesktopType
<1>3. ASSUME LauncherInv, KillLauncher PROVE LauncherInv'
  <2>1. /\ lpc # "idle" /\ lpc' = "idle" /\ previous' = None /\ pin' = pin
        /\ desktop' = desktop \/ desktop' = NoDesktop
        /\ record' = record \/ (lpc = "record" /\ record' = Torn)
        /\ leaked' = (leaked \/ lpc \in {"pin", "record"})
    BY <1>3 DEF KillLauncher, Cut
  <2>2. DesktopType'
    BY <1>1, <1>3, <2>1 DEF LauncherInv, DesktopType
  <2>3. CASE leaked'
    BY <2>2, <2>3 DEF LauncherInv
  <2>4. CASE ~leaked'
    <3>1. ~leaked /\ lpc \notin {"pin", "record"} /\ record' = record
      BY <2>1, <2>4
    <3>2. CASE lpc \in {"session", "apply"}
      BY <1>1, <1>3, <2>1, <2>2, <3>1, <3>2
      DEF LauncherInv, RecordClean, ChangesKnown, ChangesRecorded, Restored, Whole, Proxied, Clean
    <3>3. CASE lpc \in OnRecord
      <4>1. Whole(record)
        BY <1>3, <3>1, <3>3, InstallationAssumption
        DEF LauncherInv, DesktopType, ChangesRecorded, Whole
      <4>2. QED
        BY <1>3, <2>1, <2>2, <3>1, <4>1
        DEF LauncherInv, RecordClean, ChangesKnown, ChangesRecorded, Restored, Whole
    <3>4. QED
      BY <1>3, <2>1, <3>1, <3>2, <3>3 DEF LauncherInv, DesktopType
  <2>5. QED
    BY <2>3, <2>4
<1>4. QED
  BY <1>2, <1>3

\* claude_desktop.go:119, cli.go:58: whatever fails, is killed or comes in
\* between, the app is not left pinned to the proxy or sent to it without a
\* launcher or a readable record that knows what to restore.
THEOREM PinIsOwned == Spec => []PinOwned
<1>1. Init => LauncherInv
  BY LauncherInit
<1>2. LauncherInv /\ [Next]_vars => LauncherInv'
  <2> SUFFICES ASSUME LauncherInv, [Next]_vars PROVE LauncherInv'
    OBVIOUS
  <2>1. CASE InitSteps \/ DeinitSteps \/ ResetSteps
    BY <2>1, InitStepsKeepLauncher, DeinitStepsKeepLauncher, ResetStepsKeepLauncher
  <2>2. CASE LauncherSteps
    BY <2>2, LauncherStepsKeepLauncher
  <2>3. CASE KillCommand \/ KillLauncher
    BY <2>3, KillsKeepLauncher
  <2>4. CASE AnyCommand
    <3>1. SweepDesktopLaunch /\ UNCHANGED <<lpc, previous>>
      BY <2>4 DEF AnyCommand, SweepDesktopLaunch
    <3>2. QED
      BY <3>1, SweepKeeps
  <2>5. CASE SessionSteps
    <3>1. UNCHANGED launcherState
      BY <2>5 DEF SessionSteps, SessionStart, SessionWrites, CodexLaunch, CodexShim, RebuildRead,
         RebuildWrite, SessionEnds, launcherState
    <3>2. QED
      BY <3>1, LauncherFrame
  <2>6. CASE DaemonSteps \/ KillDaemon \/ KillSession
    <3>1. UNCHANGED launcherState
      BY <2>6 DEF DaemonSteps, ProxyUp, DaemonCert, DaemonKey, ProxyDown, KillDaemon, KillSession,
         launcherState
    <3>2. QED
      BY <3>1, LauncherFrame
  <2>7. CASE Done \/ RemoveGuard \/ SignIn \/ UNCHANGED vars
    <3>1. UNCHANGED launcherState
      BY <2>7 DEF Done, Stop, RemoveGuard, SignIn, launcherState, vars
    <3>2. QED
      BY <3>1, LauncherFrame
  <2>8. QED
    BY <2>1, <2>2, <2>3, <2>4, <2>5, <2>6, <2>7 DEF Next
<1>3. LauncherInv => PinOwned
  BY DEF LauncherInv, Restored, PinOwned, Proxied
<1>4. QED
  BY <1>1, <1>2, <1>3, PTL DEF Spec

-----------------------------------------------------------------------------
(* The CA that the user's tools trust. *)

LoginTrusts == \E e \in trusted : e[1] = "login"

AfterCA == {"bundle", "configure", "trust", "verify", "done"}
AfterTrust == {"claude", "hooks", "delete", "done"}
Creating == op = "init" /\ pc \in {"ca_cert", "ca_key"}

CAType ==
  /\ made \in Nat /\ fresh \in Nat \cup {None} /\ dca \in Nat \cup {None}
  /\ dpc \in {"idle", "cert", "key"} /\ crossed \in BOOLEAN /\ kept \in BOOLEAN
  /\ Creating => fresh \in Nat
  /\ dpc # "idle" => dca \in Nat
  /\ \A e \in trusted : e = <<e[1], e[2]>>

\* What is trusted is the CA on disk, and nobody will replace that for a missing
\* key.
TrustKnown ==
  \A e \in trusted : e[1] = "login" => cert = e[2] /\ cert # None /\ key # None

\* Where a command and a daemon that creates its CA stand.
CAStages ==
  /\ Creating => ~LoginTrusts /\ dpc = "idle"
  /\ op = "init" /\ pc = "ca_key" => cert # None
  /\ op = "init" /\ pc \in AfterCA => cert # None /\ key # None /\ dpc = "idle"
  /\ op = "reset" /\ pc \in AfterTrust => ~LoginTrusts
  /\ dpc # "idle" => ~LoginTrusts

CAInv == CAType /\ (kept \/ crossed \/ (TrustKnown /\ CAStages))

caState == <<cert, key, trusted, made, fresh, kept, crossed, dpc, dca, op, pc>>

LEMMA CAInit == Init => CAInv
<1> SUFFICES ASSUME Init PROVE CAInv
  OBVIOUS
<1>1. /\ made = 0 /\ fresh = None /\ dca = None /\ dpc = "idle" /\ crossed = FALSE
      /\ kept = FALSE /\ trusted = {} /\ pc = "idle"
  BY DEF Init
<1>2. QED
  BY <1>1 DEF CAInv, CAType, TrustKnown, CAStages, LoginTrusts, AfterCA, AfterTrust, Creating

LEMMA CAFrame ==
  ASSUME CAInv, UNCHANGED caState
  PROVE  CAInv'
  BY DEF caState, CAInv, CAType, TrustKnown, CAStages, LoginTrusts, AfterCA, AfterTrust, Creating

\* A command that begins or ends, or goes on where nothing is claimed or what is
\* claimed was so before.
LEMMA CAStageMoves ==
  ASSUME CAInv, UNCHANGED <<cert, key, trusted, made, kept, crossed, dpc, dca>>,
         fresh' \in {fresh, None},
         \/ pc' \notin AfterCA \cup AfterTrust \cup {"ca_cert", "ca_key"}
         \/ op' = "deinit"
         \/ op' = "reset" /\ pc' \notin AfterTrust
         \/ op' = op /\ op = "init" /\ pc \in AfterCA /\ pc' \in AfterCA
         \/ op' = op /\ op = "reset" /\ pc \in AfterTrust /\ pc' \in AfterTrust
  PROVE  CAInv'
  BY DEF CAInv, CAType, TrustKnown, CAStages, LoginTrusts, AfterCA, AfterTrust, Creating

\* ca.go:110, a CA is made anew only when a file of it is missing.
LEMMA NewCA ==
  ASSUME CAInv, ~kept, ~crossed, CAMissing
  PROVE  ~LoginTrusts /\ ~(op = "init" /\ pc \in AfterCA)
  BY DEF CAInv, CAMissing, TrustKnown, CAStages, LoginTrusts

\* What InstallTrustStore leaves trusted: what was, and the CA it installs.
LEMMA TrustInstalled ==
  ASSUME NEW stores, InstallTrustStore(stores)
  PROVE  \A e \in trusted' : e \in trusted \/ \E store \in stores : e = <<store, cert>>
<1>1. trusted' = {e \in trusted : e[1] \notin stores} \cup (stores \X {cert})
  BY DEF InstallTrustStore
<1> TAKE e \in trusted'
<1>2. e \in trusted \/ e \in stores \X {cert}
  BY <1>1
<1>3. CASE e \in stores \X {cert}
  BY <1>3
<1> QED
  BY <1>2, <1>3

LEMMA InitStepsKeepCA == CAInv /\ InitSteps => CAInv'
<1> SUFFICES ASSUME CAInv, InitSteps PROVE CAInv'
  OBVIOUS
<1> USE CAStageMoves DEF At, Go, Return, caVars, AfterCA, AfterTrust
<1>1. ASSUME NEW t \in Integrations, InitBegin(t) PROVE CAInv'
  BY <1>1 DEF InitBegin, Begin
<1>2. CASE InitIdentity
  BY <1>2 DEF InitIdentity
<1>3. CASE LoadOrCreateCA
  <2>1. /\ op = "init" /\ pc = "ca" /\ crossed' = (crossed \/ dpc # "idle")
        /\ UNCHANGED <<cert, key, trusted, kept, dpc, dca>>
    BY <1>3 DEF LoadOrCreateCA
  <2>2. CASE CALoads /\ UNCHANGED <<made, fresh>> /\ Go("bundle")
    <3>1. cert # None /\ key # None /\ op' = "init" /\ pc' = "bundle"
      BY <2>1, <2>2 DEF CALoads, Whole
    <3>2. QED
      BY <2>1, <2>2, <3>1 DEF CAInv, CAType, TrustKnown, CAStages, LoginTrusts, Creating
  <2>3. CASE CAMissing /\ fresh' = made + 1 /\ Go("ca_cert")
    <3>1. fresh' = made + 1 /\ made' = made + 1 /\ op' = "init" /\ pc' = "ca_cert"
      BY <1>3, <2>1, <2>3 DEF LoadOrCreateCA
    <3>2. kept \/ crossed \/ ~LoginTrusts
      BY <2>3, NewCA
    <3>3. CAType'
      BY <2>1, <3>1 DEF CAInv, CAType, Creating
    <3>4. kept' \/ crossed' \/ (TrustKnown' /\ CAStages')
      BY <2>1, <3>1, <3>2 DEF CAInv, CAType, TrustKnown, CAStages, LoginTrusts, Creating
    <3>5. QED
      BY <3>3, <3>4 DEF CAInv
  <2>4. CASE Return /\ UNCHANGED <<made, fresh>>
    <3>1. pc' = "idle" /\ op' = None
      BY <2>4
    <3>2. QED
      BY <2>1, <2>4, <3>1, InstallationAssumption
      DEF CAInv, CAType, TrustKnown, CAStages, LoginTrusts, Creating
  <2>5. QED
    BY <1>3, <2>2, <2>3, <2>4 DEF LoadOrCreateCA
<1>4. CASE InitCACert \/ InitCAKey
  <2>1. /\ op = "init" /\ op' = "init"
        /\ UNCHANGED <<trusted, made, kept, crossed, dpc, dca>>
    BY <1>4 DEF InitCACert, InitCAKey
  <2>2. CASE InitCACert
    <3>1. pc = "ca_cert" /\ pc' = "ca_key" /\ cert' = fresh /\ UNCHANGED <<key, fresh>>
      BY <2>2 DEF InitCACert
    <3>2. fresh # None
      BY <2>1, <3>1, InstallationAssumption DEF CAInv, CAType, Creating
    <3>3. QED
      BY <2>1, <3>1, <3>2 DEF CAInv, CAType, TrustKnown, CAStages, LoginTrusts, Creating
  <2>3. CASE InitCAKey
    <3>1. pc = "ca_key" /\ pc' = "bundle" /\ key' = fresh /\ fresh' = None /\ cert' = cert
      BY <2>3 DEF InitCAKey
    <3>2. fresh # None
      BY <2>1, <3>1, InstallationAssumption DEF CAInv, CAType, Creating
    <3>3. QED
      BY <2>1, <3>1, <3>2 DEF CAInv, CAType, TrustKnown, CAStages, LoginTrusts, Creating
  <2>4. QED
    BY <1>4, <2>2, <2>3
<1>5. CASE InitBundle
  BY <1>5 DEF InitBundle
<1>6. CASE InitConfigure
  BY <1>6 DEF InitConfigure
<1>7. CASE InitTrust
  <2>1. /\ op = "init" /\ pc = "trust" /\ op' = "init" /\ pc' = "verify"
        /\ UNCHANGED <<cert, key, made, fresh, kept, crossed, dpc, dca>>
    BY <1>7 DEF InitTrust
  <2>2. PICK stores \in SUBSET {"system", "login"} : InstallTrustStore(stores)
    BY <1>7 DEF InitTrust
  <2>3. \A e \in trusted' : e \in trusted \/ \E store \in stores : e = <<store, cert>>
    BY <2>2, TrustInstalled
  <2>4. \A e \in trusted' : e \in trusted \/ (e = <<e[1], e[2]>> /\ e[2] = cert)
    BY <2>3
  <2>5. QED
    BY <2>1, <2>4 DEF CAInv, CAType, TrustKnown, CAStages, LoginTrusts, Creating
<1>8. CASE InitVerify
  BY <1>8 DEF InitVerify
<1>9. CASE InitFails
  BY <1>9 DEF InitFails, Stop
<1>10. QED
  BY <1>1, <1>2, <1>3, <1>4, <1>5, <1>6, <1>7, <1>8, <1>9 DEF InitSteps

LEMMA DeinitStepsKeepCA == CAInv /\ DeinitSteps => CAInv'
<1> SUFFICES ASSUME CAInv, DeinitSteps PROVE CAInv'
  OBVIOUS
<1> USE CAStageMoves DEF At, Go, Return, caVars, AfterCA, AfterTrust
<1>1. ASSUME NEW t \in Integrations, DeinitBegin(t) PROVE CAInv'
  BY <1>1 DEF DeinitBegin, Begin
<1>2. CASE DeinitRemove
  BY <1>2 DEF DeinitRemove
<1>3. CASE DeinitMcp
  BY <1>3 DEF DeinitMcp
<1>4. CASE DeinitShared
  BY <1>4 DEF DeinitShared
<1>5. CASE DeinitFails
  BY <1>5 DEF DeinitFails, Stop
<1>6. QED
  BY <1>1, <1>2, <1>3, <1>4, <1>5 DEF DeinitSteps

\* reset.go:365, the trust goes before the certificate that identifies it.
LEMMA ResetStepsKeepCA == CAInv /\ ResetSteps => CAInv'
<1> SUFFICES ASSUME CAInv, ResetSteps PROVE CAInv'
  OBVIOUS
<1> USE CAStageMoves DEF At, Go, Return, caVars, AfterCA, AfterTrust
<1>1. CASE PlanReset
  BY <1>1 DEF PlanReset, Begin
<1>2. CASE ResetGuard
  <2>1. pc' \in {"idle", "down"} /\ UNCHANGED caVars
    BY <1>2 DEF ResetGuard
  <2>2. QED
    BY <2>1
<1>3. CASE ResetDown
  <2>1. /\ op' = "reset" /\ pc' = "trust" /\ crossed' = (crossed \/ dpc # "idle")
        /\ UNCHANGED <<cert, key, trusted, made, fresh, kept, dpc, dca>>
    BY <1>3 DEF ResetDown
  <2>2. QED
    BY <2>1 DEF CAInv, CAType, TrustKnown, CAStages, LoginTrusts, Creating
<1>4. CASE ResetTrust
  <2>1. /\ op = "reset" /\ op' = "reset" /\ pc' = "claude" /\ trusted' \subseteq trusted
        /\ kept' \in BOOLEAN /\ UNCHANGED <<cert, key, made, fresh, crossed, dpc, dca>>
    BY <1>4 DEF ResetTrust, RemoveTrustStore, CAInv, CAType
  <2>2. CAType'
    BY <2>1 DEF CAInv, CAType, Creating
  <2>3. CASE kept' \/ crossed'
    BY <2>2, <2>3 DEF CAInv
  <2>4. CASE ~kept' /\ ~crossed'
    <3>1. trusted' = trusted \ {<<"login", cert>>} /\ kept' = kept
      BY <1>4, <2>4 DEF ResetTrust, RemoveTrustStore
    <3>2. ~LoginTrusts'
      <4>1. SUFFICES ASSUME NEW e \in trusted', e[1] = "login" PROVE FALSE
        BY DEF LoginTrusts
      <4>2. e \in trusted /\ e # <<"login", cert>> /\ cert = e[2] /\ e = <<e[1], e[2]>>
        BY <2>1, <2>4, <3>1, <4>1 DEF CAInv, CAType, TrustKnown
      <4>3. QED
        BY <4>1, <4>2
    <3>3. QED
      BY <2>1, <2>2, <3>1, <3>2 DEF CAInv, TrustKnown, CAStages, LoginTrusts, Creating
  <2>5. QED
    BY <2>3, <2>4
<1>5. CASE ResetClaude
  BY <1>5 DEF ResetClaude
<1>6. CASE ResetHooks
  BY <1>6 DEF ResetHooks
<1>7. CASE ResetDelete
  <2>1. /\ op = "reset" /\ pc = "delete" /\ op' = "reset" /\ pc' = "delete"
        /\ UNCHANGED <<trusted, made, fresh, kept, crossed, dpc, dca>>
    BY <1>7 DEF ResetDelete
  <2>2. QED
    BY <2>1 DEF CAInv, CAType, TrustKnown, CAStages, LoginTrusts, Creating
<1>8. CASE ResetEnds
  BY <1>8 DEF ResetEnds
<1>9. CASE ResetFails
  BY <1>9 DEF ResetFails
<1>10. QED
  BY <1>1, <1>2, <1>3, <1>4, <1>5, <1>6, <1>7, <1>8, <1>9 DEF ResetSteps

\* A daemon starts at any moment, and makes a CA of its own when one is missing.
LEMMA DaemonStepsKeepCA == CAInv /\ (DaemonSteps \/ KillDaemon) => CAInv'
<1> SUFFICES ASSUME CAInv, DaemonSteps \/ KillDaemon PROVE CAInv'
  OBVIOUS
<1> USE DEF cmdVars
<1>1. CASE ProxyUp
  <2>1. UNCHANGED <<cert, key, trusted, fresh, kept, op, pc>>
    BY <1>1 DEF ProxyUp
  <2>2. CASE UNCHANGED <<dpc, dca, made, crossed>>
    BY <2>1, <2>2, CAFrame DEF caState
  <2>3. CASE CAMissing /\ dpc' = "cert"
    <3>1. /\ made' = made + 1 /\ dca' = made + 1 /\ crossed' = (crossed \/ Creating)
      BY <1>1, <2>3 DEF ProxyUp, Creating
    <3>2. kept \/ crossed \/ (~LoginTrusts /\ ~(op = "init" /\ pc \in AfterCA))
      BY <2>3, NewCA
    <3>3. CAType'
      BY <2>1, <2>3, <3>1 DEF CAInv, CAType, Creating
    <3>4. kept' \/ crossed' \/ (TrustKnown' /\ CAStages')
      BY <2>1, <2>3, <3>1, <3>2
      DEF CAInv, CAType, TrustKnown, CAStages, LoginTrusts, AfterCA, Creating
    <3>5. QED
      BY <3>3, <3>4 DEF CAInv
  <2>4. QED
    BY <1>1, <2>2, <2>3 DEF ProxyUp
<1>2. CASE DaemonCert \/ DaemonKey \/ KillDaemon
  <2>1. /\ dpc # "idle" /\ dpc' \in {"idle", "key"}
        /\ dca' \in {dca, None} /\ (dpc' = "idle" \/ dca' = dca)
        /\ (crossed => crossed') /\ crossed' \in BOOLEAN
        /\ UNCHANGED <<trusted, made, fresh, kept, op, pc>>
    BY <1>2 DEF DaemonCert, DaemonKey, KillDaemon, CAInv, CAType
  <2>2. CAType'
    BY <2>1 DEF CAInv, CAType, Creating
  <2>3. ASSUME ~kept, ~crossed PROVE TrustKnown' /\ CAStages'
    <3>1. ~LoginTrusts /\ ~Creating /\ ~(op = "init" /\ pc \in AfterCA)
      BY <2>1, <2>3 DEF CAInv, CAStages
    <3>2. ~LoginTrusts' /\ ~Creating' /\ ~(op' = "init" /\ pc' \in AfterCA)
      BY <2>1, <3>1 DEF LoginTrusts, Creating, AfterCA
    <3>3. QED
      BY <3>2 DEF TrustKnown, CAStages, LoginTrusts, Creating
  <2>4. QED
    BY <2>1, <2>2, <2>3 DEF CAInv, CAType
<1>3. CASE ProxyDown
  BY <1>3, CAFrame DEF ProxyDown, caState
<1>4. QED
  BY <1>1, <1>2, <1>3 DEF DaemonSteps

\* A write that is cut short empties a file but does not remove it.
LEMMA KillCommandKeepsCA == CAInv /\ KillCommand => CAInv'
<1> SUFFICES ASSUME CAInv, KillCommand PROVE CAInv'
  OBVIOUS
<1>1. /\ op' = None /\ pc' = "idle" /\ fresh' = None
      /\ UNCHANGED <<trusted, made, kept, dpc, dca>>
      /\ cert' = cert \/ (cert' = Torn /\ Creating)
      /\ key' = key \/ key' = Torn
      /\ (crossed => crossed') /\ crossed' \in BOOLEAN
  BY DEF KillCommand, Cut, At, Creating, CAInv, CAType
<1>2. CAType'
  BY <1>1 DEF CAInv, CAType, Creating
<1>3. ASSUME ~kept, ~crossed PROVE TrustKnown' /\ CAStages'
  <2>1. cert' = cert \/ ~LoginTrusts
    BY <1>1, <1>3 DEF CAInv, CAStages
  <2>2. TrustKnown'
    BY <1>1, <1>3, <2>1, InstallationAssumption DEF CAInv, TrustKnown, LoginTrusts
  <2>3. CAStages'
    BY <1>1, <1>3, InstallationAssumption
    DEF CAInv, CAStages, LoginTrusts, AfterCA, AfterTrust, Creating
  <2>4. QED
    BY <2>2, <2>3
<1>4. QED
  BY <1>1, <1>2, <1>3 DEF CAInv, CAType

\* Every step keeps CAInv.
LEMMA CANext == CAInv /\ [Next]_vars => CAInv'
<1> SUFFICES ASSUME CAInv, [Next]_vars PROVE CAInv'
  OBVIOUS
<1>1. CASE InitSteps \/ DeinitSteps \/ ResetSteps
  BY <1>1, InitStepsKeepCA, DeinitStepsKeepCA, ResetStepsKeepCA
<1>2. CASE DaemonSteps \/ KillDaemon \/ KillCommand
  BY <1>2, DaemonStepsKeepCA, KillCommandKeepsCA
<1>3. CASE Done
  BY <1>3, CAStageMoves DEF Done, Stop, Return, caVars, AfterCA, AfterTrust
<1>4. CASE LauncherSteps
  <2>1. UNCHANGED caState
    BY <1>4 DEF LauncherSteps, Launch, LaunchSession, LaunchApply, LaunchPin, LaunchRecord,
       LaunchApp, AppQuits, RestoreSettings, RestorePin, RestoreFails, Forget, LaunchLeaves,
       caVars, cmdVars, caState
  <2>2. QED
    BY <2>1, CAFrame
<1>5. CASE SessionSteps
  <2>1. UNCHANGED caState
    BY <1>5 DEF SessionSteps, SessionStart, SessionWrites, CodexLaunch, CodexShim, RebuildRead,
       RebuildWrite, SessionEnds, caVars, cmdVars, caState
  <2>2. QED
    BY <2>1, CAFrame
<1>6. CASE AnyCommand \/ RemoveGuard \/ SignIn \/ KillLauncher \/ KillSession \/ UNCHANGED vars
  <2>1. UNCHANGED caState
    BY <1>6 DEF AnyCommand, RemoveGuard, SignIn, KillLauncher, KillSession, vars,
       caVars, cmdVars, caState
  <2>2. QED
    BY <2>1, CAFrame
<1>7. QED
  BY <1>1, <1>2, <1>3, <1>4, <1>5, <1>6 DEF Next

\* trust_remove.go:10, ca.go:110: whatever fails, is killed or runs in between,
\* a CA that this user's tools trust is the one on disk, so that its trust can be
\* removed, unless a reset was told to keep it or two creators of a CA overlapped.
THEOREM TrustStaysKnown == Spec => []TrustedIsKnown
<1>1. Init => CAInv
  BY CAInit
<1>2. CAInv /\ [Next]_vars => CAInv'
  BY CANext
<1>3. CAInv => TrustedIsKnown
  BY DEF CAInv, TrustKnown, TrustedIsKnown
<1>4. QED
  BY <1>1, <1>2, <1>3, PTL DEF Spec

-----------------------------------------------------------------------------
(* The user's part of the settings. *)

FilesType ==
  /\ claude \in Settings /\ emptied \in BOOLEAN
  /\ claudeMcp \in McpConfig /\ codexMcp \in McpConfig

\* No list of servers has a server of the user for one of Keydris's.
Untouched(config) ==
  \A n \in Server : UserServer[n] # None => config.servers[n] = UserServer[n] /\ n \notin config.managed

UserInv ==
  /\ FilesType
  /\ emptied \/ UserPart(claude, Opt) = before
  /\ Untouched(claudeMcp) /\ Untouched(codexMcp)

LEMMA UserInit == Init => UserInv
<1> SUFFICES ASSUME Init PROVE UserInv
  OBVIOUS
<1>1. /\ claude \in Settings /\ before = UserPart(claude, Opt) /\ emptied = FALSE
      /\ claudeMcp = [servers |-> UserServer, managed |-> {}, rmcp |-> FALSE]
      /\ codexMcp = claudeMcp
  BY InstallationAssumption DEF Init
<1>2. claudeMcp \in McpConfig
  BY <1>1, InstallationAssumption DEF McpConfig
<1>3. Untouched(claudeMcp)
  BY <1>1 DEF Untouched
<1>4. QED
  BY <1>1, <1>2, <1>3 DEF UserInv, FilesType

\* Every edit of a list of servers that a policy or its end asks for.
LEMMA ServersUntouched ==
  ASSUME NEW config \in McpConfig, Untouched(config),
         NEW new, NEW policy \in Policies,
         new \in {config, ConfigureMcpServers(config, policy), ConfigureCodexMcpServers(config, policy),
                  RemoveManagedMcpServers(config), RemoveManagedCodexMcpServers(config)}
  PROVE  new \in McpConfig /\ Untouched(new)
<1>1. policy \in [Server -> Url \cup {None}]
  BY InstallationAssumption
<1>2. new \in McpConfig
  BY <1>1, McpTyped
<1>3. ASSUME NEW n \in Server, UserServer[n] # None
      PROVE  new.servers[n] = UserServer[n] /\ n \notin new.managed
  <2>1. policy[n] = None
    BY <1>3, InstallationAssumption
  <2>2. n \notin config.managed /\ config.servers[n] = UserServer[n]
    BY <1>3 DEF Untouched
  <2>3. CASE new = config
    BY <2>2, <2>3
  <2>4. CASE new # config
    BY <1>1, <2>1, <2>2, <2>4, OtherServersStay
  <2>5. QED
    BY <2>3, <2>4
<1>4. QED
  BY <1>2, <1>3 DEF Untouched

\* Removals need no policy.
LEMMA RemovalUntouched ==
  ASSUME NEW config \in McpConfig, Untouched(config),
         NEW new \in {config, RemoveManagedMcpServers(config), RemoveManagedCodexMcpServers(config)}
  PROVE  new \in McpConfig /\ Untouched(new)
<1> DEFINE none == [n \in Server |-> None]
<1>1. none \in [Server -> Url \cup {None}]
  OBVIOUS
<1> HIDE DEF none
<1>2. new \in McpConfig
  BY <1>1, McpTyped
<1>3. ASSUME NEW n \in Server, UserServer[n] # None
      PROVE  new.servers[n] = UserServer[n] /\ n \notin new.managed
  <2>1. none[n] = None
    BY DEF none
  <2>2. n \notin config.managed /\ config.servers[n] = UserServer[n]
    BY <1>3 DEF Untouched
  <2>3. CASE new = config
    BY <2>2, <2>3
  <2>4. CASE new # config
    BY <1>1, <2>1, <2>2, <2>4, OtherServersStay
  <2>5. QED
    BY <2>3, <2>4
<1>4. QED
  BY <1>2, <1>3 DEF Untouched

\* A command that edits Claude Code's settings, or leaves them.
LEMMA SettingsUntouched ==
  ASSUME UserInv, claude' \in {claude, Configure(claude, Opt), Deconfigure(claude, Opt)},
         UNCHANGED <<before, emptied>>
  PROVE  /\ claude' \in Settings /\ emptied' \in BOOLEAN
         /\ emptied' \/ UserPart(claude', Opt) = before'
<1>1. claude \in Settings /\ emptied \in BOOLEAN /\ Opt \in Options
  BY InstallationAssumption DEF UserInv, FilesType
<1>2. claude' \in Settings
  BY <1>1, ConfigureTyped, DeconfigureTyped
<1>3. UserPart(claude', Opt) = UserPart(claude, Opt)
  BY <1>1, ConfigureKeepsUser, DeconfigureKeepsUser
<1>4. QED
  BY <1>1, <1>2, <1>3 DEF UserInv

\* claudeMcp and codexMcp change by removals only, or follow a policy.
ServersEdited ==
  /\ claudeMcp' \in McpConfig /\ Untouched(claudeMcp')
  /\ codexMcp' \in McpConfig /\ Untouched(codexMcp')

LEMMA ServersStay ==
  ASSUME UserInv, claudeMcp' \in {claudeMcp, RemoveManagedMcpServers(claudeMcp)},
         codexMcp' \in {codexMcp, RemoveManagedCodexMcpServers(codexMcp)}
  PROVE  ServersEdited
<1>1. claudeMcp' \in McpConfig /\ Untouched(claudeMcp')
  BY RemovalUntouched DEF UserInv, FilesType
<1>2. codexMcp' \in McpConfig /\ Untouched(codexMcp')
  BY RemovalUntouched DEF UserInv, FilesType
<1>3. QED
  BY <1>1, <1>2 DEF ServersEdited

LEMMA ServersFollow == UserInv /\ FollowPolicy => ServersEdited
<1> SUFFICES ASSUME UserInv, FollowPolicy PROVE ServersEdited
  OBVIOUS
<1>1. PICK policy \in Policies :
        /\ claudeMcp' \in {claudeMcp, ConfigureMcpServers(claudeMcp, policy)}
        /\ codexMcp' \in {codexMcp, ConfigureCodexMcpServers(codexMcp, policy)}
  BY DEF FollowPolicy
<1>2. claudeMcp' \in McpConfig /\ Untouched(claudeMcp')
  BY <1>1, ServersUntouched DEF UserInv, FilesType
<1>3. codexMcp' \in McpConfig /\ Untouched(codexMcp')
  BY <1>1, ServersUntouched DEF UserInv, FilesType
<1>4. QED
  BY <1>2, <1>3 DEF ServersEdited

\* Every step is one of these, or a kill.
FileEdits ==
  /\ claude' \in {claude, Configure(claude, Opt), Deconfigure(claude, Opt)}
  /\ UNCHANGED <<before, emptied>>
  /\ ServersEdited

LEMMA EditsKeepUser == UserInv /\ FileEdits => UserInv'
  BY SettingsUntouched DEF FileEdits, ServersEdited, UserInv, FilesType, Untouched

LEMMA SetupEditsFiles == UserInv /\ (InitSteps \/ DeinitSteps \/ ResetSteps) => FileEdits
<1> SUFFICES ASSUME UserInv, InitSteps \/ DeinitSteps \/ ResetSteps PROVE FileEdits
  OBVIOUS
<1> USE ServersStay DEF FileEdits, claudeVars, harnessVars
<1>1. CASE InitSteps
  <2>1. ASSUME NEW t \in Integrations, InitBegin(t) PROVE FileEdits
    BY <2>1 DEF InitBegin
  <2>2. CASE InitIdentity \/ LoadOrCreateCA \/ InitCACert \/ InitCAKey \/ InitBundle
    BY <2>2 DEF InitIdentity, LoadOrCreateCA, InitCACert, InitCAKey, InitBundle
  <2>3. CASE InitConfigure
    BY <2>3 DEF InitConfigure
  <2>4. CASE InitTrust \/ InitVerify \/ InitFails
    BY <2>4 DEF InitTrust, InitVerify, InitFails, Stop
  <2>5. QED
    BY <1>1, <2>1, <2>2, <2>3, <2>4 DEF InitSteps
<1>2. CASE DeinitSteps
  <2>1. ASSUME NEW t \in Integrations, DeinitBegin(t) PROVE FileEdits
    BY <2>1 DEF DeinitBegin
  <2>2. CASE DeinitRemove
    BY <2>2 DEF DeinitRemove
  <2>3. CASE DeinitMcp
    BY <2>3 DEF DeinitMcp
  <2>4. CASE DeinitShared \/ DeinitFails
    BY <2>4 DEF DeinitShared, DeinitFails, Stop
  <2>5. QED
    BY <1>2, <2>1, <2>2, <2>3, <2>4 DEF DeinitSteps
<1>3. CASE ResetSteps
  <2>1. CASE PlanReset \/ ResetGuard \/ ResetDown \/ ResetTrust
    BY <2>1 DEF PlanReset, ResetGuard, ResetDown, ResetTrust
  <2>2. CASE ResetClaude
    BY <2>2 DEF ResetClaude
  <2>3. CASE ResetHooks
    BY <2>3 DEF ResetHooks
  <2>4. CASE ResetDelete \/ ResetEnds \/ ResetFails
    BY <2>4 DEF ResetDelete, ResetEnds, ResetFails
  <2>5. QED
    BY <1>3, <2>1, <2>2, <2>3, <2>4 DEF ResetSteps
<1>4. QED
  BY <1>1, <1>2, <1>3

LEMMA OthersEditFiles ==
  ASSUME UserInv, LauncherSteps \/ SessionSteps \/ DaemonSteps \/ Done \/ AnyCommand \/ RemoveGuard
                    \/ SignIn \/ KillLauncher \/ KillDaemon \/ KillSession \/ UNCHANGED vars
  PROVE  FileEdits
<1> USE ServersStay, ServersFollow DEF FileEdits, claudeVars, harnessVars
<1>1. CASE LaunchSession
  <2>1. ServersEdited
    BY <1>1 DEF LaunchSession
  <2>2. QED
    BY <1>1, <2>1 DEF LaunchSession
<1>2. CASE LauncherSteps /\ ~LaunchSession
  BY <1>2 DEF LauncherSteps, Launch, LaunchApply, LaunchPin, LaunchRecord, LaunchApp, AppQuits,
     RestoreSettings, RestorePin, RestoreFails, Forget, LaunchLeaves
<1>3. CASE SessionWrites
  BY <1>3 DEF SessionWrites
<1>4. CASE SessionSteps /\ ~SessionWrites
  BY <1>4 DEF SessionSteps, SessionStart, CodexLaunch, CodexShim, RebuildRead, RebuildWrite,
     SessionEnds
<1>5. CASE DaemonSteps \/ KillDaemon \/ KillSession
  BY <1>5 DEF DaemonSteps, ProxyUp, DaemonCert, DaemonKey, ProxyDown, KillDaemon, KillSession
<1>6. CASE Done \/ AnyCommand \/ RemoveGuard \/ SignIn \/ KillLauncher \/ UNCHANGED vars
  BY <1>6 DEF Done, Stop, AnyCommand, RemoveGuard, SignIn, KillLauncher, vars
<1>7. QED
  BY <1>1, <1>2, <1>3, <1>4, <1>5, <1>6

\* A write of the settings that is cut short empties them, and is counted.
LEMMA KillKeepsUser == UserInv /\ KillCommand => UserInv'
<1> SUFFICES ASSUME UserInv, KillCommand PROVE UserInv'
  OBVIOUS
<1>1. /\ claude' = claude \/ claude' = EmptySettings
      /\ emptied' = (emptied \/ claude' # claude)
      /\ UNCHANGED <<before, claudeMcp, codexMcp>>
  BY DEF KillCommand, Cut
<1>2. EmptySettings \in Settings
  BY DEF EmptySettings, NoSandbox, Settings, Sandbox, Switch, Domains, Hooks, Env
<1>3. QED
  BY <1>1, <1>2 DEF UserInv, FilesType, Untouched

\* Every step keeps UserInv.
LEMMA UserNext == UserInv /\ [Next]_vars => UserInv'
<1> SUFFICES ASSUME UserInv, [Next]_vars PROVE UserInv'
  OBVIOUS
<1>1. CASE KillCommand
  BY <1>1, KillKeepsUser
<1>2. CASE InitSteps \/ DeinitSteps \/ ResetSteps
  BY <1>2, SetupEditsFiles, EditsKeepUser
<1>3. CASE LauncherSteps \/ SessionSteps \/ DaemonSteps \/ Done \/ AnyCommand \/ RemoveGuard
             \/ SignIn \/ KillLauncher \/ KillDaemon \/ KillSession \/ UNCHANGED vars
  BY <1>3, OthersEditFiles, EditsKeepUser
<1>4. QED
  BY <1>1, <1>2, <1>3 DEF Next

\* deconfigure.go:20: whatever order commands come in, fail and are killed, the
\* user's hooks, domains, variables, other settings and servers stay as they
\* were before the first, unless a write cut short emptied the file.
THEOREM UserIsKept == Spec => []UserKept
<1>1. Init => UserInv
  BY UserInit
<1>2. UserInv /\ [Next]_vars => UserInv'
  BY UserNext
<1>3. UserInv => UserKept
  BY DEF UserInv, Untouched, UserKept
<1>4. QED
  BY <1>1, <1>2, <1>3, PTL DEF Spec

-----------------------------------------------------------------------------
(* The agent that all integrations share. *)

Lasting == dirs \ undone
NoneConfigured == ~ClaudeConfigured /\ Lasting = {} /\ ~HasKeydrisHooks(codexHooks)

DirsType ==
  /\ dirs \subseteq {"codex", "codex-desktop"}
  /\ undone \subseteq {"identity", "codex-desktop", "servers", "ca-bundle.crt"}

\* Handlers of Keydris are only where its edits look for them.
HooksType ==
  /\ claude \in Settings /\ codexHooks \in Hooks
  /\ \A g \in claude.hooks["PermissionRequest"] : g \cap KeydrisHandler = {}
  /\ \A g \in codexHooks["SessionEnd"] : g \cap KeydrisHandler = {}
  /\ DirsType /\ halted \in BOOLEAN

\* Who needs the agent has it, and a deinit that found no other integration is
\* right until it ends: a second command cannot configure one meanwhile.
AgentThere ==
  \/ NoneConfigured \/ halted \/ At("reset", "delete") \/ "agent-id" \in creds
DeinitStages ==
  op = "deinit" =>
    /\ target \in Integrations
    /\ pc = "remove" /\ ~shared =>
         /\ target # "claude-code" => ~ClaudeConfigured
         /\ target # "codex" => ~HasKeydrisHooks(codexHooks)
         /\ Lasting \subseteq {target}
    /\ pc = "mcp" /\ ~shared => NoneConfigured
    /\ pc = "shared" => NoneConfigured
ResetStages ==
  op = "reset" =>
    /\ pc \in {"guard", "down", "trust", "claude", "hooks", "delete"} => Lasting \subseteq plan
    /\ pc \in {"hooks", "delete"} => ~ClaudeConfigured
    /\ pc = "delete" => ~HasKeydrisHooks(codexHooks)

SharedInv ==
  /\ HooksType /\ AgentThere
  /\ op = "init" => "agent-id" \in creds
  /\ DeinitStages /\ ResetStages

LEMMA ConfiguredTerminals ==
  ASSUME HooksType, NoneConfigured
  PROVE  \A t \in {"claude-code", "codex", "codex-desktop"} \ undone : ~Configured(t)
  BY DEF HooksType, DirsType, NoneConfigured, Lasting, Configured

LEMMA ConfiguredHooksOnly ==
  ASSUME NEW s \in Settings, NEW o \in Options
  PROVE  Configure(s, o).hooks["PermissionRequest"] = s.hooks["PermissionRequest"]
<1>1. s.hooks \in Hooks
  BY DEF Settings
<1>2. Configure(s, o).hooks = MergePreToolUseHook(MergeHooks(s.hooks, o.start, o.end), o.pre)
  BY DEF Configure
<1>3. QED
  BY <1>1, <1>2, ConfiguredHooks

LEMMA SharedInit == Init => SharedInv
<1> SUFFICES ASSUME Init PROVE SharedInv
  OBVIOUS
<1>1. claude \in Settings /\ codexHooks \in Hooks /\ ~HasKeydrisHooks(claude.hooks)
  <2>1. EmptySettings.hooks \in Hooks
    BY DEF EmptySettings, Hooks
  <2>2. QED
    BY <2>1, InstallationAssumption DEF Init
<1>2. \A g \in claude.hooks["PermissionRequest"] : g \cap KeydrisHandler = {}
  BY <1>1 DEF HasKeydrisHooks, Event
<1>3. ~HasKeydrisHooks(EmptySettings.hooks) /\ EmptySettings.hooks["SessionEnd"] = {}
  BY DEF EmptySettings, HasKeydrisHooks, Event
<1>4. HooksType
  BY <1>1, <1>2, <1>3, InstallationAssumption DEF Init, HooksType, DirsType
<1>5. AgentThere
  BY <1>1, <1>3 DEF Init, AgentThere, NoneConfigured, Lasting, ClaudeConfigured
<1>6. pc = "idle" /\ op \notin {"init", "deinit", "reset"}
  BY InstallationAssumption DEF Init
<1>7. QED
  BY <1>4, <1>5, <1>6 DEF Init, SharedInv, DeinitStages, ResetStages

\* Sessions, launchers, daemons and the user leave a command and what it edits
\* alone, and all but the user respect the guard of a reset; what they bring back
\* is counted.
Others ==
  \/ LauncherSteps \/ SessionSteps \/ DaemonSteps \/ AnyCommand \/ RemoveGuard \/ SignIn
  \/ KillLauncher \/ KillDaemon \/ KillSession \/ UNCHANGED vars

sharedState == <<claude, codexHooks, Lasting, op, pc, target, shared, plan>>

OthersLeave ==
  /\ UNCHANGED <<sharedState, halted>> /\ DirsType' /\ dirs \subseteq dirs'
  /\ creds \subseteq creds' /\ (op = "reset" => creds' \subseteq creds \cup undone')
  /\ undone \ {"ca-bundle.crt"} \subseteq undone'
  /\ guard /\ op = "reset" => guard' = guard
  /\ op = "reset" => claudeMcp' = claudeMcp \/ "servers" \in undone'
  /\ guard /\ dpc = "idle" => dpc' = "idle" /\ daemon' \in {daemon, None}

LEMMA OthersRespect ==
  ASSUME DirsType, Others
  PROVE  OthersLeave
<1> USE DEF OthersLeave, sharedState, Lasting, DirsType, claudeVars, harnessVars, caVars, cmdVars
<1>1. CASE LaunchSession
  BY <1>1 DEF LaunchSession, FollowPolicy
<1>2. CASE LauncherSteps /\ ~LaunchSession
  BY <1>2 DEF LauncherSteps, Launch, LaunchApply, LaunchPin, LaunchRecord, LaunchApp,
     AppQuits, RestoreSettings, RestorePin, RestoreFails, Forget, LaunchLeaves
<1>3. CASE SessionWrites
  BY <1>3 DEF SessionWrites, FollowPolicy
<1>4. CASE CodexShim
  BY <1>4 DEF CodexShim
<1>5. CASE SessionStart
  BY <1>5 DEF SessionStart
<1>6. CASE CodexLaunch
  BY <1>6 DEF CodexLaunch
<1>7. CASE RebuildRead \/ SessionEnds
  <2>1. UNCHANGED <<claudeVars, harnessVars, credVars, caVars, guard, cmdVars, halted>>
    BY <1>7 DEF RebuildRead, SessionEnds
  <2>2. QED
    BY <2>1
<1>8. CASE RebuildWrite \/ KillSession
  BY <1>8 DEF RebuildWrite, KillSession
<1>9. CASE DaemonSteps \/ KillDaemon
  <2>1. UNCHANGED <<claudeVars, harnessVars, credVars, guard, cmdVars, halted>>
    BY <1>9 DEF DaemonSteps, ProxyUp, ProxyDown, DaemonCert, DaemonKey, KillDaemon
  <2>2. guard /\ dpc = "idle" => dpc' = "idle" /\ daemon' \in {daemon, None}
    <3>1. guard /\ dpc = "idle" => ProxyDown
      BY <1>9 DEF DaemonSteps, ProxyUp, DaemonCert, DaemonKey, KillDaemon
    <3>2. ProxyDown => dpc' = dpc /\ daemon' = None
      BY DEF ProxyDown
    <3>3. QED
      BY <3>1, <3>2
  <2>3. QED
    BY <2>1, <2>2
<1>10. CASE SignIn
  BY <1>10 DEF SignIn
<1>11. CASE AnyCommand \/ RemoveGuard \/ KillLauncher \/ UNCHANGED vars
  BY <1>11 DEF AnyCommand, RemoveGuard, KillLauncher, vars
<1>12. QED
  BY <1>1, <1>2, <1>3, <1>4, <1>5, <1>6, <1>7, <1>8, <1>9, <1>10, <1>11 DEF Others, SessionSteps

\* A step of Next is a command's, a kill or one of the others.
LEMMA StepKinds ==
  ASSUME [Next]_vars
  PROVE  InitSteps \/ DeinitSteps \/ ResetSteps \/ Done \/ KillCommand \/ Others
  BY DEF Next, Others

\* They keep SharedInv.
LEMMA OthersKeepShared == SharedInv /\ Others => SharedInv'
<1> SUFFICES ASSUME SharedInv, Others PROVE SharedInv'
  OBVIOUS
<1>1. OthersLeave
  BY OthersRespect DEF SharedInv, HooksType
<1>2. HooksType'
  BY <1>1 DEF SharedInv, HooksType, OthersLeave, sharedState
<1>3. AgentThere' /\ DeinitStages' /\ ResetStages'
  BY <1>1 DEF SharedInv, OthersLeave, sharedState, AgentThere, NoneConfigured, ClaudeConfigured,
     DeinitStages, ResetStages, At
<1>4. QED
  BY <1>1, <1>2, <1>3 DEF SharedInv, OthersLeave, sharedState

\* The end of a command.
LEMMA SharedReturn ==
  ASSUME SharedInv, op' = None, pc' = "idle",
         UNCHANGED <<claude, codexHooks, dirs, undone, creds>>,
         \/ halted' = halted /\ ~At("reset", "delete")
         \/ halted' = TRUE
  PROVE  SharedInv'
  BY InstallationAssumption
  DEF SharedInv, HooksType, DirsType, AgentThere, NoneConfigured, Lasting, ClaudeConfigured,
      DeinitStages, ResetStages, At

\* A step of init.
LEMMA SharedInitGo ==
  ASSUME SharedInv, op' = "init", "agent-id" \in creds', HooksType'
  PROVE  SharedInv'
  BY DEF SharedInv, AgentThere, DeinitStages, ResetStages

LEMMA InitStepsKeepShared == SharedInv /\ InitSteps => SharedInv'
<1> SUFFICES ASSUME SharedInv, InitSteps PROVE SharedInv'
  OBVIOUS
<1>1. HooksType /\ (op = "init" => "agent-id" \in creds)
  BY DEF SharedInv
<1>2. ASSUME UNCHANGED <<claude, codexHooks, dirs>>, halted' \in {halted, FALSE},
             undone' \subseteq undone
      PROVE  HooksType'
  BY <1>1, <1>2 DEF HooksType, DirsType
<1>3. ASSUME NEW t \in Integrations, InitBegin(t) PROVE SharedInv'
  BY <1>2, <1>3, SharedInitGo DEF InitBegin, Begin, claudeVars, harnessVars
<1>4. ASSUME op = "init", op' = "init", creds \subseteq creds', undone' \subseteq undone,
             UNCHANGED <<claudeVars, harnessVars>>, halted' \in {halted, FALSE}
      PROVE  SharedInv'
  BY <1>1, <1>2, <1>4, SharedInitGo DEF claudeVars, harnessVars
<1>5. ASSUME op = "init", Return, UNCHANGED <<claudeVars, harnessVars, creds, undone, halted>>
      PROVE  SharedInv'
  BY <1>5, SharedReturn DEF Return, At, claudeVars, harnessVars
<1>6. CASE InitIdentity
  BY <1>4, <1>5, <1>6 DEF InitIdentity, At, Go
<1>7. CASE LoadOrCreateCA
  BY <1>4, <1>5, <1>7 DEF LoadOrCreateCA, At, Go
<1>8. CASE InitCACert \/ InitCAKey \/ InitBundle \/ InitTrust \/ InitVerify
  BY <1>4, <1>8 DEF InitCACert, InitCAKey, InitBundle, InitTrust, InitVerify, At, Go
<1>9. CASE InitConfigure
  <2>1. op = "init" /\ op' = "init" /\ UNCHANGED <<creds, halted>> /\ undone' \subseteq undone
    BY <1>9 DEF InitConfigure, At, Go
  <2>2. /\ claude' \in Settings
        /\ claude'.hooks["PermissionRequest"] = claude.hooks["PermissionRequest"]
    <3>1. claude' \in {claude, Configure(claude, Opt)} /\ Opt \in Options
      BY <1>9, InstallationAssumption DEF InitConfigure
    <3>2. QED
      BY <1>1, <3>1, ConfigureTyped, ConfiguredHooksOnly DEF HooksType
  <2>3. /\ codexHooks' \in Hooks /\ codexHooks'["SessionEnd"] = codexHooks["SessionEnd"]
    <3>1. codexHooks' \in {codexHooks, DeconfigureCodexHooks(codexHooks)}
      BY <1>9 DEF InitConfigure
    <3>2. QED
      BY <1>1, <3>1, CodexHooksStripped DEF HooksType
  <2>4. dirs' \subseteq {"codex", "codex-desktop"}
    BY <1>1, <1>9 DEF InitConfigure, HooksType, DirsType
  <2>5. HooksType'
    BY <1>1, <2>1, <2>2, <2>3, <2>4 DEF HooksType, DirsType
  <2>6. QED
    BY <1>1, <2>1, <2>5, SharedInitGo
<1>10. CASE InitFails
  BY <1>5, <1>10 DEF InitFails, Stop
<1>11. QED
  BY <1>3, <1>6, <1>7, <1>8, <1>9, <1>10 DEF InitSteps

\* deinit.go:20, 47: the agent goes only when nothing is configured any more.
LEMMA DeinitStepsKeepShared == SharedInv /\ DeinitSteps => SharedInv'
<1> SUFFICES ASSUME SharedInv, DeinitSteps PROVE SharedInv'
  OBVIOUS
<1>1. HooksType /\ AgentThere /\ DeinitStages
  BY DEF SharedInv
<1>2. ASSUME NEW t \in Integrations, DeinitBegin(t) PROVE SharedInv'
  <2>1. /\ op' = "deinit" /\ pc' = "remove" /\ target' = t
        /\ UNCHANGED <<claude, codexHooks, dirs, undone, creds, halted>>
        /\ shared' = OtherIntegrationsRemain(t)'
    BY <1>2 DEF DeinitBegin, Begin, claudeVars, harnessVars
  <2>2. ~shared' => /\ t # "claude-code" => ~ClaudeConfigured'
                    /\ t # "codex" => ~HasKeydrisHooks(codexHooks')
                    /\ Lasting' \subseteq {t}
    <3>1. SUFFICES ASSUME ~shared' PROVE
            /\ t # "claude-code" => ~ClaudeConfigured'
            /\ t # "codex" => ~HasKeydrisHooks(codexHooks') /\ "codex" \notin dirs'
            /\ t # "codex-desktop" => "codex-desktop" \notin dirs'
      BY <1>1, <2>1 DEF HooksType, DirsType, Lasting
    <3>2. \A other \in {"claude-code", "codex", "codex-desktop"} \ {t} : ~Configured(other)'
      BY <2>1, <3>1 DEF OtherIntegrationsRemain
    <3>3. QED
      BY <3>2 DEF Configured
  <2>3. ~At("reset", "delete")
    BY <1>2, InstallationAssumption DEF DeinitBegin, Begin, At
  <2>4. HooksType' /\ AgentThere'
    BY <1>1, <2>1, <2>3 DEF HooksType, DirsType, AgentThere, NoneConfigured, Lasting, ClaudeConfigured
  <2>5. DeinitStages'
    BY <2>1, <2>2 DEF DeinitStages
  <2>6. QED
    BY <2>1, <2>4, <2>5 DEF SharedInv, ResetStages
<1>3. CASE DeinitRemove
  <2>1. /\ op = "deinit" /\ pc = "remove" /\ op' = "deinit" /\ pc' = "mcp"
        /\ UNCHANGED <<target, shared, creds, halted>> /\ target \in Integrations
    BY <1>1, <1>3 DEF DeinitRemove, At, Go, DeinitStages
  <2>2. /\ claude' \in Settings
        /\ claude'.hooks["PermissionRequest"] = claude.hooks["PermissionRequest"]
        /\ IF target = "claude-code" THEN ~ClaudeConfigured' ELSE claude' = claude
    <3>1. claude' = (IF target = "claude-code" THEN Deconfigure(claude, Opt) ELSE claude)
          /\ Opt \in Options
      BY <1>3, InstallationAssumption DEF DeinitRemove
    <3>2. QED
      BY <1>1, <3>1, DeconfigureTyped, ClaudeHooksStripped DEF HooksType, ClaudeConfigured
  <2>3. /\ codexHooks' \in Hooks /\ codexHooks'["SessionEnd"] = codexHooks["SessionEnd"]
        /\ IF target = "codex" THEN ~HasKeydrisHooks(codexHooks') ELSE codexHooks' = codexHooks
        /\ dirs' = dirs \ {target} /\ undone' = undone \ {target}
    <3>1. /\ codexHooks' = (IF target = "codex" THEN DeconfigureCodexHooks(codexHooks) ELSE codexHooks)
          /\ dirs' = dirs \ {target} /\ undone' = undone \ {target}
      BY <1>3 DEF DeinitRemove, DeinitCodex
    <3>2. QED
      BY <1>1, <3>1, CodexHooksStripped DEF HooksType
  <2>4. HooksType' /\ Lasting' = Lasting \ {target}
    BY <1>1, <2>1, <2>2, <2>3 DEF HooksType, DirsType, Lasting
  <2>5. AgentThere'
    <3>1. NoneConfigured => NoneConfigured'
      BY <2>2, <2>3, <2>4 DEF NoneConfigured, ClaudeConfigured
    <3>2. QED
      BY <1>1, <2>1, <3>1 DEF AgentThere, At
  <2>6. ~shared => NoneConfigured'
    BY <1>1, <2>1, <2>2, <2>3, <2>4 DEF DeinitStages, NoneConfigured, ClaudeConfigured
  <2>7. QED
    BY <2>1, <2>4, <2>5, <2>6 DEF SharedInv, DeinitStages, ResetStages
<1>4. CASE DeinitMcp
  <2>1. /\ op = "deinit" /\ pc = "mcp" /\ op' = "deinit"
        /\ pc' = (IF shared THEN "done" ELSE "shared")
        /\ UNCHANGED <<target, shared, claude, codexHooks, dirs, undone, creds, halted>>
    BY <1>4 DEF DeinitMcp, At, Go, claudeVars
  <2>2. QED
    BY <1>1, <2>1 DEF SharedInv, DeinitStages, ResetStages, HooksType, DirsType, AgentThere,
       NoneConfigured, Lasting, ClaudeConfigured, At
<1>5. CASE DeinitShared
  <2>1. /\ op = "deinit" /\ pc = "shared" /\ op' = "deinit" /\ pc' = "done"
        /\ UNCHANGED <<target, shared, claude, codexHooks, dirs, undone, halted>>
    BY <1>5 DEF DeinitShared, At, Go, claudeVars, harnessVars
  <2>2. NoneConfigured /\ NoneConfigured'
    BY <1>1, <2>1 DEF DeinitStages, NoneConfigured, Lasting, ClaudeConfigured
  <2>3. QED
    BY <1>1, <2>1, <2>2 DEF SharedInv, DeinitStages, ResetStages, HooksType, DirsType, AgentThere
<1>6. CASE DeinitFails
  BY <1>6, SharedReturn DEF DeinitFails, Stop, Return, At, claudeVars, harnessVars
<1>7. QED
  BY <1>2, <1>3, <1>4, <1>5, <1>6 DEF DeinitSteps

\* The preview lists what exists.
LEMMA PlannedDirs ==
  HooksType => Lasting \subseteq FilesThere
<1> SUFFICES ASSUME HooksType, NEW d \in dirs PROVE d \in FilesThere
  BY DEF Lasting
<1>1. d = "codex" \/ d = "codex-desktop"
  BY DEF HooksType, DirsType
<1>2. /\ DataFiles[7] = "codex" /\ DataFiles[8] = "codex-desktop"
      /\ 7 \in DOMAIN DataFiles /\ 8 \in DOMAIN DataFiles
  BY DEF DataFiles
<1>3. Exists(d)
  BY <1>1 DEF Exists
<1>4. QED
  BY <1>1, <1>2, <1>3 DEF FilesThere

LEMMA ResetStepsKeepShared == SharedInv /\ ResetSteps => SharedInv'
<1> SUFFICES ASSUME SharedInv, ResetSteps PROVE SharedInv'
  OBVIOUS
<1> USE DEF DirsType
<1>1. HooksType /\ AgentThere /\ ResetStages
  BY DEF SharedInv
<1>2. CASE PlanReset
  <2>1. /\ op' = "reset" /\ pc' = "guard" /\ plan' = FilesThere'
        /\ UNCHANGED <<claude, codexHooks, dirs, undone, creds, halted>>
    BY <1>2 DEF PlanReset, Begin, claudeVars, harnessVars
  <2>2. ~At("reset", "delete")
    BY <1>2, InstallationAssumption DEF PlanReset, Begin, At
  <2>3. HooksType' /\ AgentThere'
    BY <1>1, <2>1, <2>2 DEF HooksType, AgentThere, NoneConfigured, Lasting, ClaudeConfigured
  <2>4. Lasting' \subseteq plan'
    <3>1. (HooksType => Lasting \subseteq FilesThere)'
      BY PlannedDirs, PTL
    <3>2. QED
      BY <2>1, <2>3, <3>1
  <2>5. QED
    BY <2>1, <2>3, <2>4 DEF SharedInv, DeinitStages, ResetStages
<1>3. CASE ResetGuard
  <2>1. \/ op' = None /\ pc' = "idle"
        \/ UNCHANGED <<op, target, shared, plan>> /\ pc' = "down"
    BY <1>3 DEF ResetGuard
  <2>2. /\ op = "reset" /\ pc = "guard"
        /\ UNCHANGED <<claude, codexHooks, dirs, undone, creds, halted>>
    BY <1>3 DEF ResetGuard, At, claudeVars, harnessVars
  <2>3. CASE op' = None /\ pc' = "idle"
    BY <2>2, <2>3, SharedReturn DEF At
  <2>4. CASE UNCHANGED <<op, target, shared, plan>> /\ pc' = "down"
    BY <1>1, <2>2, <2>4 DEF SharedInv, HooksType, AgentThere, NoneConfigured, Lasting,
       ClaudeConfigured, DeinitStages, ResetStages, At
  <2>5. QED
    BY <2>1, <2>3, <2>4
<1>4. CASE ResetDown \/ ResetTrust
  <2>1. /\ op = "reset" /\ op' = "reset"
        /\ UNCHANGED <<plan, claude, codexHooks, dirs, undone, creds, halted>>
        /\ \/ pc = "down" /\ pc' = "trust"
           \/ pc = "trust" /\ pc' = "claude"
    BY <1>4 DEF ResetDown, ResetTrust, At, Go, claudeVars, harnessVars
  <2>2. QED
    BY <1>1, <2>1 DEF SharedInv, HooksType, AgentThere, NoneConfigured, Lasting, ClaudeConfigured,
       DeinitStages, ResetStages, At
<1>5. CASE ResetClaude
  <2>1. /\ op = "reset" /\ pc = "claude" /\ op' = "reset" /\ pc' = "hooks"
        /\ UNCHANGED <<plan, codexHooks, dirs, undone, creds, halted>>
        /\ claude' = Deconfigure(claude, Opt)
    BY <1>5 DEF ResetClaude, At, Go, harnessVars
  <2>2. /\ claude' \in Settings /\ ~ClaudeConfigured'
        /\ claude'.hooks["PermissionRequest"] = claude.hooks["PermissionRequest"]
    BY <1>1, <2>1, InstallationAssumption, DeconfigureTyped, ClaudeHooksStripped
    DEF HooksType, ClaudeConfigured
  <2>3. HooksType'
    BY <1>1, <2>1, <2>2 DEF HooksType
  <2>4. QED
    BY <1>1, <2>1, <2>2, <2>3
    DEF SharedInv, AgentThere, NoneConfigured, Lasting, DeinitStages, ResetStages, At
<1>6. CASE ResetHooks
  <2>1. /\ op = "reset" /\ pc = "hooks" /\ op' = "reset" /\ pc' = "delete"
        /\ UNCHANGED <<plan, claude, dirs, creds, halted>> /\ undone' = undone \ {"servers"}
        /\ codexHooks' = DeconfigureCodexHooks(codexHooks)
    BY <1>6 DEF ResetHooks, At, Go, claudeVars
  <2>2. /\ codexHooks' \in Hooks /\ ~HasKeydrisHooks(codexHooks')
        /\ codexHooks'["SessionEnd"] = codexHooks["SessionEnd"]
    BY <1>1, <2>1, CodexHooksStripped DEF HooksType
  <2>3. HooksType' /\ Lasting' = Lasting
    BY <1>1, <2>1, <2>2 DEF HooksType, Lasting
  <2>4. QED
    BY <1>1, <2>1, <2>2, <2>3
    DEF SharedInv, AgentThere, ClaudeConfigured, DeinitStages, ResetStages, At
<1>7. CASE ResetDelete
  <2>1. PICK f \in Foremost :
          /\ op = "reset" /\ pc = "delete" /\ UNCHANGED <<op, pc, claude, codexHooks, halted>>
          /\ dirs' = dirs \ {f} /\ undone' = undone \ {f} /\ plan' = plan \ {f}
    BY <1>7 DEF ResetDelete, At, claudeVars
  <2>2. HooksType' /\ Lasting' = Lasting \ {f}
    BY <1>1, <2>1 DEF HooksType, Lasting
  <2>3. QED
    BY <1>1, <2>1, <2>2 DEF SharedInv, AgentThere, ClaudeConfigured, DeinitStages, ResetStages, At
<1>8. CASE ResetEnds
  <2>1. /\ op = "reset" /\ pc = "delete" /\ plan = {} /\ op' = "reset" /\ pc' = "done"
        /\ halted' = FALSE /\ UNCHANGED <<claude, codexHooks, dirs, undone, creds>>
    BY <1>8 DEF ResetEnds, At, Go, claudeVars, harnessVars
  <2>2. NoneConfigured'
    BY <1>1, <2>1 DEF ResetStages, NoneConfigured, Lasting, ClaudeConfigured
  <2>3. HooksType'
    BY <1>1, <2>1 DEF HooksType
  <2>4. QED
    BY <2>1, <2>2, <2>3 DEF SharedInv, AgentThere, DeinitStages, ResetStages
<1>9. CASE ResetFails
  <2>1. /\ op' = None /\ pc' = "idle" /\ UNCHANGED <<claude, codexHooks, dirs, undone, creds>>
        /\ op = "reset" /\ halted' = (halted \/ pc = "delete")
    BY <1>9 DEF ResetFails, Return, claudeVars, harnessVars
  <2>2. (halted' = halted /\ ~At("reset", "delete")) \/ halted' = TRUE
    BY <1>1, <2>1 DEF HooksType, At
  <2>3. QED
    BY <2>1, <2>2, SharedReturn
<1>10. QED
  BY <1>2, <1>3, <1>4, <1>5, <1>6, <1>7, <1>8, <1>9 DEF ResetSteps

\* A kill may empty the files of hooks, which configures nothing.
LEMMA KillKeepsShared == SharedInv /\ KillCommand => SharedInv'
<1> SUFFICES ASSUME SharedInv, KillCommand PROVE SharedInv'
  OBVIOUS
<1>1. /\ op' = None /\ pc' = "idle" /\ UNCHANGED <<dirs, undone, creds>>
      /\ claude' = claude \/ claude' = EmptySettings
      /\ codexHooks' = codexHooks \/ codexHooks' = EmptySettings.hooks
      /\ halted' = (halted \/ At("reset", "delete"))
  BY DEF KillCommand, Cut
<1>2. EmptySettings \in Settings
  BY DEF EmptySettings, NoSandbox, Settings, Sandbox, Switch, Domains, Hooks, Env
<1>3. /\ EmptySettings.hooks \in Hooks /\ ~HasKeydrisHooks(EmptySettings.hooks)
      /\ EmptySettings.hooks["SessionEnd"] = {} /\ EmptySettings.hooks["PermissionRequest"] = {}
  BY DEF EmptySettings, Hooks, HasKeydrisHooks, Event
<1>4. HooksType'
  BY <1>1, <1>2, <1>3 DEF SharedInv, HooksType, DirsType
<1>5. NoneConfigured => NoneConfigured'
  BY <1>1, <1>3 DEF NoneConfigured, Lasting, ClaudeConfigured
<1>6. AgentThere'
  BY <1>1, <1>5 DEF SharedInv, AgentThere
<1>7. QED
  BY <1>1, <1>4, <1>6, InstallationAssumption DEF SharedInv, DeinitStages, ResetStages

\* Every step keeps SharedInv.
LEMMA SharedNext == SharedInv /\ [Next]_vars => SharedInv'
<1> SUFFICES ASSUME SharedInv, [Next]_vars PROVE SharedInv'
  OBVIOUS
<1>1. CASE InitSteps \/ DeinitSteps \/ ResetSteps
  BY <1>1, InitStepsKeepShared, DeinitStepsKeepShared, ResetStepsKeepShared
<1>2. CASE Done
  BY <1>2, SharedReturn DEF Done, Stop, Return, At, claudeVars, harnessVars
<1>3. CASE KillCommand
  BY <1>3, KillKeepsShared
<1>4. CASE Others
  BY <1>4, OthersKeepShared
<1>5. QED
  BY <1>1, <1>2, <1>3, <1>4, StepKinds

\* deinit.go:20: whatever commands repeat, fail or are killed, and whatever runs
\* beside them, an integration that is configured finds the agent that all of them
\* share, unless a reset was stopped while deleting or the launcher of the Codex app
\* made its directory again.
THEOREM SharedIsKept == Spec => []SharedSetup
<1>1. Init => SharedInv
  BY SharedInit
<1>2. SharedInv /\ [Next]_vars => SharedInv'
  BY SharedNext
<1>3. SharedInv => SharedSetup
  BY ConfiguredTerminals DEF SharedInv, AgentThere, SharedSetup
<1>4. QED
  BY <1>1, <1>2, <1>3, PTL DEF Spec

-----------------------------------------------------------------------------
(* What a deinit or a reset has removed stays away until it reports success. *)

AgentFiles == {"agent-id", "identity"}
Guarded == {"down", "trust", "claude", "hooks", "delete", "done"}

DeinitWork ==
  op = "deinit" =>
    /\ target \in Integrations
    /\ pc \in {"mcp", "shared", "done"} =>
         /\ target \in {"codex", "codex-desktop"} => target \notin Lasting
         /\ target = "codex" => ~HasKeydrisHooks(codexHooks)
         /\ target = "claude-code" => Untraced(claude, Opt) /\ ~ClaudeConfigured

\* The guard keeps new sessions and daemons out; what the preview did not list is
\* not there, but for what those bring back that were under way.
ResetWork ==
  op = "reset" =>
    /\ pc \in Guarded => guard
    /\ pc \in {"trust", "claude", "hooks", "delete", "done"} =>
         crossed \/ (daemon = None /\ dpc = "idle")
    /\ pc \in {"hooks", "delete", "done"} => Untraced(claude, Opt) /\ ~ClaudeConfigured
    /\ pc \in {"delete", "done"} =>
         /\ "servers" \in undone \/ claudeMcp.managed = {}
         /\ ~HasKeydrisHooks(codexHooks)
    /\ pc \in {"guard", "down", "trust", "claude", "hooks", "delete"} =>
         creds \cap AgentFiles \subseteq plan \cup undone
    /\ pc = "done" => Lasting = {} /\ creds \cap AgentFiles \subseteq undone

\* Which command is at work after a step of another.
LEMMA CommandSteps ==
  /\ InitSteps => op' \in {"init", None}
  /\ DeinitSteps => op' \in {"deinit", None}
  /\ ResetSteps => op' \in {"reset", None}
  /\ Done \/ KillCommand => op' = None
<1>1. InitSteps => op' \in {"init", None}
  BY DEF InitSteps, InitBegin, Begin, InitIdentity, LoadOrCreateCA, InitCACert, InitCAKey,
     InitBundle, InitConfigure, InitTrust, InitVerify, InitFails, Stop, At, Go, Return
<1>2. DeinitSteps => op' \in {"deinit", None}
  BY DEF DeinitSteps, DeinitBegin, Begin, DeinitRemove, DeinitMcp, DeinitShared,
     DeinitFails, Stop, At, Go, Return
<1>3. ResetSteps => op' \in {"reset", None}
  BY DEF ResetSteps, PlanReset, Begin, ResetGuard, ResetDown, ResetTrust, ResetClaude,
     ResetHooks, ResetDelete, ResetEnds, ResetFails, At, Go, Return
<1>4. Done \/ KillCommand => op' = None
  BY DEF Done, Stop, Return, KillCommand
<1>5. QED
  BY <1>1, <1>2, <1>3, <1>4

\* Once two creators of a CA have overlapped, nothing more is said of it.
LEMMA CrossedStays ==
  ASSUME crossed = TRUE, [Next]_vars
  PROVE  crossed' = TRUE
<1> USE DEF caVars
<1>1. CASE InitSteps
  BY <1>1 DEF InitSteps, InitBegin, InitIdentity, LoadOrCreateCA, InitCACert, InitCAKey,
     InitBundle, InitConfigure, InitTrust, InitVerify, InitFails, Stop
<1>2. CASE DeinitSteps \/ Done
  BY <1>2 DEF DeinitSteps, DeinitBegin, DeinitRemove, DeinitMcp, DeinitShared, DeinitFails,
     Done, Stop
<1>3. CASE ResetSteps
  BY <1>3 DEF ResetSteps, PlanReset, ResetGuard, ResetDown, ResetTrust, ResetClaude, ResetHooks,
     ResetDelete, ResetEnds, ResetFails
<1>4. CASE LauncherSteps
  BY <1>4 DEF LauncherSteps, Launch, LaunchSession, LaunchApply, LaunchPin, LaunchRecord,
     LaunchApp, AppQuits, RestoreSettings, RestorePin, RestoreFails, Forget, LaunchLeaves
<1>5. CASE SessionSteps
  BY <1>5 DEF SessionSteps, SessionStart, SessionWrites, CodexLaunch, CodexShim, RebuildRead,
     RebuildWrite, SessionEnds
<1>6. CASE DaemonSteps
  BY <1>6 DEF DaemonSteps, ProxyUp, DaemonCert, DaemonKey, ProxyDown
<1>7. CASE AnyCommand \/ RemoveGuard \/ SignIn \/ UNCHANGED vars
  BY <1>7 DEF AnyCommand, RemoveGuard, SignIn, vars
<1>8. CASE KillCommand \/ KillLauncher \/ KillDaemon \/ KillSession
  BY <1>8 DEF KillCommand, KillLauncher, KillDaemon, KillSession
<1>9. QED
  BY <1>1, <1>2, <1>3, <1>4, <1>5, <1>6, <1>7, <1>8 DEF Next

\* deinit.go:64-106, an integration is out of its files before anything else is
\* looked at.
LEMMA DeinitWorkNext ==
  ASSUME SharedInv, DeinitWork, [Next]_vars
  PROVE  DeinitWork'
<1> USE InstallationAssumption
<1>1. HooksType
  BY DEF SharedInv
<1>2. CASE DeinitSteps
  <2>1. ASSUME NEW t \in Integrations, DeinitBegin(t) PROVE DeinitWork'
    BY <2>1 DEF DeinitBegin, Begin, DeinitWork
  <2>2. CASE DeinitRemove
    <3>1. /\ op = "deinit" /\ op' = "deinit" /\ target' = target /\ target \in Integrations
          /\ pc' = "mcp"
      BY <2>2 DEF DeinitRemove, At, Go, DeinitWork
    <3>2. CASE target = "claude-code"
      <4>1. claude' = Deconfigure(claude, Opt)
        BY <2>2, <3>2 DEF DeinitRemove
      <4>2. Untraced(claude', Opt) /\ ~HasKeydrisHooks(claude'.hooks)
        BY <1>1, <4>1, DeconfigureUntraced, ClaudeHooksStripped DEF HooksType
      <4>3. QED
        BY <3>1, <3>2, <4>2 DEF DeinitWork, ClaudeConfigured
    <3>3. CASE target = "codex"
      <4>1. codexHooks' = DeconfigureCodexHooks(codexHooks) /\ dirs' = dirs \ {"codex"}
        BY <2>2, <3>3 DEF DeinitRemove, DeinitCodex
      <4>2. ~HasKeydrisHooks(codexHooks')
        BY <1>1, <4>1, CodexHooksStripped DEF HooksType
      <4>3. QED
        BY <3>1, <3>3, <4>1, <4>2 DEF DeinitWork, Lasting
    <3>4. CASE target = "codex-desktop"
      <4>1. dirs' = dirs \ {"codex-desktop"}
        BY <2>2, <3>4 DEF DeinitRemove
      <4>2. QED
        BY <3>1, <3>4, <4>1 DEF DeinitWork, Lasting
    <3>5. CASE target = "claude-desktop"
      BY <3>1, <3>5 DEF DeinitWork
    <3>6. QED
      BY <3>1, <3>2, <3>3, <3>4, <3>5
  <2>3. CASE DeinitMcp \/ DeinitShared
    <3>1. /\ op = "deinit" /\ op' = "deinit" /\ pc \in {"mcp", "shared"}
          /\ UNCHANGED <<target, claude, codexHooks, dirs, undone>>
      BY <2>3 DEF DeinitMcp, DeinitShared, At, Go, claudeVars, harnessVars
    <3>2. QED
      BY <3>1 DEF DeinitWork, Lasting, ClaudeConfigured
  <2>4. CASE DeinitFails
    BY <2>4 DEF DeinitFails, Stop, Return, DeinitWork
  <2>5. QED
    BY <1>2, <2>1, <2>2, <2>3, <2>4 DEF DeinitSteps
<1>3. CASE Others
  <2>1. UNCHANGED sharedState
    BY <1>1, <1>3, OthersRespect DEF HooksType, OthersLeave
  <2>2. QED
    BY <2>1 DEF sharedState, DeinitWork, ClaudeConfigured
<1>4. CASE InitSteps \/ ResetSteps \/ Done \/ KillCommand
  BY <1>4, CommandSteps DEF DeinitWork
<1>5. QED
  BY <1>2, <1>3, <1>4, StepKinds

\* The preview of a reset lists the agent and the identity.
LEMMA PlannedAgent == creds \cap AgentFiles \subseteq FilesThere
<1> SUFFICES ASSUME NEW f \in creds \cap AgentFiles PROVE f \in FilesThere
  OBVIOUS
<1>1. f = "agent-id" \/ f = "identity"
  BY DEF AgentFiles
<1>2. /\ DataFiles[1] = "agent-id" /\ DataFiles[9] = "identity"
      /\ 1 \in DOMAIN DataFiles /\ 9 \in DOMAIN DataFiles
  BY DEF DataFiles
<1>3. Exists(f)
  BY <1>1 DEF Exists
<1>4. QED
  BY <1>1, <1>2, <1>3 DEF FilesThere

\* reset.go:354-417: each stage does its part, and nothing undoes it that is not
\* counted.
LEMMA ResetWorkNext ==
  ASSUME CAInv, UserInv, SharedInv, ResetWork, [Next]_vars
  PROVE  ResetWork'
<1> USE InstallationAssumption DEF Guarded
<1>1. HooksType /\ ResetStages /\ FilesType /\ crossed \in BOOLEAN
  BY DEF SharedInv, UserInv, CAInv, CAType
<1>2. CASE PlanReset
  <2>1. op' = "reset" /\ pc' = "guard" /\ plan' = FilesThere'
    BY <1>2 DEF PlanReset, Begin
  <2>2. (creds \cap AgentFiles \subseteq FilesThere)'
    BY PlannedAgent, PTL
  <2>3. QED
    BY <2>1, <2>2 DEF ResetWork
<1>3. CASE ResetGuard
  <2>1. op = "reset" /\ pc = "guard" /\ UNCHANGED <<creds, undone>>
    BY <1>3 DEF ResetGuard, At
  <2>2. CASE op' = None
    BY <2>2 DEF ResetWork
  <2>3. CASE UNCHANGED <<op, target, shared, plan>> /\ pc' = "down" /\ guard' = TRUE
    BY <2>1, <2>3 DEF ResetWork
  <2>4. QED
    BY <1>3, <2>2, <2>3 DEF ResetGuard
<1>4. CASE ResetDown
  <2>1. /\ op = "reset" /\ pc = "down" /\ op' = "reset" /\ pc' = "trust"
        /\ UNCHANGED <<guard, plan, creds, undone, dpc>> /\ daemon' = None
        /\ crossed' = (crossed \/ dpc # "idle")
    BY <1>4 DEF ResetDown, At, Go
  <2>2. QED
    BY <2>1 DEF ResetWork
<1>5. CASE ResetTrust
  <2>1. /\ op = "reset" /\ pc = "trust" /\ op' = "reset" /\ pc' = "claude"
        /\ UNCHANGED <<guard, plan, creds, undone, daemon, dpc, crossed>>
    BY <1>5 DEF ResetTrust, At, Go
  <2>2. QED
    BY <2>1 DEF ResetWork
<1>6. CASE ResetClaude
  <2>1. /\ op = "reset" /\ pc = "claude" /\ op' = "reset" /\ pc' = "hooks"
        /\ UNCHANGED <<plan, creds, undone, guard, daemon, dpc, crossed>>
        /\ claude' = Deconfigure(claude, Opt)
    BY <1>6 DEF ResetClaude, At, Go, caVars
  <2>2. Untraced(claude', Opt) /\ ~ClaudeConfigured'
    BY <1>1, <2>1, DeconfigureUntraced, ClaudeHooksStripped DEF HooksType, ClaudeConfigured
  <2>3. QED
    BY <2>1, <2>2 DEF ResetWork
<1>7. CASE ResetHooks
  <2>1. /\ op = "reset" /\ pc = "hooks" /\ op' = "reset" /\ pc' = "delete"
        /\ UNCHANGED <<plan, claude, creds, guard, daemon, dpc, crossed>>
        /\ undone' = undone \ {"servers"}
        /\ codexHooks' = DeconfigureCodexHooks(codexHooks)
        /\ claudeMcp' = RemoveManagedMcpServers(claudeMcp)
    BY <1>7 DEF ResetHooks, At, Go, claudeVars, caVars
  <2>2. ~HasKeydrisHooks(codexHooks')
    BY <1>1, <2>1, CodexHooksStripped DEF HooksType
  <2>3. claudeMcp'.managed = {}
    BY <1>1, <2>1 DEF FilesType, RemoveManagedMcpServers, McpConfig
  <2>4. creds \cap AgentFiles \subseteq plan \cup undone'
    BY <2>1 DEF ResetWork, AgentFiles
  <2>5. QED
    BY <2>1, <2>2, <2>3, <2>4 DEF ResetWork, ClaudeConfigured
<1>8. CASE ResetDelete
  <2>1. PICK f \in Foremost :
          /\ op = "reset" /\ pc = "delete"
          /\ UNCHANGED <<op, pc, claude, claudeMcp, codexHooks, guard, daemon, dpc, crossed>>
          /\ creds' = creds \ {f} /\ plan' = plan \ {f} /\ undone' = undone \ {f}
    BY <1>8 DEF ResetDelete, At, claudeVars
  <2>2. f # "servers"
    BY <2>1 DEF Foremost, DataFiles
  <2>3. QED
    BY <2>1, <2>2 DEF ResetWork, ClaudeConfigured
<1>9. CASE ResetEnds
  <2>1. /\ op = "reset" /\ pc = "delete" /\ plan = {} /\ op' = "reset" /\ pc' = "done"
        /\ UNCHANGED <<claude, claudeMcp, codexHooks, dirs, undone, creds, guard, daemon, dpc,
                       crossed>>
    BY <1>9 DEF ResetEnds, At, Go, claudeVars, harnessVars, caVars
  <2>2. QED
    BY <1>1, <2>1 DEF ResetStages, ResetWork, ClaudeConfigured, Lasting
<1>10. CASE ResetFails
  BY <1>10 DEF ResetFails, Return, ResetWork
<1>11. CASE Others
  <2>1. OthersLeave
    BY <1>1, <1>11, OthersRespect DEF HooksType
  <2>2. crossed => crossed'
    BY <1>1, CrossedStays
  <2>3. SUFFICES ASSUME op = "reset", op' = "reset" PROVE ResetWork'
    BY <2>1 DEF OthersLeave, sharedState, ResetWork
  <2>4. /\ UNCHANGED <<pc, plan, claude, codexHooks, Lasting>>
        /\ creds' \subseteq creds \cup undone' /\ undone \ {"ca-bundle.crt"} \subseteq undone'
        /\ claudeMcp' = claudeMcp \/ "servers" \in undone'
    BY <2>1, <2>3 DEF OthersLeave, sharedState
  <2>5. /\ guard => guard'
        /\ guard /\ dpc = "idle" => dpc' = "idle" /\ daemon' \in {daemon, None}
    BY <2>1, <2>3 DEF OthersLeave
  <2>6. creds \cap AgentFiles \subseteq plan \cup undone =>
          creds' \cap AgentFiles \subseteq plan \cup undone'
    BY <2>4 DEF AgentFiles
  <2>7. creds \cap AgentFiles \subseteq undone => creds' \cap AgentFiles \subseteq undone'
    BY <2>4 DEF AgentFiles
  <2>8. "servers" \in undone => "servers" \in undone'
    BY <2>4
  <2>9. QED
    BY <2>2, <2>3, <2>4, <2>5, <2>6, <2>7, <2>8 DEF ResetWork, ClaudeConfigured
<1>12. CASE InitSteps \/ DeinitSteps \/ Done \/ KillCommand
  BY <1>12, CommandSteps DEF ResetWork
<1>13. QED
  BY <1>2, <1>3, <1>4, <1>5, <1>6, <1>7, <1>8, <1>9, <1>10, <1>11, <1>12, StepKinds
  DEF ResetSteps

\* All of it.
RemovedInv == CAInv /\ UserInv /\ SharedInv /\ DeinitWork /\ ResetWork

\* It holds at first and every step keeps it.
LEMMA RemovedInvariant == Spec => []RemovedInv
<1>1. Init => RemovedInv
  BY CAInit, UserInit, SharedInit, InstallationAssumption
  DEF Init, RemovedInv, DeinitWork, ResetWork
<1>2. RemovedInv /\ [Next]_vars => RemovedInv'
  BY CANext, UserNext, SharedNext, DeinitWorkNext, ResetWorkNext DEF RemovedInv
<1>3. QED
  BY <1>1, <1>2, PTL DEF Spec

\* reset.go:377-417, deinit.go:64-106: a deinit or reset that reports success
\* leaves nothing that an agent would still act on, except what a session, a
\* sign-in or a daemon that started before wrote behind its back.
THEOREM RemovedStaysAway == Spec => []RemovedIsGone
<1>1. RemovedInv => RemovedIsGone
  <2> SUFFICES ASSUME RemovedInv PROVE RemovedIsGone
    OBVIOUS
  <2>1. At("deinit", "done") =>
          /\ target \notin {"claude-desktop"} \cup undone => ~Configured(target)
          /\ target = "claude-code" => Untraced(claude, Opt)
    <3>1. SUFFICES ASSUME op = "deinit", pc = "done" PROVE
            /\ target \notin {"claude-desktop"} \cup undone => ~Configured(target)
            /\ target = "claude-code" => Untraced(claude, Opt)
      BY DEF At
    <3>2. /\ target \in {"claude-code", "codex", "codex-desktop", "claude-desktop"}
          /\ target \in {"codex", "codex-desktop"} => target \notin Lasting
          /\ target = "codex" => ~HasKeydrisHooks(codexHooks)
          /\ target = "claude-code" => Untraced(claude, Opt) /\ ~ClaudeConfigured
      BY <3>1, InstallationAssumption DEF RemovedInv, DeinitWork
    <3>3. QED
      BY <3>2 DEF Configured, Lasting
  <2>2. At("reset", "done") =>
          /\ Lasting = {} /\ ~ClaudeConfigured /\ ~HasKeydrisHooks(codexHooks)
          /\ Untraced(claude, Opt) /\ (crossed \/ daemon = None)
          /\ "servers" \in undone \/ claudeMcp.managed = {}
          /\ creds \cap AgentFiles \subseteq undone
    BY DEF RemovedInv, ResetWork, At
  <2>3. At("reset", "done") =>
          \A t \in {"claude-code", "codex", "codex-desktop"} \ undone : ~Configured(t)
    BY <2>2, ConfiguredTerminals DEF NoneConfigured, RemovedInv, SharedInv
  <2>4. QED
    BY <2>1, <2>2, <2>3 DEF RemovedIsGone, AgentFiles
<1>2. QED
  BY <1>1, RemovedInvariant, PTL

-----------------------------------------------------------------------------
(* The daemon's CA, the bundle and what an init has done so far.             *)

\* Claude Code's tools are pointed at the bundle.
Pointed == \E k \in CAEnvKeys : claude.env[k] = Opt.ca

\* The bundle was written by a session that had read an earlier CA.
Stale == "ca-bundle.crt" \in undone

\* The daemon signs with the CA on disk, whose files are there.
DaemonServes == daemon # None => cert = daemon /\ key # None

\* A certificate and a key are of one CA when both can be read, but while they
\* are written.
Paired ==
  Whole(cert) /\ Whole(key) /\ ~At("init", "ca_key") /\ dpc # "key" => key = cert

\* Tools are pointed at a bundle of the CA on disk, whose files are there.
BundleServes ==
  Pointed => bundle \in {cert, Torn} \/ Stale
Needed ==
  Pointed => cert # None /\ key # None

AfterBundle == {"configure", "trust", "verify", "done"}

\* Who creates a CA is alone and needed by nobody yet; an init that has its CA
\* keeps it.
InitCreates ==
  /\ Creating => ~Pointed /\ dpc = "idle" /\ fresh # None
  /\ At("init", "ca_cert") => CAMissing
  /\ At("init", "ca_key") => cert = fresh
  /\ op = "init" /\ pc \in AfterCA => Whole(cert) /\ key = cert /\ dpc = "idle"
  /\ op = "init" /\ pc \in AfterBundle => bundle = cert \/ Stale
DaemonCreates ==
  /\ dpc # "idle" => ~Pointed /\ daemon = None
  /\ dpc = "cert" => CAMissing
  /\ dpc = "key" => cert = dca

\* All of it, said of a time when no two creators of a CA have overlapped.
OneCA == DaemonServes /\ Paired /\ BundleServes /\ Needed /\ InitCreates /\ DaemonCreates

\* What init's "configure" is for.
Written ==
  /\ target = "claude-code" => ClaudeConfigured /\ \A k \in CAEnvKeys : claude.env[k] = Opt.ca
  /\ target = "codex" => ~HasKeydrisHooks(codexHooks)
  /\ target \in {"codex", "codex-desktop"} => target \in dirs

\* Where an init stands.
InitWork ==
  op = "init" =>
    /\ target \in Integrations
    /\ pc # "identity" => "identity" \in creds
    /\ pc \in {"trust", "verify", "done"} => Written

ServedInv == crossed = TRUE \/ OneCA

caFiles == <<cert, key, bundle, fresh, dpc, dca>>

\* The parts when a step leaves the CA alone.
LEMMA ServedFrame ==
  ASSUME OneCA, UNCHANGED caFiles, Pointed' => Pointed,
         daemon' \in {daemon, None}, Stale => Stale',
         \/ op' # "init" /\ ~At("init", "ca_key")
         \/ op' = "init" /\ pc' \in {"identity", "ca"} /\ ~At("init", "ca_key")
         \/ op' = op /\ op = "init" /\ pc \in AfterBundle /\ pc' \in AfterBundle
         \/ UNCHANGED <<op, pc>>
  PROVE  OneCA'
<1> USE DEF OneCA, caFiles
<1>1. DaemonServes' /\ Paired' /\ BundleServes' /\ Needed'
  BY DEF DaemonServes, Paired, BundleServes, Needed, At, AfterBundle
<1>2. InitCreates' /\ DaemonCreates'
  BY DEF InitCreates, DaemonCreates, Creating, CAMissing, At, AfterCA, AfterBundle, Whole
<1>3. QED
  BY <1>1, <1>2

\* What Deconfigure and a cut write do to the pointers.
LEMMA Unpointed ==
  ASSUME NEW s \in Settings
  PROVE  /\ \A k \in CAEnvKeys : Deconfigure(s, Opt).env[k] # Opt.ca
         /\ \A k \in CAEnvKeys : EmptySettings.env[k] # Opt.ca
<1>1. Opt \in Options
  BY InstallationAssumption
<1>2. \A k \in CAEnvKeys : Deconfigure(s, Opt).env[k] # Opt.ca
  BY <1>1, DeconfigureUntraced DEF Untraced
<1>3. \A k \in CAEnvKeys : EmptySettings.env[k] # Opt.ca
  BY <1>1 DEF EmptySettings, Options
<1>4. QED
  BY <1>2, <1>3

\* What Configure writes.
LEMMA ConfigurePoints ==
  ASSUME NEW s \in Settings
  PROVE  /\ \A k \in CAEnvKeys : Configure(s, Opt).env[k] = Opt.ca
         /\ HasKeydrisHooks(Configure(s, Opt).hooks)
<1>1. Opt \in Options /\ s.hooks \in Hooks
  BY InstallationAssumption DEF Settings
<1>2. \A k \in CAEnvKeys : Configure(s, Opt).env[k] = Opt.ca
  BY DEF Configure, MergeCAEnv
<1>3. /\ Configure(s, Opt).hooks["PreToolUse"]
           = StripKeydrisHandlers(s.hooks["PreToolUse"]) \cup {{Opt.pre}}
      /\ Opt.pre \in KeydrisHandler
  <2>1. MergePreToolUseHook(MergeHooks(s.hooks, Opt.start, Opt.end), Opt.pre)["PreToolUse"]
          = StripKeydrisHandlers(s.hooks["PreToolUse"]) \cup {{Opt.pre}}
    BY <1>1, ConfiguredHooks
  <2>2. QED
    BY <1>1, <2>1 DEF Configure, Options
<1>4. {Opt.pre} \in Configure(s, Opt).hooks["PreToolUse"]
  BY <1>3
<1>5. "PreToolUse" \in Event \ {"Other"}
  BY DEF Event
<1>6. QED
  BY <1>2, <1>3, <1>4, <1>5 DEF HasKeydrisHooks

\* init.go:217-246, what an init does to the integration's own files.
LEMMA InitWorkNext ==
  ASSUME UserInv, SharedInv, InitWork, [Next]_vars
  PROVE  InitWork'
<1> USE InstallationAssumption
<1>1. HooksType /\ claude \in Settings
  BY DEF SharedInv, HooksType
<1>2. CASE InitSteps
  <2>1. ASSUME NEW t \in Integrations, InitBegin(t) PROVE InitWork'
    BY <2>1 DEF InitBegin, Begin, InitWork
  <2>2. CASE InitIdentity
    BY <2>2 DEF InitIdentity, At, Go, Return, InitWork
  <2>3. CASE LoadOrCreateCA
    BY <2>3 DEF LoadOrCreateCA, At, Go, Return, InitWork
  <2>4. CASE InitCACert \/ InitCAKey \/ InitBundle
    <3>1. /\ op = "init" /\ op' = "init" /\ pc # "identity" /\ UNCHANGED <<target, creds>>
          /\ pc' \in {"ca_key", "bundle", "configure"}
      BY <2>4 DEF InitCACert, InitCAKey, InitBundle, At, Go
    <3>2. QED
      BY <3>1 DEF InitWork
  <2>5. CASE InitConfigure
    <3>1. /\ op = "init" /\ pc = "configure" /\ op' = "init" /\ pc' = "trust"
          /\ UNCHANGED <<target, creds>>
      BY <2>5 DEF InitConfigure, At, Go
    <3>2. target = "claude-code" =>
            ClaudeConfigured' /\ \A k \in CAEnvKeys : claude'.env[k] = Opt.ca
      <4>1. target = "claude-code" => claude' = Configure(claude, Opt)
        BY <2>5 DEF InitConfigure
      <4>2. QED
        BY <1>1, <4>1, ConfigurePoints DEF ClaudeConfigured
    <3>3. target = "codex" => ~HasKeydrisHooks(codexHooks')
      <4>1. target = "codex" => codexHooks' = DeconfigureCodexHooks(codexHooks)
        BY <2>5 DEF InitConfigure
      <4>2. QED
        BY <1>1, <4>1, CodexHooksStripped DEF HooksType
    <3>4. dirs' = dirs \cup ({target} \cap {"codex", "codex-desktop"})
      BY <2>5 DEF InitConfigure
    <3>5. QED
      BY <3>1, <3>2, <3>3, <3>4 DEF InitWork, Written
  <2>6. CASE InitTrust \/ InitVerify
    <3>1. /\ op = "init" /\ op' = "init" /\ pc \in {"trust", "verify"}
          /\ UNCHANGED <<target, creds, claude, codexHooks, dirs>>
      BY <2>6 DEF InitTrust, InitVerify, At, Go, claudeVars, harnessVars
    <3>2. QED
      BY <3>1 DEF InitWork, Written, ClaudeConfigured
  <2>7. CASE InitFails
    BY <2>7 DEF InitFails, Stop, Return, InitWork
  <2>8. QED
    BY <1>2, <2>1, <2>2, <2>3, <2>4, <2>5, <2>6, <2>7 DEF InitSteps
<1>3. CASE Others
  <2>1. /\ UNCHANGED <<claude, codexHooks, op, pc, target>> /\ dirs \subseteq dirs'
        /\ creds \subseteq creds'
    BY <1>1, <1>3, OthersRespect DEF HooksType, OthersLeave, sharedState
  <2>2. QED
    BY <2>1 DEF InitWork, Written, ClaudeConfigured
<1>4. CASE DeinitSteps \/ ResetSteps \/ Done \/ KillCommand
  BY <1>4, CommandSteps DEF InitWork
<1>5. QED
  BY <1>2, <1>3, <1>4, StepKinds

\* init and the CA.
LEMMA InitStepsKeepServed ==
  ASSUME CAInv, InitWork, OneCA, InitSteps
  PROVE  ServedInv'
<1> USE InstallationAssumption
<1>1. /\ made \in Nat /\ crossed \in BOOLEAN /\ dpc \in {"idle", "cert", "key"}
      /\ Creating => fresh \in Nat
  BY DEF CAInv, CAType
<1>2. ASSUME NEW t \in Integrations, InitBegin(t) PROVE ServedInv'
  BY <1>2, ServedFrame
  DEF InitBegin, Begin, claudeVars, caVars, caFiles, Pointed, Stale, At, ServedInv
<1>3. CASE InitIdentity
  <2>1. /\ UNCHANGED <<claude, caFiles, daemon>> /\ (Stale => Stale') /\ At("init", "identity")
        /\ \/ op' = None
           \/ op' = "init" /\ pc' = "ca"
    BY <1>3 DEF InitIdentity, At, Go, Return, claudeVars, caVars, caFiles, Stale
  <2>2. QED
    BY <2>1, ServedFrame DEF Pointed, At, ServedInv
<1>4. CASE LoadOrCreateCA
  <2>0. /\ op = "init" /\ pc = "ca" /\ crossed' = (crossed \/ dpc # "idle")
        /\ UNCHANGED <<claude, undone, cert, key, bundle, daemon, dpc, dca>>
    BY <1>4 DEF LoadOrCreateCA, At, claudeVars
  <2>1. CASE dpc # "idle"
    BY <1>1, <2>0, <2>1 DEF ServedInv
  <2>2. CASE dpc = "idle" /\ CALoads /\ UNCHANGED <<made, fresh>> /\ Go("bundle")
    <3>1. key = cert /\ Whole(cert) /\ op' = "init" /\ pc' = "bundle"
      BY <2>0, <2>2 DEF OneCA, Paired, CALoads, At, Go
    <3>2. QED
      BY <2>0, <2>2, <3>1
      DEF ServedInv, OneCA, DaemonServes, Paired, BundleServes, Needed, Pointed, Stale,
          InitCreates, DaemonCreates, Creating, At, AfterCA, AfterBundle, Whole
  <2>3. CASE dpc = "idle" /\ CAMissing /\ fresh' = made + 1 /\ Go("ca_cert")
    <3>1. ~Pointed /\ op' = "init" /\ pc' = "ca_cert"
      BY <2>0, <2>3 DEF OneCA, Needed, CAMissing, Go
    <3>2. fresh' # None
      BY <1>1, <2>3
    <3>3. QED
      BY <2>0, <2>3, <3>1, <3>2
      DEF ServedInv, OneCA, DaemonServes, Paired, BundleServes, Needed, Pointed, Stale,
          InitCreates, DaemonCreates, Creating, CAMissing, At, AfterCA, AfterBundle, Whole
  <2>4. CASE Return /\ UNCHANGED <<made, fresh>>
    BY <2>0, <2>4, ServedFrame DEF Return, Pointed, Stale, caFiles, At, ServedInv
  <2>5. QED
    BY <1>1, <1>4, <2>1, <2>2, <2>3, <2>4 DEF LoadOrCreateCA
<1>5. CASE InitCACert
  <2>1. /\ op = "init" /\ pc = "ca_cert" /\ op' = "init" /\ pc' = "ca_key" /\ cert' = fresh
        /\ UNCHANGED <<claude, undone, key, bundle, daemon, dpc, dca, fresh, crossed>>
    BY <1>5 DEF InitCACert, At, Go, claudeVars
  <2>2. CAMissing /\ ~Pointed /\ dpc = "idle" /\ daemon = None
    BY <2>1 DEF OneCA, InitCreates, Creating, At, DaemonServes, CAMissing
  <2>3. QED
    BY <2>1, <2>2
    DEF ServedInv, OneCA, DaemonServes, Paired, BundleServes, Needed, Pointed, Stale,
        InitCreates, DaemonCreates, Creating, At, AfterCA, AfterBundle
<1>6. CASE InitCAKey
  <2>1. /\ op = "init" /\ pc = "ca_key" /\ op' = "init" /\ pc' = "bundle" /\ key' = fresh
        /\ UNCHANGED <<claude, undone, cert, bundle, daemon, dpc, dca, crossed>>
    BY <1>6 DEF InitCAKey, At, Go, claudeVars
  <2>2. cert = fresh /\ ~Pointed /\ dpc = "idle" /\ fresh \in Nat
    BY <1>1, <2>1 DEF OneCA, InitCreates, Creating, At
  <2>3. QED
    BY <2>1, <2>2
    DEF ServedInv, OneCA, DaemonServes, Paired, BundleServes, Needed, Pointed, Stale,
        InitCreates, DaemonCreates, Creating, At, AfterCA, AfterBundle, Whole
<1>7. CASE InitBundle
  <2>1. /\ op = "init" /\ pc = "bundle" /\ op' = "init" /\ pc' = "configure"
        /\ bundle' \in ReadCert
        /\ UNCHANGED <<claude, cert, key, daemon, dpc, dca, fresh, crossed>>
    BY <1>7 DEF InitBundle, BuildCABundle, At, Go, claudeVars
  <2>2. Whole(cert) /\ key = cert /\ dpc = "idle" /\ bundle' = cert
    BY <2>1 DEF OneCA, InitCreates, AfterCA, ReadCert
  <2>3. QED
    BY <2>1, <2>2
    DEF ServedInv, OneCA, DaemonServes, Paired, BundleServes, Needed, Pointed,
        InitCreates, DaemonCreates, Creating, At, AfterCA, AfterBundle, Whole
<1>8. CASE InitConfigure
  <2>1. /\ op = "init" /\ pc = "configure" /\ op' = "init" /\ pc' = "trust"
        /\ UNCHANGED <<caFiles, daemon, crossed>> /\ Stale' = Stale
    <3>1. undone' = undone \ {target} /\ target # "ca-bundle.crt"
      BY <1>8 DEF InitConfigure, InitWork, At
    <3>2. QED
      BY <1>8, <3>1 DEF InitConfigure, At, Go, caVars, caFiles, Stale
  <2>2. /\ Whole(cert) /\ key = cert /\ dpc = "idle" /\ (bundle = cert \/ Stale)
    BY <2>1 DEF OneCA, InitCreates, AfterCA, AfterBundle
  <2>3. QED
    BY <2>1, <2>2
    DEF ServedInv, OneCA, DaemonServes, Paired, BundleServes, Needed, caFiles,
        InitCreates, DaemonCreates, Creating, At, AfterCA, AfterBundle, Whole
<1>9. CASE InitTrust \/ InitVerify
  <2>1. /\ op = "init" /\ op' = "init" /\ pc \in AfterBundle /\ pc' \in AfterBundle
        /\ UNCHANGED <<claude, undone, caFiles, daemon>>
    BY <1>9 DEF InitTrust, InitVerify, At, Go, claudeVars, caVars, caFiles, AfterBundle
  <2>2. QED
    BY <2>1, ServedFrame DEF Pointed, Stale, ServedInv
<1>10. CASE InitFails
  <2>1. /\ op' = None /\ pc # "ca_key" /\ UNCHANGED <<claude, undone, caFiles, daemon>>
    BY <1>10 DEF InitFails, Stop, Return, claudeVars, caVars, caFiles
  <2>2. QED
    BY <2>1, ServedFrame DEF Pointed, Stale, At, ServedInv
<1>11. QED
  BY <1>2, <1>3, <1>4, <1>5, <1>6, <1>7, <1>8, <1>9, <1>10 DEF InitSteps

\* Removals point nobody at anything, and a reset removes the files of a CA only
\* when the daemon is down and Claude Code was seen to.
LEMMA RemovalsKeepServed ==
  ASSUME CAInv, UserInv, DeinitWork, ResetWork, OneCA, DeinitSteps \/ ResetSteps
  PROVE  ServedInv'
<1> USE InstallationAssumption
<1>1. op' # "init" /\ ~At("init", "ca_key")
  BY CommandSteps
  DEF At, DeinitSteps, DeinitBegin, Begin, DeinitRemove, DeinitMcp, DeinitShared,
      DeinitFails, ResetSteps, PlanReset, ResetGuard, ResetDown, ResetTrust, ResetClaude,
      ResetHooks, ResetDelete, ResetEnds, ResetFails
<1>2. claude' \in {claude, Deconfigure(claude, Opt)} /\ claude \in Settings
  <2>1. DeinitSteps => claude' \in {claude, Deconfigure(claude, Opt)}
    BY DEF DeinitSteps, DeinitBegin, DeinitRemove, DeinitMcp, DeinitShared,
       DeinitFails, Stop, claudeVars
  <2>2. ResetSteps => claude' \in {claude, Deconfigure(claude, Opt)}
    BY DEF ResetSteps, PlanReset, ResetGuard, ResetDown, ResetTrust, ResetClaude,
       ResetHooks, ResetDelete, ResetEnds, ResetFails, claudeVars
  <2>3. QED
    BY <2>1, <2>2 DEF UserInv, FilesType
<1>3. Pointed' => Pointed
  BY <1>2, Unpointed DEF Pointed
<1>4. CASE ResetDelete
  <2>1. /\ op = "reset" /\ pc = "delete"
        /\ UNCHANGED <<claude, daemon, dpc, dca, fresh, crossed>>
        /\ cert' \in {cert, None} /\ key' \in {key, None}
    BY <1>4 DEF ResetDelete, At, Deleted, claudeVars
  <2>2. (crossed \/ (daemon = None /\ dpc = "idle")) /\ ~Pointed'
    BY <2>1 DEF ResetWork, Untraced, Pointed
  <2>3. crossed \in BOOLEAN
    BY DEF CAInv, CAType
  <2>4. QED
    BY <1>1, <2>1, <2>2, <2>3
    DEF ServedInv, OneCA, DaemonServes, Paired, BundleServes, Needed,
        InitCreates, DaemonCreates, Creating, CAMissing, Whole, At
<1>5. CASE ~ResetDelete
  <2>1. UNCHANGED caFiles /\ daemon' \in {daemon, None} /\ (Stale => Stale')
    <3>1. CASE DeinitSteps
      <4>1. UNCHANGED <<caFiles, daemon>>
        BY <3>1 DEF DeinitSteps, DeinitBegin, DeinitRemove, DeinitMcp, DeinitShared,
           DeinitFails, Stop, caVars, caFiles
      <4>2. undone' = undone \/ (DeinitRemove /\ undone' = undone \ {target})
        BY <3>1 DEF DeinitSteps, DeinitBegin, DeinitRemove, DeinitMcp, DeinitShared,
           DeinitFails, Stop
      <4>3. DeinitRemove => target # "ca-bundle.crt"
        BY DEF DeinitRemove, At, DeinitWork
      <4>4. QED
        BY <4>1, <4>2, <4>3 DEF Stale
    <3>2. CASE ResetSteps
      BY <1>5, <3>2 DEF ResetSteps, PlanReset, ResetGuard, ResetDown, ResetTrust, ResetClaude,
         ResetHooks, ResetEnds, ResetFails, caVars, caFiles, Stale
    <3>3. QED
      BY <3>1, <3>2
  <2>2. QED
    BY <1>1, <1>3, <2>1, ServedFrame DEF ServedInv
<1>6. QED
  BY <1>4, <1>5

\* A daemon makes a CA only when nobody needs the one that is incomplete.
LEMMA DaemonsKeepServed ==
  ASSUME CAInv, OneCA, DaemonSteps \/ KillDaemon
  PROVE  ServedInv'
<1> USE InstallationAssumption DEF ServedInv
<1>1. /\ UNCHANGED <<claude, undone, bundle, fresh, op, pc>> /\ crossed \in BOOLEAN
      /\ dpc \in {"idle", "cert", "key"} /\ (dpc # "idle" => dca \in Nat)
  BY DEF DaemonSteps, ProxyUp, DaemonCert, DaemonKey, ProxyDown, KillDaemon, claudeVars, cmdVars,
     CAInv, CAType
<1>2. Pointed' = Pointed /\ Stale' = Stale
  BY <1>1 DEF Pointed, Stale
<1>3. CASE ProxyUp
  <2>1. daemon = None /\ dpc = "idle" /\ UNCHANGED <<cert, key>>
    BY <1>3 DEF ProxyUp
  <2>2. CASE CALoads /\ daemon' = cert /\ UNCHANGED <<dpc, dca, made, crossed>>
    BY <1>1, <1>2, <2>1, <2>2
    DEF OneCA, DaemonServes, Paired, BundleServes, Needed, InitCreates, DaemonCreates,
        Creating, CAMissing, CALoads, Whole, At
  <2>3. CASE /\ CAMissing /\ dpc' = "cert" /\ UNCHANGED daemon
             /\ crossed' = (crossed \/ (op = "init" /\ pc \in {"ca_cert", "ca_key"}))
    <3>1. CASE Creating
      BY <1>1, <2>3, <3>1 DEF Creating
    <3>2. CASE ~Creating
      <4>1. ~Pointed /\ ~(op = "init" /\ pc \in AfterCA)
        BY <2>3 DEF OneCA, Needed, InitCreates, CAMissing, Whole
      <4>2. QED
        BY <1>1, <1>2, <2>1, <2>3, <3>2, <4>1
        DEF OneCA, DaemonServes, Paired, BundleServes, Needed, InitCreates, DaemonCreates,
            Creating, CAMissing, Whole, At, AfterCA, AfterBundle
    <3>3. QED
      BY <3>1, <3>2
  <2>4. QED
    BY <1>3, <2>2, <2>3 DEF ProxyUp
<1>4. CASE DaemonCert \/ DaemonKey \/ KillDaemon
  <2>1. /\ dpc # "idle" /\ ~Pointed /\ daemon = None /\ ~Creating
        /\ ~(op = "init" /\ pc \in AfterCA) /\ (dpc = "cert" => CAMissing)
        /\ (dpc = "key" => cert = dca)
    BY <1>4
    DEF DaemonCert, DaemonKey, KillDaemon, OneCA, InitCreates, DaemonCreates
  <2>2. CASE DaemonCert
    <3>1. dpc = "cert" /\ dpc' = "key" /\ cert' = dca /\ UNCHANGED <<key, dca, daemon, crossed>>
      BY <2>2 DEF DaemonCert
    <3>2. QED
      BY <1>1, <1>2, <2>1, <3>1
      DEF OneCA, DaemonServes, Paired, BundleServes, Needed, InitCreates, DaemonCreates,
          Creating, At, AfterCA, AfterBundle
  <2>3. CASE DaemonKey
    <3>1. /\ dpc = "key" /\ dpc' = "idle" /\ key' = dca /\ daemon' = dca
          /\ UNCHANGED <<cert, crossed>>
      BY <2>3 DEF DaemonKey
    <3>2. QED
      BY <1>1, <1>2, <2>1, <3>1
      DEF OneCA, DaemonServes, Paired, BundleServes, Needed, InitCreates, DaemonCreates,
          Creating, At, AfterCA, AfterBundle
  <2>4. CASE KillDaemon
    <3>1. /\ dpc' = "idle" /\ daemon' = daemon
          /\ cert' = cert \/ (cert' = Torn /\ dpc = "cert")
          /\ key' = key \/ (key' = Torn /\ dpc = "key")
          /\ crossed' = (crossed \/ (dpc = "key" /\ key # None))
      BY <2>4 DEF KillDaemon, Cut
    <3>2. Paired' \/ crossed' = TRUE
      BY <1>1, <2>1, <3>1 DEF Paired, CAMissing, Whole, OneCA
    <3>3. QED
      BY <1>1, <1>2, <2>1, <3>1, <3>2
      DEF OneCA, DaemonServes, BundleServes, Needed, InitCreates, DaemonCreates,
          Creating, At, AfterCA, AfterBundle
  <2>5. QED
    BY <1>4, <2>2, <2>3, <2>4
<1>5. CASE ProxyDown
  <2>1. daemon' = None /\ UNCHANGED caFiles
    BY <1>1, <1>5 DEF ProxyDown, caFiles
  <2>2. QED
    BY <1>1, <1>2, <2>1, ServedFrame
<1>6. QED
  BY <1>3, <1>4, <1>5 DEF DaemonSteps

\* Sessions may write the bundle anew: of the CA on disk, or one that is gone.
LEMMA SessionsKeepServed ==
  ASSUME OneCA, Others, ~DaemonSteps, ~KillDaemon
  PROVE  ServedInv'
<1> USE InstallationAssumption DEF ServedInv
<1>1. CASE RebuildWrite \/ KillSession
  <2>1. /\ UNCHANGED <<claude, op, pc, cert, key, fresh, daemon, dpc, dca>>
        /\ bundle' = cert \/ Stale'
    BY <1>1 DEF RebuildWrite, KillSession, claudeVars, cmdVars, Stale
  <2>2. DaemonServes' /\ Paired' /\ BundleServes' /\ Needed'
    BY <2>1 DEF OneCA, DaemonServes, Paired, BundleServes, Needed, Pointed, At
  <2>3. InitCreates' /\ DaemonCreates'
    BY <2>1 DEF OneCA, InitCreates, DaemonCreates, Creating, CAMissing, Pointed, At, Whole
  <2>4. QED
    BY <2>2, <2>3 DEF OneCA
<1>2. CASE ~RebuildWrite /\ ~KillSession
  <2>1. UNCHANGED <<caVars, claudeVars, cmdVars>> /\ undone \subseteq undone'
    <3>1. CASE LauncherSteps
      BY <3>1 DEF LauncherSteps, Launch, LaunchSession, FollowPolicy, LaunchApply, LaunchPin,
         LaunchRecord, LaunchApp, AppQuits, RestoreSettings, RestorePin, RestoreFails, Forget,
         LaunchLeaves
    <3>2. CASE SessionSteps
      BY <1>2, <3>2 DEF SessionSteps, SessionStart, SessionWrites, FollowPolicy, CodexLaunch,
         CodexShim, RebuildRead, SessionEnds
    <3>3. CASE AnyCommand \/ RemoveGuard \/ SignIn \/ KillLauncher \/ UNCHANGED vars
      BY <3>3 DEF AnyCommand, RemoveGuard, SignIn, KillLauncher, vars
    <3>4. QED
      BY <1>2, <3>1, <3>2, <3>3 DEF Others
  <2>2. QED
    BY <2>1, ServedFrame DEF caVars, claudeVars, cmdVars, caFiles, Pointed, Stale
<1>3. QED
  BY <1>1, <1>2

\* A cut write leaves an empty file, of the one that was being written.
LEMMA KillKeepsServed ==
  ASSUME CAInv, UserInv, OneCA, KillCommand
  PROVE  ServedInv'
<1> USE InstallationAssumption DEF ServedInv
<1>1. /\ op' = None /\ UNCHANGED <<daemon, dpc, dca, undone>>
      /\ cert' = cert \/ (cert' = Torn /\ At("init", "ca_cert"))
      /\ key' = key \/ (key' = Torn /\ At("init", "ca_key"))
      /\ bundle' \in {bundle, Torn}
      /\ crossed' = (crossed \/ (At("init", "ca_key") /\ key # None))
      /\ claude' \in {claude, EmptySettings} /\ crossed \in BOOLEAN
  BY DEF KillCommand, Cut, CAInv, CAType
<1>2. Pointed' => Pointed
  BY <1>1, Unpointed DEF Pointed, UserInv, FilesType
<1>3. CASE Creating
  <2>1. ~Pointed /\ dpc = "idle" /\ (At("init", "ca_cert") => CAMissing)
    BY <1>3 DEF OneCA, InitCreates
  <2>2. CASE crossed' = TRUE
    BY <2>2
  <2>3. CASE crossed' # TRUE
    <3>1. CAMissing
      BY <1>1, <1>3, <2>1, <2>3 DEF Creating, At, CAMissing
    <3>2. daemon = None
      BY <3>1 DEF CAMissing, OneCA, DaemonServes
    <3>3. Paired'
      BY <1>1, <2>1, <3>1 DEF Paired, Whole, CAMissing, At
    <3>4. QED
      BY <1>1, <1>2, <2>1, <3>2, <3>3
      DEF OneCA, DaemonServes, BundleServes, Needed, InitCreates, DaemonCreates, Creating, At
  <2>4. QED
    BY <2>2, <2>3
<1>4. CASE ~Creating
  <2>1. UNCHANGED <<cert, key>>
    BY <1>1, <1>4 DEF Creating, At
  <2>2. Paired'
    BY <1>1, <1>4, <2>1 DEF OneCA, Paired, Creating, At, Whole
  <2>3. QED
    BY <1>1, <1>2, <2>1, <2>2
    DEF OneCA, DaemonServes, BundleServes, Needed, Stale, InitCreates, DaemonCreates, Creating,
        CAMissing, At
<1>5. QED
  BY <1>3, <1>4

\* All of it.
WholeInv == RemovedInv /\ InitWork /\ ServedInv

\* It holds at first and every step keeps it.
LEMMA WholeInvariant == Spec => []WholeInv
<1>1. Init => WholeInv
  <2> SUFFICES ASSUME Init PROVE WholeInv
    OBVIOUS
  <2>1. RemovedInv
    BY CAInit, UserInit, SharedInit, InstallationAssumption
    DEF Init, RemovedInv, DeinitWork, ResetWork
  <2>2. op \notin {"init", "deinit", "reset"}
    BY InstallationAssumption DEF Init
  <2>3. ~Pointed
    BY InstallationAssumption DEF Init, Pointed
  <2>4. QED
    BY <2>1, <2>2, <2>3
    DEF Init, WholeInv, InitWork, ServedInv, OneCA, DaemonServes, Paired, BundleServes, Needed,
        InitCreates, DaemonCreates, Creating, At, Whole
<1>2. WholeInv /\ [Next]_vars => WholeInv'
  <2> SUFFICES ASSUME WholeInv, [Next]_vars PROVE WholeInv'
    OBVIOUS
  <2>1. CAInv /\ UserInv /\ SharedInv /\ DeinitWork /\ ResetWork /\ InitWork /\ ServedInv
    BY DEF WholeInv, RemovedInv
  <2>2. RemovedInv' /\ InitWork'
    BY <2>1, CANext, UserNext, SharedNext, DeinitWorkNext, ResetWorkNext, InitWorkNext
    DEF RemovedInv
  <2>3. ServedInv'
    <3>1. CASE crossed = TRUE
      BY <3>1, CrossedStays DEF ServedInv
    <3>2. CASE OneCA
      <4>1. CASE Done
        <5>1. /\ op' = None /\ ~At("init", "ca_key")
              /\ UNCHANGED <<claude, undone, caFiles, daemon>>
          BY <4>1 DEF Done, Stop, Return, At, claudeVars, caVars, caFiles
        <5>2. QED
          BY <3>2, <5>1, ServedFrame, InstallationAssumption DEF Pointed, Stale, ServedInv
      <4>2. CASE InitSteps
        BY <2>1, <3>2, <4>2, InitStepsKeepServed
      <4>3. CASE DeinitSteps \/ ResetSteps
        BY <2>1, <3>2, <4>3, RemovalsKeepServed
      <4>4. CASE KillCommand
        BY <2>1, <3>2, <4>4, KillKeepsServed
      <4>5. CASE Others
        BY <2>1, <3>2, <4>5, DaemonsKeepServed, SessionsKeepServed
      <4>6. QED
        BY <4>1, <4>2, <4>3, <4>4, <4>5, StepKinds
    <3>3. QED
      BY <2>1, <3>1, <3>2 DEF ServedInv
  <2>4. QED
    BY <2>2, <2>3 DEF WholeInv
<1>3. QED
  BY <1>1, <1>2, PTL DEF Spec

\* init.go:217-246: whatever was interrupted, failed or removed before, an init
\* that reports success leaves everything the integration needs, of one CA, unless
\* another creator of a CA overlapped, and a bundle of it, unless a session that had
\* read an earlier one wrote the bundle since.
THEOREM InitLeavesWhole == Spec => []InitIsWhole
<1>1. WholeInv => InitIsWhole
  <2> SUFFICES ASSUME WholeInv, At("init", "done") PROVE InitIsWhole
    BY DEF InitIsWhole
  <2>1. op = "init" /\ pc = "done" /\ "agent-id" \in creds
    BY DEF At, WholeInv, RemovedInv, SharedInv
  <2>2. target \in Integrations /\ "identity" \in creds /\ Written
    BY <2>1 DEF WholeInv, InitWork
  <2>3. crossed \/ (Whole(cert) /\ key = cert /\ (Stale \/ bundle = cert))
    BY <2>1 DEF WholeInv, ServedInv, OneCA, InitCreates, AfterCA, AfterBundle
  <2>4. QED
    BY <2>1, <2>2, <2>3, InstallationAssumption
    DEF InitIsWhole, IdentityReady, Written, Configured, Stale
<1>2. QED
  BY <1>1, WholeInvariant, PTL

\* ca.go:110, reset.go:365: tools that Claude Code sends to the proxy find its CA
\* in their bundle, whatever removed or renewed either, unless writing the bundle
\* was cut short, two creators of a CA overlapped or a session wrote the bundle of
\* a CA that was gone.
THEOREM ServedStaysTrusted == Spec => []ServedIsTrusted
<1>1. WholeInv => ServedIsTrusted
  BY DEF WholeInv, ServedInv, OneCA, DaemonServes, BundleServes, Pointed, Stale, ServedIsTrusted
<1>2. QED
  BY <1>1, WholeInvariant, PTL
=============================================================================
