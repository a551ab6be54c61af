-------------------------- MODULE SessionContract --------------------------
(***************************************************************************)
(* What the session machinery promises of the credentials of one machine:   *)
(* an instance of a session starts once, and only when no earlier instance  *)
(* of the session has a live credential; a renewal hands over from one      *)
(* credential to a fresh one in one step; an instance whose credential is   *)
(* withdrawn never has one again.                                           *)
(***************************************************************************)
CONSTANTS Instance, Credential, SidOf

VARIABLES
    live,    \* <<instance, credential>> pairs that can act
    started, \* instances that were ever given a credential
    issued   \* credentials that were ever handed out

vars == <<live, started, issued>>

Init == live = {} /\ started = {} /\ issued = {}

Start(i, c) ==
    /\ i \notin started /\ c \notin issued
    /\ \A pair \in live : SidOf[pair[1]] # SidOf[i]
    /\ live' = live \cup {<<i, c>>}
    /\ started' = started \cup {i}
    /\ issued' = issued \cup {c}

Renew(i, c, d) ==
    /\ <<i, c>> \in live /\ d \notin issued
    /\ live' = (live \ {<<i, c>>}) \cup {<<i, d>>}
    /\ issued' = issued \cup {d}
    /\ UNCHANGED started

Stop(i, c) ==
    /\ <<i, c>> \in live
    /\ live' = live \ {<<i, c>>}
    /\ UNCHANGED <<started, issued>>

Next ==
    \E i \in Instance, c \in Credential :
        \/ Start(i, c)
        \/ \E d \in Credential : Renew(i, c, d)
        \/ Stop(i, c)

Spec == Init /\ [][Next]_vars

=============================================================================
