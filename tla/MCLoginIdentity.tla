-------------------------- MODULE MCLoginIdentity --------------------------
(* Instances of LoginIdentity.  Processes of a kind run once and are           *)
(* interchangeable, but each names its key: symmetry over them is sound.       *)
EXTENDS LoginIdentity, TLC

Symmetry ==
    Permutations(Renewer) \cup Permutations(Enroller) \cup Permutations(Leaver)
=============================================================================
