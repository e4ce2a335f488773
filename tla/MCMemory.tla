------------------------------- MODULE MCMemory -------------------------------
(***************************************************************************)
(* Two bodies of history whose messages interleave.                        *)
(***************************************************************************)
EXTENDS Memory, TLC

CONSTANTS c1, c2, s1, s2

MCPlacesOf == (c1 :> {2}) @@ (c2 :> {1})

=============================================================================
