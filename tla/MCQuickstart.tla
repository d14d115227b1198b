---------------------------- MODULE MCQuickstart ----------------------------
(***************************************************************************)
(* A small instance of Quickstart for TLC.                                 *)
(***************************************************************************)
EXTENDS Quickstart, TLC

CONSTANTS a, b, s1, s2, s3, s4, s5, x

\* a is the longest action that is accepted, b the shortest that is not.
DemoLen == (a :> 4096) @@ (b :> 4097)

\* One member more than a tree of depth 2 holds.
DemoDraw == [i \in 1..5 |-> [sk |-> <<s1, s2, s3, s4, s5>>[i], salt |-> x]]
=============================================================================
