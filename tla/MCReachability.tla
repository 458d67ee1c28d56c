--------------------------- MODULE MCReachability ---------------------------
(***************************************************************************)
(* The epsilon visitor on a cycle of empty transitions that two proper     *)
(* transitions leave, with two listeners at different states of the cycle. *)
(* Everything may be added from inside a callback.                         *)
(***************************************************************************)
EXTENDS Reachability, Naturals

MCState == {"a", "b", "c", "d"}

From(s, a, q, n) == [t |-> [start |-> s, label |-> a, target |-> q], w |-> n]

MCSeeds == {From("a", "eps", "b", 1), From("b", "eps", "c", 1),
            From("c", "eps", "a", 1), From("b", "f", "d", 1),
            From("d", "f", "d", 1)}

MCWatches == {<<"a", "l">>, <<"c", "m">>}
=============================================================================
