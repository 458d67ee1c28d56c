------------------------------- MODULE MCIdeal -------------------------------
(***************************************************************************)
(* Two calls that change the typestate, that of n and that of m (of a      *)
(* static field), two allocation sites that may reach n, and a connected   *)
(* push that either phase may announce.                                    *)
(***************************************************************************)
EXTENDS Ideal

MCStmtOf(n) == n
MCFactOf(t) == IF t = "generated" THEN "none" ELSE "alloc"
MCUnion(v, w) == v \cup w
Id == {"id"}
Open == {"open"}
Close == {"close"}
MCWeight == SUBSET {"id", "open", "close"} \ {{}}
MCNoWeight == {}

MCRule == {[kind |-> "normal", n |-> "n", callsite |-> TRUE, static |-> FALSE, w |-> Open],
           [kind |-> "push", n |-> "m", callsite |-> TRUE, static |-> TRUE, w |-> Open]}
\* Only the first boomerang is asked for witnesses.
At(q, target) == [solver |-> [b |-> First, q |-> q], n |-> "n", target |-> target]
MCFields == {At("other", "alloc"), At("other", "generated"), At("seed", "alloc")}
MCCalls == {At("other", "alloc"), At("seed", "alloc")}

MCConnects == {<<"n", Close>>}
=============================================================================
