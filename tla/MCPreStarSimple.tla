-------------------------- MODULE MCPreStarSimple --------------------------
(***************************************************************************)
(* PDSPrestarTests.simple: two normal rules in a chain, without weights.   *)
(***************************************************************************)
EXTENDS PreStar

MCOne(a, b) == "one"

Normal(a, b) == [kind |-> "normal", s1 |-> "1", l1 |-> a, s2 |-> "1",
                 l2 |-> b, w |-> "one"]
MCRules == {Normal("1", "2"), Normal("2", "3")}

MCInitials == {[t \in {Edge("1", "3", "acc")} |-> "one"]}
=============================================================================
