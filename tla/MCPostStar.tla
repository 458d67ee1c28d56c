----------------------------- MODULE MCPostStar -----------------------------
(***************************************************************************)
(* An instance of PostStar whose client runs one of four programs, and the *)
(* refinement of Saturation.  A weight is the set of first events of the   *)
(* paths it stands for, "-" for a path without events: it is not           *)
(* commutative, and improves while it is handed round.                     *)
(***************************************************************************)
EXTENDS PostStarInvariant

\* Control states are one-tuples, the state for calls to a from s is <<s, a>>.
Control == {"p", "q", "f", "x", "y", "v", "z", "init"}
MCLabel == {"a", "b", "c", "r", "f", "g", "none", "eps"}
MCState == {<<s>> : s \in Control} \cup
             ({"p", "q", "x", "y", "v", "z"} \X (MCLabel \cup {"any"}))
MCGenerated == {s \in MCState : Len(s) = 2}
MCCreateState(s, a) == IF a = "none" \/ s[1] \in {"f", "init"} THEN s ELSE <<s[1], a>>
MCWildcard == {"any", "not g"}
MCExcludes == [a \in MCWildcard |-> IF a = "any" THEN {} ELSE {"g"}]

MCWeight == SUBSET {"-", "x", "y"}
MCOne == {"-"}
MCExtend(v, w) == (v \ {"-"}) \cup (IF "-" \in v THEN w ELSE {})
MCCombine(v, w) == v \cup w

Moves(s, a, t, b, w) ==
    [kind |-> "normal", s1 |-> <<s>>, l1 |-> a, s2 |-> <<t>>, l2 |-> b, w |-> w]
Enters(s, a, t, b, site, w) ==
    [kind |-> "push", s1 |-> <<s>>, l1 |-> a, s2 |-> <<t>>, l2 |-> b,
     callSite |-> site, w |-> w]
Leaves(s, a, t, w) == [kind |-> "pop", s1 |-> <<s>>, l1 |-> a, s2 |-> <<t>>, w |-> w]
Seed(s, a, q, w) ==
    [t |-> [start |-> <<s>>, label |-> a, target |-> q], w |-> w]

\* A recursive procedure: p calls itself at a and at b, returns to r, and goes on.
Recursion == [
    rules |-> {Enters("p", "a", "p", "b", "r", MCOne), Enters("p", "b", "p", "b", "r", MCOne),
               Leaves("p", "b", "q", MCOne), Leaves("q", "r", "q", MCOne)},
    seeds |-> {Seed("p", "a", <<"f">>, MCOne)},
    callbacks |-> FALSE]

\* One procedure is entered by two rules of different weight, loops, and pops to a
\* caller and off the bottom.
Weights == [
    rules |-> {Moves("p", "a", "p", "b", {"x"}), Moves("p", "a", "p", "b", {"y"}),
               Enters("p", "b", "p", "c", "r", {"y"}), Leaves("p", "c", "q", {"x"}),
               Leaves("q", "r", "q", MCOne)},
    seeds |-> {Seed("p", "a", <<"f">>, MCOne), Seed("p", "c", <<"p", "c">>, {"y"})},
    callbacks |-> FALSE]

\* The field pushdown system of SyncPDSSolver: y.f = x; y.g = x; v is y with its g
\* overwritten; x = v; z = v.f
Fields == [
    rules |-> {Enters("x", "any", "y", "f", "any", MCOne), Enters("x", "any", "y", "g", "any", MCOne),
               Moves("y", "any", "v", "not g", MCOne), Moves("v", "any", "x", "any", MCOne),
               Leaves("v", "f", "z", MCOne)},
    seeds |-> {Seed("x", "none", <<"init">>, MCOne)},
    callbacks |-> FALSE]

\* A call and its return; every rule may arrive in the middle of any notification,
\* as in SyncPDSSolver, a second push while the weight of the first is handed round.
Callbacks == [
    rules |-> {Enters("p", "a", "p", "b", "r", {"x"}), Enters("p", "a", "p", "b", "r", MCOne),
               Leaves("p", "b", "q", {"y"}), Leaves("q", "r", "q", MCOne)},
    seeds |-> {Seed("p", "a", <<"f">>, MCOne)},
    callbacks |-> TRUE]

Programs == {Recursion, Weights, Fields, Callbacks}
MCRules == UNION {p.rules : p \in Programs}
MCSeeds == UNION {p.seeds : p \in Programs}

\* The client's rules and seeds are those of one program.
MCNext ==
    /\ Next
    /\ \E p \in Programs :
         /\ rules' \subseteq p.rules /\ seeded' \subseteq p.seeds
         /\ p.callbacks \/ Idle \/ UNCHANGED <<rules, seeded>>

MCSpec == Init /\ [][MCNext]_vars /\ WF_vars(Step)

\* The solver does what Saturation promises.  Rules count from the moment
\* poststar is called.
Promise == INSTANCE Saturation
             WITH rules <- IF started THEN rules ELSE {}, busy <- agenda # <<>>

\* Every behaviour keeps the promise of Saturation: with the calls in any
\* order and rules added at any time, the automaton never holds a transition
\* or a weight that is not entailed, and holds all of it at every return.
KeepsPromise == Promise!Spec
=============================================================================
