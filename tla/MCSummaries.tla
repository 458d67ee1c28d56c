---------------------------- MODULE MCSummaries ----------------------------
(***************************************************************************)
(* A procedure at b that is entered with p or q, from the call sites a and *)
(* c; inside, q becomes p, so both summaries have the same node.  One      *)
(* solver enters it both ways, one after the other; a second one finds a   *)
(* summary that is there.  In another program two solvers enter a          *)
(* procedure, at f, that calls itself: its summary is nested in itself.    *)
(* Both ask about x; a third solver, alone, asks about p, which both       *)
(* procedures are entered with.                                            *)
(***************************************************************************)
EXTENDS Summaries

CONSTANTS one, two, own

MCControl == {<<"p">>, <<"q">>}
MCGenerated == {"p", "q"} \X Label
MCCreateState(s, a) == <<s[1], a>>
MCInitial(s) == IF s = own THEN <<"p">> ELSE <<"x">>
MCFactOf(q) == q[1]

Push(a, s, b, r) ==
    [kind |-> "push", s1 |-> <<"p">>, l1 |-> a, s2 |-> <<s>>, l2 |-> b, callSite |-> r]
Pop(s, a) == [kind |-> "pop", s1 |-> <<s>>, l1 |-> a, s2 |-> <<"q">>]
Normal(s, a) == [kind |-> "normal", s1 |-> <<s>>, l1 |-> a, s2 |-> <<"p">>, l2 |-> a]

MCShared == {Push("a", "p", "b", "r"), Push("c", "q", "b", "r"), Normal("q", "b"), Pop("p", "b")}
MCRecursive == {Push("d", "p", "f", "r"), Push("e", "p", "f", "r"), Push("f", "p", "f", "g"),
                Pop("p", "f"), Pop("q", "g")}
MCRules == MCShared \cup MCRecursive

Starts(A) == {<<a, <<"p">>>> : a \in A}
MCSolverStarts ==
    [s \in Solver |-> Starts(CASE s = one -> {"a", "c", "d"} [] s = two -> {"a", "e"}
                              [] s = own -> {"a", "c", "d"})]

\* Both solvers start in the same program.
MCNext ==
    /\ SummariesNext
    /\ \E A \in {{"a", "c"}, {"d", "e"}} : started' \subseteq Solver \X Starts(A)

MCSpec == SummariesInit /\ [][MCNext]_summariesVars /\ WF_summariesVars(SummariesStep)
=============================================================================
