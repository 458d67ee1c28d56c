---------------------------- MODULE SyncFixpoint ----------------------------
(***************************************************************************)
(* What SyncPDS computes, without any order: the least automata and nodes  *)
(* such that a node both automata reach has its rules, and both automata   *)
(* are saturated.                                                          *)
(***************************************************************************)
EXTENDS SyncPDS, FiniteSets

\* There are finitely many outcomes.
ASSUME SyncFinite == IsFiniteSet(Stmt) /\ IsFiniteSet(Fact) /\ IsFiniteSet(Field)

Outcomes ==
    [reached : SUBSET Node, fieldRules : SUBSET FieldRules, callRules : SUBSET CallRules,
     fieldEdges : SUBSET FieldEdge, callEdges : SUBSET CallEdge]

Result == [reached |-> reachedStates, fieldRules |-> fieldRules,
           callRules |-> callRules, fieldEdges |-> fieldEdges,
           callEdges |-> callEdges]

\* The nodes that both automata of x reach, and the rules of the nodes x reaches.
Meet(x) ==
    {n \in Node : /\ \E t \in x.fieldEdges : t.start = Single(n)
                  /\ \E t \in x.callEdges : /\ t.start = Single(n[2])
                                             /\ t.label = n[1]}
FlowsOf(x) == UNION {{<<n, s>> : s \in Successors[n]} : n \in x.reached}

\* Every node both automata reach gets its rules, every rule its transitions.
Round(x) ==
    [reached |-> x.reached \cup Meet(x),
     fieldRules |-> x.fieldRules \cup {FieldRule(f[1], f[2]) : f \in FlowsOf(x)}
                      \cup ForwardedFields(x.fieldEdges, x.fieldRules),
     callRules |-> x.callRules \cup {CallRule(f[1], f[2]) : f \in FlowsOf(x)}
                     \cup ForwardedCalls(x.callEdges, x.callRules),
     fieldEdges |-> x.fieldEdges \cup EntailedFields(x.fieldEdges, x.fieldRules),
     callEdges |-> x.callEdges \cup EntailedCalls(x.callEdges, x.callRules)]

Fixpoint[x \in Outcomes] == IF Round(x) = x THEN x ELSE Fixpoint[Round(x)]

\* What solve adds to both automata for a node.
StartsOf(n) ==
    <<Edge(Single(n), EmptyField, Single(InitialNode)),
      Edge(Single(n[2]), n[1], Single(InitialNode[2]))>>

\* The result of solving the nodes of S, for every S.
Expected ==
    [S \in SUBSET Starts |->
        Fixpoint[[reached |-> {}, fieldRules |-> {}, callRules |-> {},
                  fieldEdges |-> {StartsOf(n)[1] : n \in S},
                  callEdges |-> {StartsOf(n)[2] : n \in S}]]]

\* Whenever the outermost call has returned, the solver's result is the least
\* fixpoint: it does not depend on the order of successors, of notifications
\* or of the calls to solve (no test runs two orders).
OrderIndependent == Idle => Result = Expected[solved]
=============================================================================
