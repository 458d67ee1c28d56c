------------------------- MODULE CallSitesFixpoint -------------------------
(***************************************************************************)
(* What the queries of CallSites entail, without any order.                *)
(***************************************************************************)
EXTENDS CallSites, FiniteSets

\* There are finitely many findings.
ASSUME CallSitesFinite ==
    IsFiniteSet(Query) /\ IsFiniteSet(Stmt) /\ IsFiniteSet(Val) /\ IsFiniteSet(Field)

Label == Field \cup {Epsilon}

Findings ==
    [solved : SUBSET Query, field : SUBSET (Query \X Node \X Label),
     context : SUBSET (Query \X Node), calls : SUBSET (Query \X Node),
     returns : SUBSET (Stmt \X Query \X Node), byPass : SUBSET (Stmt \X Query)]

Nothing == [solved |-> {}, field |-> {}, context |-> {}, calls |-> {},
            returns |-> {}, byPass |-> {}]

Nonstatic(rs) == {r \in rs : r[3][2] \notin StaticVal}

Reached(x) == x.context \cap x.calls

\* The pairs that import, each with the nodes it imports.
Imports(x) ==
    {i \in PairsOf(x.returns, x.byPass) \X Node :
       /\ i[1].byPassing # i[1].flow
       /\ <<i[1].byPassing, i[1].n>> \in Reached(x)
       /\ i[2][1] = i[1].n[1]
       /\ \E l \in Field : <<i[1].byPassing, i[2], l>> \in x.field}

\* What the solvers find out from x by themselves.
Calls(x) == UNION {Found(y[1], y[2]) \cup EnterCall(y[1], y[2]) : y \in Reached(x)}
Of(op, x) == {c \in Calls(x) : c.op = op}

UnbalancedReturns(x) ==
    {<<y[1].s, y[1].q, <<y[2], y[1].v>>>> :
       y \in {z \in Of("unbalanced", x) \X Stmt : z[2] \in SuccsOf[z[1].s]}}

NewFields(x) ==
    {<<q, StartsAt[q], EmptyField>> : q \in x.solved}
      \cup {<<c.q, c.n, c.l>> : c \in Of("insert", x)}
      \cup {<<i[1].flow, AsNode[i[1].byPassing], Epsilon>> : i \in Imports(x)}
      \cup {<<y[1][1].flow, y[2][2], y[2][3]>> :
              y \in {z \in Imports(x) \X x.field : z[2][1] = z[1][1].byPassing
                                                   /\ z[2][2] = z[1][2]}}

NewCalls(x) ==
    {<<q, StartsAt[q]>> : q \in x.solved}
      \cup {<<c.q, c.n>> : c \in Of("callContext", x)}
      \cup {<<r[2], r[3]>> : r \in UnbalancedReturns(x)}
      \cup {<<i[1].flow, i[2]>> :
              i \in {j \in Imports(x) : <<j[1].flow, j[1].n>> \in x.calls}}

NewReturns(x) ==
    Nonstatic({<<c.s, c.q, c.n>> : c \in Of("returns", x)} \cup UnbalancedReturns(x))

Extended(x) ==
    [solved |-> x.solved \cup {c.q : c \in Of("solve", x)},
     field |-> x.field \cup NewFields(x),
     context |-> x.context \cup {<<t[1], t[2]>> : t \in x.field},
     calls |-> x.calls \cup NewCalls(x),
     returns |-> x.returns \cup NewReturns(x),
     byPass |-> x.byPass \cup {<<c.s, c.q>> : c \in Of("byPass", x)}]

Fixpoint[x \in Findings] == IF Extended(x) = x THEN x ELSE Fixpoint[Extended(x)]

Expected == [S \in SUBSET Query |-> Fixpoint[[Nothing EXCEPT !.solved = S]]]

OutcomeOf(x) ==
    /\ fieldTrans = x.field
    /\ reachedStates = Reached(x)
    /\ returnsFromCall = x.returns /\ byPassingAllocations = x.byPass

\* When all calls have returned, the solvers have imported at each call site
\* what a solver that passed it by knows at the node another returned with,
\* and nothing else, in whatever order and nesting the events came.
\* (returnsFromCall, addByPassingAllocation, OnReturnNodeReachle, ImportFlowAtReturn)
ImportsExact == Idle => OutcomeOf(Expected[solved])
=============================================================================
