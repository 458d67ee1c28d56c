----------------------------- MODULE CallSites -----------------------------
(***************************************************************************)
(* The call sites of demand-driven Boomerang.  A ForwardCallSitePOI knows  *)
(* the solvers whose object passed the call by and the nodes with which    *)
(* solvers came back from it; the exit statement of a method has one too,  *)
(* for the backward solvers that enter there.  Each pair of a passed-by    *)
(* and a returned solver imports the aliases at the returned node.         *)
(*                                                                         *)
(* What a solver finds out when it has processed a node is a parameter.    *)
(* The target of a field transition is left out: WholeProgram models what  *)
(* ImportToSolver does behind it.                                          *)
(***************************************************************************)
EXTENDS CallStack

CONSTANTS
    Query, ForwardQuery,
    Stmt, Val,
    StaticVal,      \* the values that are static fields
    ExitStmt,       \* the statements where a backward solver enters a method
    SuccsOf,        \* getSuccsOf: statement -> set of statements
    Field, EmptyField, Epsilon,  \* labels of the field automata
    AsNode,         \* Query.asNode: query -> node
    StartsAt,       \* query -> the node solve starts at
    Found(_, _)     \* the calls a solver makes when it has processed a node

Node == Stmt \X Val

\* The calls of a solver that has processed a node.
FoundCall ==
    [op : {"solve"}, q : ForwardQuery]
      \cup [op : {"insert"}, q : Query, n : Node, l : Field \cup {Epsilon}]
      \cup [op : {"callContext"}, q : Query, n : Node]
      \cup [op : {"returns"}, s : Stmt, q : Query, n : Node]
      \cup [op : {"byPass"}, s : Stmt, q : Query]
      \cup [op : {"unbalanced"}, s : Stmt, q : Query, v : Val]

ASSUME CallSitesAssumption ==
    /\ ForwardQuery \subseteq Query
    /\ StaticVal \subseteq Val /\ ExitStmt \subseteq Stmt
    /\ EmptyField \in Field /\ Epsilon \notin Field
    /\ SuccsOf \in [Stmt -> SUBSET Stmt]
    /\ AsNode \in [Query -> Node] /\ StartsAt \in [Query -> Node]
    /\ \A q \in Query, n \in Node : Found(q, n) \subseteq FoundCall

VARIABLES
    fieldTrans,            \* <<query, node, label>>: out of the node's state
    perStatement,          \* those in perStatementFieldTransitions
    importers,             \* ImportToSolver: <<base query, node, flow query>>
    fieldContextReachable, callingContextReachable, reachedStates,  \* <<query, node>>
    callRules,             \* addNormalCallFlow: <<query, node, node>>
    returnsFromCall,       \* <<call site, query, node>>
    byPassingAllocations,  \* <<call site, query>>
    onReturn,              \* the OnReturnNodeReachle listeners
    atReturn,              \* the ImportFlowAtReturn listeners
    solved,                \* the queries that somebody has solved
    paired, pairedAgain    \* history: the pairs handed to eachPair, once and again

automata == <<fieldTrans, perStatement, importers, callRules>>
contexts == <<fieldContextReachable, callingContextReachable, reachedStates>>
sites == <<returnsFromCall, byPassingAllocations>>
listeners == <<onReturn, atReturn>>
pairs == <<paired, pairedAgain>>
data == <<automata, contexts, sites, listeners, solved, pairs>>
vars == <<data, agenda>>

\* Calls.
Insert(q, n, l) == [op |-> "insert", q |-> q, n |-> n, l |-> l]
FieldContext(q, n) == [op |-> "fieldContext", q |-> q, n |-> n]
CallContext(q, n) == [op |-> "callContext", q |-> q, n |-> n]
ReturnsFromCall(s, q, n) == [op |-> "returns", s |-> s, q |-> q, n |-> n]
AddByPassing(s, q) == [op |-> "byPass", s |-> s, q |-> q]
Pair(s, b, q, n) == [site |-> s, byPassing |-> b, flow |-> q, n |-> n]
Reachable(i) == [op |-> "reachable", i |-> i]

Init ==
    /\ fieldTrans = {} /\ perStatement = {} /\ importers = {} /\ callRules = {}
    /\ fieldContextReachable = {} /\ callingContextReachable = {} /\ reachedStates = {}
    /\ returnsFromCall = {} /\ byPassingAllocations = {}
    /\ onReturn = {} /\ atReturn = {}
    /\ solved = {} /\ paired = {} /\ pairedAgain = {}
    /\ agenda = <<>>

SolveFor(q) == [op |-> "solve", q |-> q]

\* Bound: each query is solved once from outside.
Ask(q) ==
    /\ Idle /\ q \notin solved
    /\ agenda' = <<{SolveFor(q)}>>
    /\ UNCHANGED data

Solve(c) ==
    /\ c.op = "solve"
    /\ solved' = solved \cup {c.q}
    /\ Return(c, <<{Insert(c.q, StartsAt[c.q], EmptyField)},
                   {CallContext(c.q, StartsAt[c.q])}>>)
    /\ UNCHANGED <<automata, contexts, sites, listeners, pairs>>

EndLoop == LoopEnds /\ UNCHANGED data

(***************************************************************************)
(* The field automata and their listeners.                                 *)
(***************************************************************************)
InsertTransition(c) ==
    /\ c.op = "insert"
    /\ fieldTrans' = fieldTrans \cup {<<c.q, c.n, c.l>>}
    /\ Return(c, IF <<c.q, c.n, c.l>> \in fieldTrans THEN <<>>
                 ELSE <<{FieldContext(c.q, c.n),
                         [op |-> "record", q |-> c.q, n |-> c.n, l |-> c.l]},
                        {[op |-> "notify", q |-> c.q, n |-> c.n, l |-> c.l]}>>)
    /\ UNCHANGED <<perStatement, importers, callRules, contexts, sites, listeners,
                   solved, pairs>>

\* addTransitionToStatement
AddTransitionToStatement(c) ==
    /\ c.op = "record"
    /\ perStatement' = perStatement \cup {<<c.q, c.n, c.l>>}
    /\ Return(c, <<{[op |-> "added", i |-> i, n |-> c.n, l |-> c.l] :
                      i \in {j \in atReturn : j.byPassing = c.q /\ j.n[1] = c.n[1]}}>>)
    /\ UNCHANGED <<fieldTrans, importers, callRules, contexts, sites, listeners,
                   solved, pairs>>

\* onOutTransitionAdded of ImportToSolver
Notify(c) ==
    /\ c.op = "notify"
    /\ Return(c, <<{Insert(i[3], c.n, c.l) :
                      i \in {j \in importers : j[1] = c.q /\ j[2] = c.n}}>>)
    /\ UNCHANGED data

RegisterImporter(c) ==
    /\ c.op = "import"
    /\ importers' = importers \cup {<<c.q, c.n, c.flow>>}
    /\ Return(c, IF <<c.q, c.n, c.flow>> \in importers THEN <<>>
                 ELSE <<{Insert(c.flow, c.n, t[3]) :
                           t \in {u \in fieldTrans : u[1] = c.q /\ u[2] = c.n}}>>)
    /\ UNCHANGED <<fieldTrans, perStatement, callRules, contexts, sites, listeners,
                   solved, pairs>>

(***************************************************************************)
(* The synchronized solvers (see SyncPDS).                                 *)
(***************************************************************************)
Process(q, n) == [op |-> "process", q |-> q, n |-> n]

SetFieldContextReachable(c) ==
    /\ c.op = "fieldContext"
    /\ fieldContextReachable' = fieldContextReachable \cup {<<c.q, c.n>>}
    /\ Return(c, <<IF <<c.q, c.n>> \in callingContextReachable \ fieldContextReachable
                   THEN {Process(c.q, c.n)} ELSE {}>>)
    /\ UNCHANGED <<automata, callingContextReachable, reachedStates, sites, listeners,
                   solved, pairs>>

\* A transition of the call automaton: the listener, then the rules.
SetCallingContextReachable(c) ==
    /\ c.op = "callContext"
    /\ callingContextReachable' = callingContextReachable \cup {<<c.q, c.n>>}
    /\ Return(c, IF <<c.q, c.n>> \in callingContextReachable THEN <<>>
                 ELSE <<IF <<c.q, c.n>> \in fieldContextReachable
                        THEN {Process(c.q, c.n)} ELSE {},
                        {[op |-> "callRules", q |-> c.q, n |-> c.n]}>>)
    /\ UNCHANGED <<automata, fieldContextReachable, reachedStates, sites, listeners,
                   solved, pairs>>

ApplyCallRules(c) ==
    /\ c.op = "callRules"
    /\ Return(c, <<{CallContext(c.q, r[3]) :
                      r \in {p \in callRules : p[1] = c.q /\ p[2] = c.n}}>>)
    /\ UNCHANGED data

AddNormalCallFlow(c) ==
    /\ c.op = "callFlow"
    /\ callRules' = callRules \cup {<<c.q, c.n, c.succ>>}
    /\ Return(c, <<IF <<c.q, c.n>> \in callingContextReachable
                   THEN {CallContext(c.q, c.succ)} ELSE {}>>)
    /\ UNCHANGED <<fieldTrans, perStatement, importers, contexts, sites, listeners,
                   solved, pairs>>

\* What the update listeners of a solver do at an exit statement.
EnterCall(q, n) ==
    IF n[1] \notin ExitStmt THEN {}
    ELSE IF q \in ForwardQuery THEN {AddByPassing(n[1], q)}
    ELSE {ReturnsFromCall(n[1], q, n)}

\* addReachableState
ProcessNode(c) ==
    /\ c.op = "process"
    /\ reachedStates' = reachedStates \cup {<<c.q, c.n>>}
    /\ Return(c, IF <<c.q, c.n>> \in reachedStates THEN <<>>
                 ELSE <<EnterCall(c.q, c.n), {[op |-> "reached", q |-> c.q, n |-> c.n]},
                        Found(c.q, c.n)>>)
    /\ UNCHANGED <<automata, fieldContextReachable, callingContextReachable, sites,
                   listeners, solved, pairs>>

NotifyReached(c) ==
    /\ c.op = "reached"
    /\ Return(c, <<{Reachable(i) : i \in {j \in onReturn : j.byPassing = c.q /\ j.n = c.n}}>>)
    /\ UNCHANGED data

(***************************************************************************)
(* ForwardCallSitePOI.                                                     *)
(***************************************************************************)
EachPair(ps) == {[op |-> "eachPair", i |-> p] : p \in ps}

\* Mutant: nobody looks whether the node has returned before.
ReturnAgain(c) ==
    /\ c.op = "returns"
    /\ IF c.n[2] \in StaticVal THEN Return(c, <<>>) /\ UNCHANGED returnsFromCall
       ELSE /\ returnsFromCall' = returnsFromCall \cup {<<c.s, c.q, c.n>>}
            /\ Return(c, <<EachPair({Pair(c.s, b[2], c.q, c.n) :
                                       b \in {p \in byPassingAllocations : p[1] = c.s}})>>)
    /\ UNCHANGED <<automata, contexts, byPassingAllocations, listeners, solved, pairs>>

AddReturn(c) ==
    /\ c.op = "returns"
    /\ IF c.n[2] \in StaticVal \/ <<c.s, c.q, c.n>> \in returnsFromCall
       THEN Return(c, <<>>) /\ UNCHANGED returnsFromCall
       ELSE /\ returnsFromCall' = returnsFromCall \cup {<<c.s, c.q, c.n>>}
            /\ Return(c, <<EachPair({Pair(c.s, b[2], c.q, c.n) :
                                       b \in {p \in byPassingAllocations : p[1] = c.s}})>>)
    /\ UNCHANGED <<automata, contexts, byPassingAllocations, listeners, solved, pairs>>

AddByPassingAllocation(c) ==
    /\ c.op = "byPass"
    /\ byPassingAllocations' = byPassingAllocations \cup {<<c.s, c.q>>}
    /\ Return(c, IF <<c.s, c.q>> \in byPassingAllocations THEN <<>>
                 ELSE <<EachPair({Pair(c.s, c.q, r[2], r[3]) :
                                    r \in {p \in returnsFromCall : p[1] = c.s}})>>)
    /\ UNCHANGED <<automata, contexts, returnsFromCall, listeners, solved, pairs>>

\* eachPair registers an OnReturnNodeReachle with the solver that passed by.
RegisterPair(c) ==
    /\ c.op = "eachPair"
    /\ paired' = paired \cup {c.i}
    /\ pairedAgain' = IF c.i \in paired THEN pairedAgain \cup {c.i} ELSE pairedAgain
    /\ IF c.i.byPassing = c.i.flow \/ c.i \in onReturn
       THEN Return(c, <<>>) /\ UNCHANGED onReturn
       ELSE /\ onReturn' = onReturn \cup {c.i}
            /\ Return(c, <<IF <<c.i.byPassing, c.i.n>> \in reachedStates
                           THEN {Reachable(c.i)} ELSE {}>>)
    /\ UNCHANGED <<automata, contexts, sites, atReturn, solved>>

\* Mutant: the listener is not told of the transitions at the statement.
ReachableForLater(c) ==
    /\ c.op = "reachable"
    /\ atReturn' = atReturn \cup {c.i}
    /\ Return(c, <<>>)
    /\ UNCHANGED <<automata, contexts, sites, onReturn, solved, pairs>>

\* reachable registers an ImportFlowAtReturn.
OnReturnNodeReachable(c) ==
    /\ c.op = "reachable"
    /\ atReturn' = atReturn \cup {c.i}
    /\ Return(c, IF c.i \in atReturn THEN <<>>
                 ELSE <<{[op |-> "added", i |-> c.i, n |-> t[2], l |-> t[3]] :
                           t \in {u \in perStatement : /\ u[1] = c.i.byPassing
                                                     /\ u[2][1] = c.i.n[1]}}>>)
    /\ UNCHANGED <<automata, contexts, sites, onReturn, solved, pairs>>

\* onAddedTransition
ImportFlowAtReturn(c) ==
    /\ c.op = "added"
    /\ LET b == c.i.byPassing  f == c.i.flow
       IN Return(c, IF c.l = Epsilon THEN <<>>
                    ELSE <<{Insert(f, AsNode[b], Epsilon)},
                           {[op |-> "import", q |-> b, n |-> c.n, flow |-> f]},
                           {FieldContext(f, c.n)},
                           {[op |-> "callFlow", q |-> f, n |-> c.i.n, succ |-> c.n]}>>)
    /\ UNCHANGED data

(***************************************************************************)
(* A solver returns to a caller it did not come from.                      *)
(***************************************************************************)
ReturnSites(c) ==
    <<{[op |-> "returnSite", s |-> c.s, q |-> c.q, n |-> <<r, c.v>>] : r \in SuccsOf[c.s]}>>

\* Mutant: the work stays in the queue of the caller's method.
UnbalancedReturnAgain(c) ==
    /\ c.op = "unbalanced"
    /\ Resume(c, ReturnSites(c), c)
    /\ UNCHANGED data

UnbalancedReturnFlow(c) ==
    /\ c.op = "unbalanced"
    /\ Return(c, ReturnSites(c))
    /\ UNCHANGED data

UnbalancedReturnSite(c) ==
    /\ c.op = "returnSite"
    /\ Return(c, <<{CallContext(c.q, c.n)}, {ReturnsFromCall(c.s, c.q, c.n)}>>)
    /\ UNCHANGED data

Step ==
    \/ EndLoop
    \/ \E c \in Innermost :
         \/ Solve(c)
         \/ InsertTransition(c)
         \/ AddTransitionToStatement(c)
         \/ Notify(c)
         \/ RegisterImporter(c)
         \/ SetFieldContextReachable(c)
         \/ SetCallingContextReachable(c)
         \/ ApplyCallRules(c)
         \/ AddNormalCallFlow(c)
         \/ ProcessNode(c)
         \/ NotifyReached(c)
         \/ AddReturn(c)
         \/ AddByPassingAllocation(c)
         \/ RegisterPair(c)
         \/ OnReturnNodeReachable(c)
         \/ ImportFlowAtReturn(c)
         \/ UnbalancedReturnFlow(c)
         \/ UnbalancedReturnSite(c)

Next ==
    \/ Step
    \/ \E q \in Query : Ask(q)

Spec == Init /\ [][Next]_vars
FairSpec == Spec /\ WF_vars(Step)

(***************************************************************************)
(* Properties.                                                             *)
(***************************************************************************)
\* The pairs of a solver that passed a call by and one that returned from it.
PairsOf(rs, bs) ==
    {Pair(z[1][1], z[2][2], z[1][2], z[1][3]) :
       z \in {y \in rs \X bs : y[1][1] = y[2][1]}}

\* No pair of a passed-by and a returned solver is handled twice, and when all
\* calls have returned each has been, also when the loops over the two sets, each
\* over a snapshot, nest.  (returnsFromCall, addByPassingAllocation)
PairedOnce ==
    /\ pairedAgain = {}
    /\ Idle => paired = PairsOf(returnsFromCall, byPassingAllocations)

\* Solvers that import from each other come to an end.  (ImportFlowAtReturn)
CallsReturn == []<>Idle
=============================================================================
