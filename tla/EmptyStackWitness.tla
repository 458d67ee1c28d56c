------------------------- MODULE EmptyStackWitness -------------------------
(***************************************************************************)
(* SyncPDSSolver.synchedEmptyStackReachable and synchedReachable: when a   *)
(* node is reachable, its transitions in the field automaton and in the    *)
(* call automaton are compared, and a fact to which both lead is a         *)
(* witness.  The transitions, the node and the question come in any order. *)
(*                                                                         *)
(* The automata are those of the forward solvers of IDEal's queries.       *)
(***************************************************************************)
EXTENDS CallStack

CONSTANTS
    Boomerang,    \* the WeightedBoomerang objects
    ForwardQuery,
    Node,         \* nodes about which witnesses are asked
    Fact,
    Target,       \* nodes that transitions lead to
    FactOf(_),    \* the fact of a target; NoFact if the state is generated
    NoFact,
    Weight,       \* one listener object for each weight announced
    FieldEvents, CallEvents  \* the transitions that may come

ASSUME WitnessAssumption ==
    /\ \A t \in Target : FactOf(t) \in Fact \cup {NoFact}
    /\ NoFact \notin Fact
    /\ \A t \in FieldEvents \cup CallEvents :
         /\ t.solver.b \in Boomerang /\ t.solver.q \in ForwardQuery
         /\ t.n \in Node /\ t.target \in Target

\* The solver of a query; a transition of it from a node (with the empty field,
\* or with the node's statement); a listener that synchedReachable has made.
Solver == [b : Boomerang, q : ForwardQuery]
Trans == [solver : Solver, n : Node, target : Target]
Witnessing == [solver : Solver, n : Node, w : Weight]

VARIABLES
    solvers,      \* the forward solvers in queryToSolvers
    fieldTrans,   \* transitions of the field automata
    callTrans,    \* transitions of the call automata
    reached,      \* reachedStates: <<solver, node>>
    subscribed,   \* the SyncPDSUpdateListeners of synchedReachable
    inFields,     \* those that listen to the field automaton as well
    inCalls,      \* and to the call automaton
    fieldCand,    \* potentialFieldCandidate: <<listener, target>>
    callCand,     \* potentialCallCandidate: <<listener, fact>>
    found         \* the listeners whose witnessFound has been called

automata == <<solvers, fieldTrans, callTrans, reached>>
asked == <<subscribed, inFields, inCalls>>
witnesses == <<automata, asked, fieldCand, callCand, found>>

WitnessInit ==
    /\ solvers = {} /\ fieldTrans = {} /\ callTrans = {} /\ reached = {}
    /\ subscribed = {} /\ inFields = {} /\ inCalls = {}
    /\ fieldCand = {} /\ callCand = {} /\ found = {}

Listens(i, t) == i.solver = t.solver /\ i.n = t.n

FieldCall(i, t) == [op |-> "fieldWitness", i |-> i, t |-> t]
CallCall(i, t) == [op |-> "callWitness", i |-> i, t |-> t]

(***************************************************************************)
(* What the solvers do, with the listeners it calls.                       *)
(***************************************************************************)
\* The calls are put before those of the caller, who goes on.
Calls(calls) == agenda' = IF calls = {} THEN agenda ELSE <<calls>> \o agenda

AddField(t) ==
    /\ t \in FieldEvents \ fieldTrans /\ t.solver \in solvers
    /\ fieldTrans' = fieldTrans \cup {t}
    /\ Calls({FieldCall(i, t) : i \in {j \in inFields : Listens(j, t)}})
    /\ UNCHANGED <<solvers, callTrans, reached, asked, fieldCand, callCand, found>>

AddCall(t) ==
    /\ t \in CallEvents \ callTrans /\ t.solver \in solvers
    /\ callTrans' = callTrans \cup {t}
    /\ Calls({CallCall(i, t) : i \in {j \in inCalls : Listens(j, t)}})
    /\ UNCHANGED <<solvers, fieldTrans, reached, asked, fieldCand, callCand, found>>

\* addReachableState: both automata have a transition from the node by now.
AddReachableState(s, n) ==
    /\ s \in solvers /\ <<s, n>> \notin reached
    /\ \E t \in fieldTrans : t.solver = s /\ t.n = n
    /\ \E t \in callTrans : t.solver = s /\ t.n = n
    /\ reached' = reached \cup {<<s, n>>}
    /\ Calls({[op |-> "listenToFields", i |-> i] :
                i \in {j \in subscribed : j.solver = s /\ j.n = n}})
    /\ UNCHANGED <<solvers, fieldTrans, callTrans, asked, fieldCand, callCand, found>>

(***************************************************************************)
(* synchedReachable.                                                       *)
(***************************************************************************)
\* registerListener(SyncPDSUpdateListener) reports the reachable nodes.
SynchedReachable(c) ==
    /\ c.op = "subscribe"
    /\ subscribed' = subscribed \cup {c.i}
    /\ Return(c, IF <<c.i.solver, c.i.n>> \in reached
                 THEN <<{[op |-> "listenToFields", i |-> c.i]}>> ELSE <<>>)
    /\ UNCHANGED <<automata, inFields, inCalls, fieldCand, callCand, found>>

\* onReachableNodeAdded registers with one automaton, then with the other;
\* both report what they have.
ListenToFields(c) ==
    /\ c.op = "listenToFields"
    /\ inFields' = inFields \cup {c.i}
    /\ Return(c, <<{FieldCall(c.i, t) : t \in {u \in fieldTrans : Listens(c.i, u)}},
                   {[op |-> "listenToCalls", i |-> c.i]}>>)
    /\ UNCHANGED <<automata, subscribed, inCalls, fieldCand, callCand, found>>

ListenToCalls(c) ==
    /\ c.op = "listenToCalls"
    /\ inCalls' = inCalls \cup {c.i}
    /\ Return(c, <<{CallCall(c.i, t) : t \in {u \in callTrans : Listens(c.i, u)}}>>)
    /\ UNCHANGED <<automata, subscribed, inFields, fieldCand, callCand, found>>

(***************************************************************************)
(* The WitnessListener.                                                    *)
(***************************************************************************)
\* Mutant: only call witnesses look for the other side.
FieldWitnessBlind(c) ==
    /\ c.op = "fieldWitness"
    /\ IF FactOf(c.t.target) = NoFact THEN UNCHANGED fieldCand
       ELSE fieldCand' = fieldCand \cup {<<c.i, c.t.target>>}
    /\ Return(c, <<>>)
    /\ UNCHANGED <<automata, asked, callCand, found>>

FieldWitness(c) ==
    /\ c.op = "fieldWitness"
    /\ IF FactOf(c.t.target) = NoFact THEN UNCHANGED <<fieldCand, found>>
       ELSE /\ fieldCand' = fieldCand \cup {<<c.i, c.t.target>>}
            /\ found' = IF <<c.i, FactOf(c.t.target)>> \in callCand
                        THEN found \cup {c.i} ELSE found
    /\ Return(c, <<>>)
    /\ UNCHANGED <<automata, asked, callCand>>

CallWitness(c) ==
    /\ c.op = "callWitness"
    /\ LET f == FactOf(c.t.target)
       IN IF f = NoFact THEN UNCHANGED <<callCand, found>>
          ELSE /\ callCand' = callCand \cup {<<c.i, f>>}
               /\ found' = IF \E p \in fieldCand : p[1] = c.i /\ FactOf(p[2]) = f
                           THEN found \cup {c.i} ELSE found
    /\ Return(c, <<>>)
    /\ UNCHANGED <<automata, asked, fieldCand>>

\* A call of this module that is running.
WitnessCall(c) ==
    \/ SynchedReachable(c)
    \/ ListenToFields(c)
    \/ ListenToCalls(c)
    \/ FieldWitness(c)
    \/ CallWitness(c)

\* What a listener should find: the node is reachable, and both automata lead
\* from it to the same fact.
HasWitness(s, n) ==
    /\ <<s, n>> \in reached
    /\ \E t \in fieldTrans, u \in callTrans :
         /\ t.solver = s /\ t.n = n /\ u.solver = s /\ u.n = n
         /\ FactOf(t.target) = FactOf(u.target) /\ FactOf(t.target) # NoFact
=============================================================================
