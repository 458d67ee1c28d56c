--------------------------- MODULE IdealInvariant ---------------------------
(***************************************************************************)
(* The inductive invariant behind the properties of Ideal: what each       *)
(* listener of synchedReachable still has to hear, which potential strong  *)
(* update is still to be combined, and in which order the calls that stop  *)
(* and restart the watch lie on the stack.                                 *)
(***************************************************************************)
EXTENDS Ideal, Naturals

AskedCall == [op : {"subscribe", "listenToFields", "listenToCalls"}, i : Witnessing]
FieldWitnessCall == [op : {"fieldWitness"}, i : Witnessing, t : FieldEvents]
CallWitnessCall == [op : {"callWitness"}, i : Witnessing, t : CallEvents]
PhaseCall == [op : {"runPhase", "solve", "solved", "register", "work"}, b : Boomerang]
FlowCall == [op : {"nonOneFlow", "ask"}, b : Boomerang, n : Node, w : Weight]
OtherCall == [op : {"addOther"}, p : Node \X Weight]
Call == AskedCall \cup FieldWitnessCall \cup CallWitnessCall
          \cup PhaseCall \cup FlowCall \cup OtherCall

Types ==
    /\ solvers \subseteq Solver
    /\ fieldTrans \subseteq FieldEvents /\ callTrans \subseteq CallEvents
    /\ subscribed \subseteq Witnessing /\ inFields \subseteq Witnessing
    /\ inCalls \subseteq Witnessing
    /\ fieldCand \subseteq Witnessing \X Target /\ callCand \subseteq Witnessing \X Fact
    /\ timedoutSolver \in {NoTimeout, First, Second}
    /\ watch \in [Boomerang -> BOOLEAN]
    /\ nonOneFlowNodes \subseteq Node \X Weight
    /\ listeners \subseteq Boomerang
    /\ potentialStrongUpdates \in [Stmt -> Weight \cup {NoWeight}]
    /\ agenda \in Seq(SUBSET Call)
    /\ timedoutSolver # NoTimeout => agenda = <<>>

-----------------------------------------------------------------------------
(***************************************************************************)
(* Witnesses.                                                              *)
(***************************************************************************)
InFields(i) == i \in inFields \/ [op |-> "listenToFields", i |-> i] \in Waiting
InCalls(i) == i \in inCalls \/ [op |-> "listenToCalls", i |-> i] \in Waiting

KnowsField(i, t) ==
    \/ FactOf(t.target) = NoFact
    \/ <<i, t.target>> \in fieldCand
    \/ FieldCall(i, t) \in Waiting

KnowsCall(i, t) ==
    \/ FactOf(t.target) = NoFact
    \/ <<i, FactOf(t.target)>> \in callCand
    \/ CallCall(i, t) \in Waiting

\* Nothing that a listener should hear of is lost.
Heard ==
    /\ \A i \in subscribed : <<i.solver, i.n>> \in reached => InFields(i)
    /\ \A i \in inFields : InCalls(i)
    /\ \A i \in inFields, t \in fieldTrans : Listens(i, t) => KnowsField(i, t)
    /\ \A i \in inCalls, t \in callTrans : Listens(i, t) => KnowsCall(i, t)

\* Two candidates for the same fact are a witness, whichever came first.
Matched ==
    \A p \in fieldCand, q \in callCand :
      p[1] = q[1] /\ FactOf(p[2]) = q[2] => p[1] \in found

\* The node of i is reachable and i was asked for.
Called(i) == i \in subscribed /\ <<i.solver, i.n>> \in reached

FieldSeen(i, f) == \E t \in fieldTrans : Listens(i, t) /\ FactOf(t.target) = f /\ f # NoFact
CallSeen(i, f) == \E t \in callTrans : Listens(i, t) /\ FactOf(t.target) = f /\ f # NoFact

\* Nothing is heard that the automata do not have.
Grounded ==
    /\ \A i \in inFields \cup inCalls : Called(i)
    /\ \A c \in Waiting :
         /\ c.op \in {"listenToFields", "listenToCalls", "fieldWitness", "callWitness"}
              => Called(c.i)
         /\ c.op = "fieldWitness" => c.t \in fieldTrans /\ Listens(c.i, c.t)
         /\ c.op = "callWitness" => c.t \in callTrans /\ Listens(c.i, c.t)
    /\ \A p \in fieldCand : Called(p[1]) /\ FieldSeen(p[1], FactOf(p[2]))
    /\ \A p \in callCand : Called(p[1]) /\ CallSeen(p[1], p[2])
    /\ \A i \in found : Called(i) /\ \E f \in Fact : FieldSeen(i, f) /\ CallSeen(i, f)

WitnessInv == (timedoutSolver = NoTimeout => Heard) /\ Matched /\ Grounded

-----------------------------------------------------------------------------
(***************************************************************************)
(* Potential strong updates.                                               *)
(***************************************************************************)
Absorbed(p) ==
    /\ potentialStrongUpdates[StmtOf(p[1])] # NoWeight
    /\ CombineWith(potentialStrongUpdates[StmtOf(p[1])], p[2])
         = potentialStrongUpdates[StmtOf(p[1])]

PotentialInv ==
    /\ timedoutSolver = NoTimeout =>
         /\ \/ First \in listeners
            \/ [op |-> "register", b |-> First] \in Waiting
            \/ [op |-> "runPhase", b |-> First] \in Waiting
         /\ First \in listeners =>
              \A p \in nonOneFlowNodes : Absorbed(p) \/ Flow(First, p) \in Waiting
    /\ \A c \in Waiting : c.op = "nonOneFlow" => <<c.n, c.w>> \in nonOneFlowNodes
    /\ \A s \in Stmt : potentialStrongUpdates[s] # NoWeight =>
         \E p \in nonOneFlowNodes : StmtOf(p[1]) = s

-----------------------------------------------------------------------------
(***************************************************************************)
(* The order of the calls on the stack.                                    *)
(***************************************************************************)
\* After the calls of loop k and before those of loop i, the watch of b is set.
AskedBetween(k, i, b) ==
    \E j \in DOMAIN agenda : k < j /\ j < i /\ \E d \in agenda[j] : d.op = "ask" /\ d.b = b

\* A boomerang that is to go on working has its watch running, or a call in
\* between sets it; so also after every call that starts or ends a query.
WatchInv ==
    \A b \in Boomerang, i \in DOMAIN agenda :
      [op |-> "work", b |-> b] \in agenda[i] =>
        /\ watch[b] \/ AskedBetween(0, i, b)
        /\ \A k \in DOMAIN agenda : k <= i =>
             \A d \in agenda[k] :
               /\ d.op # "runPhase"
               /\ d.op \in {"solve", "solved"} /\ d.b = b => AskedBetween(k, i, b)

\* The second phase is the last thing to do, and has done nothing until then.
PhaseInv ==
    /\ \A k \in DOMAIN agenda : [op |-> "runPhase", b |-> Second] \in agenda[k] =>
         /\ agenda[k] = {[op |-> "runPhase", b |-> Second]}
         /\ \A i \in DOMAIN agenda : i # k => i < k
         /\ phase # "ValueFlow" /\ strong = {}
    /\ foreign \subseteq weakUpdates

IdealInv == Types /\ WitnessInv /\ PotentialInv /\ WatchInv /\ PhaseInv /\ StrongOnlyIfSure
=============================================================================
