------------------------------- MODULE SyncPDS -------------------------------
(***************************************************************************)
(* sync.pds.solver.SyncPDSSolver: a call pushdown system and a field       *)
(* pushdown system that feed each other.  A node, a statement with a fact, *)
(* is processed once both automata reach it; its successors are rules of   *)
(* both systems, and a rule makes the automata reach more nodes.           *)
(*                                                                         *)
(* Each automaton is what Saturation promises of post*: a call that adds a *)
(* rule or a transition adds some of the transitions entailed by now, each *)
(* announced as it is added, and the outermost call on an automaton adds   *)
(* them all.  There is one weight.                                         *)
(***************************************************************************)
EXTENDS CallStack, SyncRules, Naturals

CONSTANTS
    Stmt, Fact, Field,
    EpsStmt, EpsField,     \* epsilonStmt(), epsilonField()
    EmptyField,            \* emptyField()
    Successors,            \* computeSuccessor: node -> set of successors
    InitialNode,           \* the query: initial state of the field automaton
    Starts,                \* the nodes a client may call solve with
    StateListener,         \* SyncStatePDSUpdateListener objects
    ListensAt              \* getNode() of each

Node == Stmt \X Fact
Successor ==
    [kind : {"normal"}, to : Node]
      \cup [kind : {"exclude", "pushField", "popField"}, to : Node, field : Field]
      \cup [kind : {"pushCall"}, to : Node, site : Stmt]
      \cup [kind : {"popCall"}, fact : Fact, site : Stmt]

ASSUME SyncAssumption ==
    /\ Successors \in [Node -> SUBSET Successor]
    /\ InitialNode \in Node /\ Starts \subseteq Node
    /\ EpsStmt \notin Stmt
    /\ {EpsField, EmptyField, AnyField} \cap Field = {}
    /\ ListensAt \in [StateListener -> Node]

IsGenerated(d) == Len(d) = 2
OnlyOne(v, w) == One

Wildcards == {AnyField} \cup {AllBut(f) : f \in Field}
Fields == INSTANCE Entailment WITH
    Wildcard <- Wildcards,
    Excludes <- [a \in Wildcards |-> {f \in Field : a = AllBut(f)}],
    Eps <- EpsField, Empties <- {EpsField, EmptyField},
    Generated <- Node \X Field, CreateState <- GeneratedState,
    Extend <- OnlyOne

Calls == INSTANCE Entailment WITH
    Wildcard <- {}, Excludes <- <<>>, Eps <- EpsStmt, Empties <- {EpsStmt},
    Generated <- Fact \X Stmt, CreateState <- GeneratedState,
    Extend <- OnlyOne

Edge(s, a, q) == [start |-> s, label |-> a, target |-> q]
Unweighted(edges) == [t \in edges |-> One]

\* What one more step of post* adds: a transition or, behind a transition with
\* an Empty label, a pop rule.
EntailedFields(edges, R) ==
    LET W == Unweighted(edges)
    IN {f.t : f \in {g \in Fields!Normal(W, R) \cup Fields!Push(W, R)
                             \cup Fields!Pop(W, R) : Fields!NotEmptyLoop(g)}}
EntailedCalls(edges, R) ==
    LET W == Unweighted(edges)
    IN {f.t : f \in {g \in Calls!Normal(W, R) \cup Calls!Push(W, R)
                             \cup Calls!Pop(W, R) : Calls!NotEmptyLoop(g)}}
ForwardedFields(edges, R) == Fields!Forwarded(Unweighted(edges), R)
ForwardedCalls(edges, R) == Calls!Forwarded(Unweighted(edges), R)

VARIABLES
    solved,          \* the nodes solve was called with
    fieldRules, callRules,        \* fieldPDS, callingPDS and forwarded pops
    fieldEdges, callEdges,        \* fieldAutomaton, callAutomaton
    fieldContextReachable, callingContextReachable,
    reachedStates,   \* reachedStates
    listeners,       \* reachedStateUpdateListeners
    told,            \* history: how often each listener's reachable() was called
    during,          \* history: the listeners registered while the update
                     \* listeners were hearing of their node
    computed         \* history: how often computeSuccessor was called

automata == <<fieldRules, callRules, fieldEdges, callEdges>>
contexts == <<fieldContextReachable, callingContextReachable>>
clients == <<solved, listeners>>
history == <<told, computed, during>>
data == <<automata, contexts, reachedStates, clients, history>>
vars == <<data, agenda>>

AddEdge(system, t) == {[op |-> "add", system |-> system, t |-> t]}
AddRule(system, r) == {[op |-> "rule", system |-> system, r |-> r]}
Saturate(system) == {[op |-> "saturate", system |-> system]}
Heard(system, t) == {[op |-> "heard", system |-> system, t |-> t]}
Process(n) == {[op |-> "process", n |-> n]}
Tell(ls) == {[op |-> "reachable", l |-> l] : l \in ls}
CopyCall(n) == [op |-> "copy", n |-> n]

Init ==
    /\ solved = {} /\ listeners = {}
    /\ fieldRules = {} /\ callRules = {} /\ fieldEdges = {} /\ callEdges = {}
    /\ fieldContextReachable = {} /\ callingContextReachable = {}
    /\ reachedStates = {}
    /\ told = [l \in StateListener |-> 0]
    /\ computed = [n \in Node |-> 0]
    /\ during = {}
    /\ agenda = <<>>

(***************************************************************************)
(* The client, when no call is in progress or from inside a callback: a    *)
(* state listener's reachable() or an update listener's                    *)
(* onReachableNodeAdded().                                                 *)
(***************************************************************************)
ClientRuns == Idle \/ [op |-> "client"] \in Innermost

\* Bound: solve is called once for a node.
Solve(n) ==
    /\ ClientRuns
    /\ n \notin solved
    /\ solved' = solved \cup {n}
    /\ agenda' = <<AddEdge("fields", Edge(Single(n), EmptyField, Single(InitialNode))),
                   AddEdge("calls", Edge(Single(n[2]), n[1], Single(InitialNode[2]))),
                   Process(n)>> \o agenda
    /\ UNCHANGED <<automata, contexts, reachedStates, listeners, history>>

\* Mutant: a listener registered after its node was reached is not told.
RegisterUntold(l) ==
    /\ ClientRuns
    /\ l \notin listeners
    /\ listeners' = listeners \cup {l}
    /\ during' = IF Pending(CopyCall(ListensAt[l])) THEN during \cup {l} ELSE during
    /\ agenda' = agenda
    /\ UNCHANGED <<automata, contexts, reachedStates, solved, told, computed>>

RegisterListener(l) ==
    /\ ClientRuns
    /\ l \notin listeners
    /\ listeners' = listeners \cup {l}
    /\ during' = IF Pending(CopyCall(ListensAt[l])) THEN during \cup {l} ELSE during
    /\ agenda' = <<IF ListensAt[l] \in reachedStates THEN Tell({l}) ELSE {}>> \o agenda
    /\ UNCHANGED <<automata, contexts, reachedStates, solved, told, computed>>

ClientReturn(c) ==
    /\ c.op = "client"
    /\ Return(c, <<>>)
    /\ UNCHANGED data

Reachable(c) ==
    /\ c.op = "reachable"
    /\ told' = [told EXCEPT ![c.l] = @ + 1]
    /\ Return(c, <<{[op |-> "client"]}>>)
    /\ UNCHANGED <<automata, contexts, reachedStates, clients, computed, during>>

EndLoop == LoopEnds /\ UNCHANGED data

(***************************************************************************)
(* The automata, as post* leaves them.                                     *)
(***************************************************************************)
\* addTransition: the update listener hears of t before post* goes on from it.
AddFieldEdge(c) ==
    /\ c.op = "add" /\ c.system = "fields"
    /\ fieldEdges' = fieldEdges \cup {c.t}
    /\ Return(c, IF c.t \in fieldEdges THEN <<>>
                 ELSE <<Heard("fields", c.t), Saturate("fields")>>)
    /\ UNCHANGED <<fieldRules, callRules, callEdges, contexts, reachedStates,
                   clients, history>>

AddCallEdge(c) ==
    /\ c.op = "add" /\ c.system = "calls"
    /\ callEdges' = callEdges \cup {c.t}
    /\ Return(c, IF c.t \in callEdges THEN <<>>
                 ELSE <<Heard("calls", c.t), Saturate("calls")>>)
    /\ UNCHANGED <<fieldRules, callRules, fieldEdges, contexts, reachedStates,
                   clients, history>>

AddFieldRule(c) ==
    /\ c.op = "rule" /\ c.system = "fields"
    /\ fieldRules' = fieldRules \cup {c.r}
    /\ Return(c, IF c.r \in fieldRules THEN <<>> ELSE <<Saturate("fields")>>)
    /\ UNCHANGED <<callRules, fieldEdges, callEdges, contexts, reachedStates,
                   clients, history>>

AddCallRule(c) ==
    /\ c.op = "rule" /\ c.system = "calls"
    /\ callRules' = callRules \cup {c.r}
    /\ Return(c, IF c.r \in callRules THEN <<>> ELSE <<Saturate("calls")>>)
    /\ UNCHANGED <<fieldRules, fieldEdges, callEdges, contexts, reachedStates,
                   clients, history>>

\* Mutant: a transition that does not change is announced again.
SaturateFieldsAgain(c) ==
    /\ c.op = "saturate" /\ c.system = "fields"
    /\ \E t \in EntailedFields(fieldEdges, fieldRules) :
          /\ fieldEdges' = fieldEdges \cup {t}
          /\ Resume(c, <<Heard("fields", t)>>, c)
    /\ UNCHANGED <<fieldRules, callRules, callEdges, contexts, reachedStates,
                   clients, history>>

SaturateFields(c) ==
    /\ c.op = "saturate" /\ c.system = "fields"
    /\ \E t \in EntailedFields(fieldEdges, fieldRules) \ fieldEdges :
          /\ fieldEdges' = fieldEdges \cup {t}
          /\ Resume(c, <<Heard("fields", t)>>, c)
    /\ UNCHANGED <<fieldRules, callRules, callEdges, contexts, reachedStates,
                   clients, history>>

SaturateCalls(c) ==
    /\ c.op = "saturate" /\ c.system = "calls"
    /\ \E t \in EntailedCalls(callEdges, callRules) \ callEdges :
          /\ callEdges' = callEdges \cup {t}
          /\ Resume(c, <<Heard("calls", t)>>, c)
    /\ UNCHANGED <<fieldRules, callRules, fieldEdges, contexts, reachedStates,
                   clients, history>>

ForwardPops(c) ==
    /\ c.op = "saturate"
    /\ IF c.system = "fields"
       THEN /\ fieldRules' = fieldRules \cup ForwardedFields(fieldEdges, fieldRules)
            /\ fieldRules' # fieldRules /\ callRules' = callRules
       ELSE /\ callRules' = callRules \cup ForwardedCalls(callEdges, callRules)
            /\ callRules' # callRules /\ fieldRules' = fieldRules
    /\ UNCHANGED <<fieldEdges, callEdges, contexts, reachedStates, clients,
                   history, agenda>>

Saturated(system) ==
    IF system = "fields"
    THEN /\ EntailedFields(fieldEdges, fieldRules) \subseteq fieldEdges
         /\ ForwardedFields(fieldEdges, fieldRules) \subseteq fieldRules
    ELSE /\ EntailedCalls(callEdges, callRules) \subseteq callEdges
         /\ ForwardedCalls(callEdges, callRules) \subseteq callRules

\* A nested call may return with work left for the outer ones.
SaturationReturns(c) ==
    /\ c.op = "saturate"
    /\ \/ Saturated(c.system)
       \/ \E i \in 2 .. Len(agenda) : c \in agenda[i]
    /\ Return(c, <<>>)
    /\ UNCHANGED data

(***************************************************************************)
(* The solver.                                                             *)
(***************************************************************************)
\* Mutant: only a node that the calls reach later is processed.
SetFieldContextOnly(c) ==
    /\ c.op = "heard" /\ c.system = "fields"
    /\ fieldContextReachable' =
          fieldContextReachable \cup (IF IsGenerated(c.t.start) THEN {} ELSE {c.t.start[1]})
    /\ Return(c, <<>>)
    /\ UNCHANGED <<automata, callingContextReachable, reachedStates, clients, history>>

\* FieldUpdateListener.onWeightAdded and setFieldContextReachable
SetFieldContextReachable(c) ==
    /\ c.op = "heard" /\ c.system = "fields"
    /\ LET nodes == IF IsGenerated(c.t.start) THEN {} ELSE {c.t.start[1]}
       IN /\ fieldContextReachable' = fieldContextReachable \cup nodes
          /\ Return(c, <<UNION {Process(n) : n \in
                            (nodes \ fieldContextReachable) \cap callingContextReachable}>>)
    /\ UNCHANGED <<automata, callingContextReachable, reachedStates, clients, history>>

\* CallAutomatonListener.onWeightAdded and setCallingContextReachable
SetCallingContextReachable(c) ==
    /\ c.op = "heard" /\ c.system = "calls"
    /\ LET nodes == IF IsGenerated(c.t.start) THEN {}
                    ELSE {<<c.t.label, c.t.start[1]>>}
       IN /\ callingContextReachable' = callingContextReachable \cup nodes
          /\ Return(c, <<UNION {Process(n) : n \in
                            (nodes \ callingContextReachable) \cap fieldContextReachable}>>)
    /\ UNCHANGED <<automata, fieldContextReachable, reachedStates, clients, history>>

\* Mutant: addReachableState does not ask whether the node is there.
ProcessNodeAgain(c) ==
    /\ c.op = "process"
    /\ reachedStates' = reachedStates \cup {c.n}
    /\ Return(c, <<{[op |-> "client"]}, {CopyCall(c.n)},
                   {[op |-> "successors", n |-> c.n]}>>)
    /\ UNCHANGED <<automata, contexts, clients, history>>

\* processNode and addReachableState, which tells the update listeners first:
\* they are the client's code.
ProcessNode(c) ==
    /\ c.op = "process"
    /\ reachedStates' = reachedStates \cup {c.n}
    /\ Return(c, IF c.n \in reachedStates THEN <<>>
                 ELSE <<{[op |-> "client"]}, {CopyCall(c.n)},
                        {[op |-> "successors", n |-> c.n]}>>)
    /\ UNCHANGED <<automata, contexts, clients, history>>

\* Then the state listeners, copied only now.
TellStateListeners(c) ==
    /\ c.op = "copy"
    /\ Return(c, <<Tell({l \in listeners : ListensAt[l] = c.n})>>)
    /\ UNCHANGED data

\* The loop over computeSuccessor(curr)
ComputeSuccessors(c) ==
    /\ c.op = "successors"
    /\ computed' = [computed EXCEPT ![c.n] = @ + 1]
    /\ Return(c, <<{[op |-> "flow", n |-> c.n, s |-> s] : s \in Successors[c.n]}>>)
    /\ UNCHANGED <<automata, contexts, reachedStates, clients, told, during>>

\* Mutant: processPush finds that succ is field reachable and adds no rule.
ProcessFlowUnlessReachable(c) ==
    /\ c.op = "flow"
    /\ Return(c, <<IF c.s.kind = "pushField" /\ c.s.to \in fieldContextReachable THEN {}
                   ELSE AddRule("fields", FieldRule(c.n, c.s)),
                   AddRule("calls", CallRule(c.n, c.s))>>)
    /\ UNCHANGED data

\* processNormal, processPush, processPop.  The guard of processPush asks whether
\* a set of Node objects contains a PushNode, which no Node equals.
ProcessFlow(c) ==
    /\ c.op = "flow"
    /\ Return(c, <<AddRule("fields", FieldRule(c.n, c.s)),
                   AddRule("calls", CallRule(c.n, c.s))>>)
    /\ UNCHANGED data

Step ==
    \/ EndLoop
    \/ \E c \in Innermost :
         \/ ClientReturn(c)
         \/ Reachable(c)
         \/ AddFieldEdge(c)
         \/ AddCallEdge(c)
         \/ AddFieldRule(c)
         \/ AddCallRule(c)
         \/ SaturateFields(c)
         \/ SaturateCalls(c)
         \/ ForwardPops(c)
         \/ SaturationReturns(c)
         \/ SetFieldContextReachable(c)
         \/ SetCallingContextReachable(c)
         \/ ProcessNode(c)
         \/ TellStateListeners(c)
         \/ ComputeSuccessors(c)
         \/ ProcessFlow(c)

Next ==
    \/ Step
    \/ \E n \in Starts : Solve(n)
    \/ \E l \in StateListener : RegisterListener(l)

Spec == Init /\ [][Next]_vars

\* The one thread keeps running, and a client's listener returns.
FairSpec == Spec /\ WF_vars(Step)

(***************************************************************************)
(* Properties.                                                             *)
(***************************************************************************)
FieldState == {Single(n) : n \in Node} \cup (Node \X Field)
CallState == {Single(f) : f \in Fact} \cup (Fact \X Stmt)
FieldEdge ==
    [start : FieldState, label : Field \cup {EpsField, EmptyField}, target : FieldState]
CallEdge == [start : CallState, label : Stmt \cup {EpsStmt}, target : CallState]

RulesOf(states, controls, l1, normal, push, site, pop) ==
    [kind : {"normal"}, s1 : states, l1 : l1, s2 : controls, l2 : normal, w : {One}]
      \cup [kind : {"push"}, s1 : states, l1 : l1, s2 : controls, l2 : push,
            callSite : site, w : {One}]
      \cup [kind : {"pop"}, s1 : states, l1 : pop, s2 : controls, w : {One}]
FieldRules ==
    RulesOf(FieldState, {Single(n) : n \in Node}, {AnyField}, Wildcards, Field,
            {AnyField}, Field)
CallRules == RulesOf(CallState, {Single(f) : f \in Fact}, Stmt, Stmt, Stmt, Stmt, Stmt)

System == {"fields", "calls"}
Call ==
    [op : {"add", "heard"}, system : {"fields"}, t : FieldEdge]
      \cup [op : {"add", "heard"}, system : {"calls"}, t : CallEdge]
      \cup [op : {"rule"}, system : {"fields"}, r : FieldRules]
      \cup [op : {"rule"}, system : {"calls"}, r : CallRules]
      \cup [op : {"saturate"}, system : System]
      \cup [op : {"process", "copy", "successors"}, n : Node]
      \cup [op : {"flow"}, n : Node, s : Successor]
      \cup [op : {"reachable"}, l : StateListener]
      \cup [op : {"client"}]

\* Every variable holds values of its kind, and the calls on the stack have
\* arguments of theirs.
TypeOK ==
    /\ solved \subseteq Starts /\ listeners \subseteq StateListener
    /\ fieldRules \subseteq FieldRules /\ callRules \subseteq CallRules
    /\ fieldEdges \subseteq FieldEdge /\ callEdges \subseteq CallEdge
    /\ fieldContextReachable \subseteq Node
    /\ callingContextReachable \subseteq (Stmt \cup {EpsStmt}) \X Fact
    /\ reachedStates \subseteq Node
    /\ during \subseteq StateListener
    /\ told \in [StateListener -> Nat] /\ computed \in [Node -> Nat]
    /\ agenda \in Seq(SUBSET Call)

\* The nodes that both automata reach.
Matched ==
    {n \in Node : /\ \E t \in fieldEdges : t.start = Single(n)
                  /\ \E t \in callEdges : /\ t.start = Single(n[2])
                                           /\ t.label = n[1]}

\* A node is processed only when both automata reach it, and whenever the
\* outermost call has returned every such node has been, whichever automaton
\* reached it first (setCallingContextReachable, setFieldContextReachable).
Synchronized ==
    /\ reachedStates \subseteq Matched
    /\ Idle => Matched \subseteq reachedStates

\* However the two automata, solve and the callbacks re-enter each other, the
\* successors of a node are computed at most once, and of every reached node
\* when the outermost call has returned (processNode).
ComputedOnce ==
    \A n \in Node : /\ computed[n] <= 1
                    /\ Idle /\ n \in reachedStates => computed[n] = 1

\* How often a listener should be called: once if its node is reached, before
\* or after it was registered, and twice if an update listener registered it
\* while hearing of its node, which both registerListener and the copy made
\* after that loop answer.
TimesDue(l) ==
    IF l \in listeners /\ ListensAt[l] \in reachedStates
    THEN IF l \in during THEN 2 ELSE 1
    ELSE 0

\* No listener is called more often than that, nor left out when the outermost
\* call has returned (addReachableState, registerListener).
ToldAsDue ==
    \A l \in StateListener : told[l] <= TimesDue(l) /\ (Idle => told[l] = TimesDue(l))

\* solve returns: the two systems cannot feed each other for ever.
CallsReturn == ~Idle ~> Idle
=============================================================================
