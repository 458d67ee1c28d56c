---------------------------- MODULE WholeProgram ----------------------------
(***************************************************************************)
(* boomerang.WholeProgramBoomerang on one method: a forward query for each *)
(* allocation site, each with a solver of its own.  A solver follows the   *)
(* object through locals and fields; where the object is stored through y, *)
(* the point of indirection of the store brings the solver the other names *)
(* of y, from the solvers of the objects that y may be.  The solvers work  *)
(* inside each other's callbacks, on one call stack.                       *)
(*                                                                         *)
(* A solver is a SyncPDSSolver (SyncPDS): its field automaton is what post**)
(* promises (Saturation); its call automaton, in a method that neither     *)
(* calls nor returns, is the set of nodes its call rules reach.            *)
(***************************************************************************)
EXTENDS CallStack, SyncRules, Naturals

CONSTANTS
    Stmt, Val, Field,
    EpsField, EmptyField,  \* Field.epsilon(), Field.empty()
    Instr,                 \* statement -> what it does
    SuccsOf                \* icfg.getSuccsOf: statement -> set of statements

Instruction ==
    [op : {"alloc"}, to : Val]
      \cup [op : {"assign"}, to : Val, from : Val]
      \cup [op : {"load"}, to : Val, base : Val, field : Field]
      \cup [op : {"store"}, base : Val, field : Field, from : Val]
      \cup [op : {"nop"}]

ASSUME ProgramAssumption ==
    /\ Instr \in [Stmt -> Instruction]
    /\ SuccsOf \in [Stmt -> SUBSET Stmt]
    /\ {EpsField, EmptyField, AnyField} \cap Field = {}

Node == Stmt \X Val
Store == {s \in Stmt : Instr[s].op = "store"}

\* A query is the statement that allocates; its variable is the local there.
Query == {s \in Stmt : Instr[s].op = "alloc"}
Var(q) == Instr[q].to
AllocNode(q) == <<<<q, Var(q)>>, "alloc">>

\* The node of a state of a field automaton.
Fact(d) == d[1]
IsGenerated(d) == Len(d) = 2 /\ d[2] \in Field

(***************************************************************************)
(* Flow functions of ForwardBoomerangSolver.                               *)
(***************************************************************************)
KillFlow(curr, v) ==
    /\ curr.op \in {"alloc", "assign", "load"}
    /\ curr.to = v
    /\ ~(curr.op = "load" /\ curr.base = v)

Flow(kind, n) == [kind |-> kind, to |-> n]
FieldFlow(kind, n, f) == [kind |-> kind, to |-> n, field |-> f]

ComputeNormalFlow(curr, v, succ) ==
    {IF curr.op = "store" /\ curr.base = v
     THEN FieldFlow("exclude", <<succ, v>>, curr.field)
     ELSE Flow("normal", <<succ, v>>)}
      \cup {FieldFlow("pushField", <<succ, i.base>>, i.field) :
              i \in {j \in {curr} : j.op = "store" /\ j.from = v}}
      \cup {Flow("normal", <<succ, i.to>>) :
              i \in {j \in {curr} : j.op = "assign" /\ j.from = v}}
      \cup {FieldFlow("popField", <<succ, i.to>>, i.field) :
              i \in {j \in {curr} : j.op = "load" /\ j.base = v}}

ComputeSuccessor(n) ==
    IF KillFlow(Instr[n[1]], n[2]) THEN {}
    ELSE UNION {ComputeNormalFlow(Instr[n[1]], n[2], s) : s \in SuccsOf[n[1]]}

(***************************************************************************)
(* The field automaton.                                                    *)
(***************************************************************************)
Wildcards == {AnyField} \cup {AllBut(f) : f \in Field}
OnlyOne(v, w) == One
Fields == INSTANCE Entailment WITH
    Wildcard <- Wildcards,
    Excludes <- [a \in Wildcards |-> {f \in Field : a = AllBut(f)}],
    Eps <- EpsField, Empties <- {EpsField, EmptyField},
    Generated <- Node \X Field, CreateState <- GeneratedState,
    Extend <- OnlyOne

Edge(s, a, q) == [start |-> s, label |-> a, target |-> q]

\* The transitions, and the rules behind Empty labels, that one more step of
\* post* adds.
Entailed(edges, R) ==
    LET W == [t \in edges |-> One]
    IN {g.t : g \in Fields!Normal(W, R) \cup Fields!Push(W, R) \cup Fields!Pop(W, R)}
Forwarded(edges, R) == Fields!Forwarded([t \in edges |-> One], R)

VARIABLES
    solved,                \* the queries solve was called with
    fieldRules, fieldEdges,        \* per query: fieldPDS, fieldAutomaton
    fieldContextReachable, callingContextReachable, reachedStates,
    perStatementFieldTransitions,  \* per query
    watchers,              \* per query: perStatementFieldTransitionsListener
    stateListeners,        \* per query: listeners of Boomerang on fieldAutomaton
    baseAllocations, flowAllocations   \* per store: the sets of its FieldWritePOI

automata == <<fieldRules, fieldEdges>>
contexts == <<fieldContextReachable, callingContextReachable, reachedStates>>
registry == <<perStatementFieldTransitions, watchers, stateListeners>>
points == <<baseAllocations, flowAllocations>>
data == <<solved, automata, contexts, registry, points>>
vars == <<data, agenda>>

\* Calls.
InsertTransition(q, t) == {[op |-> "insert", q |-> q, t |-> t]}
AddFieldRule(q, r) == {[op |-> "rule", q |-> q, r |-> r]}
AddNormalCallFlow(q, n) == {[op |-> "callFlow", q |-> q, n |-> n]}
ReachedInFields(q, n) == {[op |-> "fieldContext", q |-> q, n |-> n]}
Process(q, n) == {[op |-> "process", q |-> q, n |-> n]}
Register(q, l) == {[op |-> "register", q |-> q, l |-> l]}
Fire(q, l, ts) == {[op |-> "out", q |-> q, l |-> l, t |-> t] : t \in ts}
AddBase(s, q) == {[op |-> "base", s |-> s, q |-> q]}
AddFlow(s, q) == {[op |-> "flow", s |-> s, q |-> q]}
Execute(s, b, f) == {[op |-> "execute", s |-> s, base |-> b, flow |-> f]}
Announce(q, t) ==
    <<{[op |-> "record", q |-> q, t |-> t]}
        \cup (IF IsGenerated(t.start) THEN {} ELSE ReachedInFields(q, Fact(t.start))),
      {[op |-> "notify", q |-> q, t |-> t]}>>
Saturate(q) == {[op |-> "saturate", q |-> q]}

\* TriggerBaseAllocationAtFieldWrite and ImportToSolver.
Trigger(n, s) == [kind |-> "trigger", state |-> Single(n), poi |-> s]
ImportToSolver(d, f) == [kind |-> "import", state |-> d, flow |-> f]

Init ==
    /\ solved = {}
    /\ fieldRules = [q \in Query |-> {}] /\ fieldEdges = [q \in Query |-> {}]
    /\ fieldContextReachable = [q \in Query |-> {}]
    /\ callingContextReachable = [q \in Query |-> {}]
    /\ reachedStates = [q \in Query |-> {}]
    /\ perStatementFieldTransitions = [q \in Query |-> {}]
    /\ watchers = [q \in Query |-> {}]
    /\ stateListeners = [q \in Query |-> {}]
    /\ baseAllocations = [s \in Store |-> {}]
    /\ flowAllocations = [s \in Store |-> {}]
    /\ agenda = <<>>

\* The loop of wholeProgramAnalysis over the seeds.
Solve(q) ==
    /\ Idle
    /\ q \notin solved
    /\ solved' = solved \cup {q}
    /\ agenda' = <<{[op |-> "solveAt", q |-> q, n |-> <<s, Var(q)>>] : s \in SuccsOf[q]}>>
    /\ UNCHANGED <<automata, contexts, registry, points>>

\* SyncPDSSolver.solve
SolveAt(c) ==
    /\ c.op = "solveAt"
    /\ Return(c, <<InsertTransition(c.q, Edge(Single(c.n), EmptyField, AllocNode(c.q))),
                   AddNormalCallFlow(c.q, c.n), Process(c.q, c.n)>>)
    /\ UNCHANGED data

EndLoop == LoopEnds /\ UNCHANGED data

(***************************************************************************)
(* The field automaton of a solver.                                        *)
(***************************************************************************)
Insert(c) ==
    /\ c.op = "insert"
    /\ fieldEdges' = [fieldEdges EXCEPT ![c.q] = @ \cup {c.t}]
    /\ Return(c, IF c.t \in fieldEdges[c.q] THEN <<>>
                 ELSE Announce(c.q, c.t) \o <<Saturate(c.q)>>)
    /\ UNCHANGED <<solved, fieldRules, contexts, registry, points>>

AddRule(c) ==
    /\ c.op = "rule"
    /\ fieldRules' = [fieldRules EXCEPT ![c.q] = @ \cup {c.r}]
    /\ Return(c, IF c.r \in fieldRules[c.q] THEN <<>> ELSE <<Saturate(c.q)>>)
    /\ UNCHANGED <<solved, fieldEdges, contexts, registry, points>>

\* Mutant: a transition that is present is announced again.
SaturateAgain(c) ==
    /\ c.op = "saturate"
    /\ \E t \in Entailed(fieldEdges[c.q], fieldRules[c.q]) :
          /\ fieldEdges' = [fieldEdges EXCEPT ![c.q] = @ \cup {t}]
          /\ Resume(c, Announce(c.q, t), c)
    /\ UNCHANGED <<solved, fieldRules, contexts, registry, points>>

SaturateMore(c) ==
    /\ c.op = "saturate"
    /\ \E t \in Entailed(fieldEdges[c.q], fieldRules[c.q]) \ fieldEdges[c.q] :
          /\ fieldEdges' = [fieldEdges EXCEPT ![c.q] = @ \cup {t}]
          /\ Resume(c, Announce(c.q, t), c)
    /\ UNCHANGED <<solved, fieldRules, contexts, registry, points>>

ForwardPops(c) ==
    /\ c.op = "saturate"
    /\ LET new == Forwarded(fieldEdges[c.q], fieldRules[c.q])
       IN /\ ~(new \subseteq fieldRules[c.q])
          /\ fieldRules' = [fieldRules EXCEPT ![c.q] = @ \cup new]
    /\ UNCHANGED <<solved, fieldEdges, contexts, registry, points, agenda>>

Saturated(q) ==
    /\ Entailed(fieldEdges[q], fieldRules[q]) \subseteq fieldEdges[q]
    /\ Forwarded(fieldEdges[q], fieldRules[q]) \subseteq fieldRules[q]

\* A nested call may return with work left for the outer ones.
SaturationReturns(c) ==
    /\ c.op = "saturate"
    /\ Saturated(c.q) \/ \E i \in 2 .. Len(agenda) : c \in agenda[i]
    /\ Return(c, <<>>)
    /\ UNCHANGED data

\* addTransitionToStatement
Record(c) ==
    /\ c.op = "record"
    /\ perStatementFieldTransitions' =
          [perStatementFieldTransitions EXCEPT ![c.q] = @ \cup {c.t}]
    /\ Return(c, <<{[op |-> "alias", s |-> w.s, base |-> c.q, flow |-> w.flow, t |-> c.t] :
                      w \in {x \in watchers[c.q] : x.s = Fact(c.t.start)[1]}}>>)
    /\ UNCHANGED <<solved, automata, contexts, watchers, stateListeners, points>>

Notify(c) ==
    /\ c.op = "notify"
    /\ Return(c, <<UNION {Fire(c.q, l, {c.t}) :
                      l \in {x \in stateListeners[c.q] : x.state = c.t.start}}>>)
    /\ UNCHANGED data

\* Mutant: the transitions that are there are not replayed.
RegisterQuietly(c) ==
    /\ c.op = "register"
    /\ stateListeners' = [stateListeners EXCEPT ![c.q] = @ \cup {c.l}]
    /\ Return(c, <<>>)
    /\ UNCHANGED <<solved, automata, contexts, perStatementFieldTransitions, watchers,
                   points>>

RegisterListener(c) ==
    /\ c.op = "register"
    /\ stateListeners' = [stateListeners EXCEPT ![c.q] = @ \cup {c.l}]
    /\ Return(c, IF c.l \in stateListeners[c.q] THEN <<>>
                 ELSE <<Fire(c.q, c.l, {t \in fieldEdges[c.q] : t.start = c.l.state})>>)
    /\ UNCHANGED <<solved, automata, contexts, perStatementFieldTransitions, watchers,
                   points>>

(***************************************************************************)
(* The synchronized solver (see SyncPDS).                                  *)
(***************************************************************************)
SetFieldContextReachable(c) ==
    /\ c.op = "fieldContext"
    /\ fieldContextReachable' = [fieldContextReachable EXCEPT ![c.q] = @ \cup {c.n}]
    /\ Return(c, <<IF c.n \in callingContextReachable[c.q] \ fieldContextReachable[c.q]
                   THEN Process(c.q, c.n) ELSE {}>>)
    /\ UNCHANGED <<solved, automata, callingContextReachable, reachedStates, registry,
                   points>>

SetCallingContextReachable(c) ==
    /\ c.op = "callFlow"
    /\ callingContextReachable' = [callingContextReachable EXCEPT ![c.q] = @ \cup {c.n}]
    /\ Return(c, <<IF c.n \in fieldContextReachable[c.q] \ callingContextReachable[c.q]
                   THEN Process(c.q, c.n) ELSE {}>>)
    /\ UNCHANGED <<solved, automata, fieldContextReachable, reachedStates, registry,
                   points>>

\* forwardHandleFieldWrite
HandleFieldWrite(q, n) ==
    IF n[1] \notin Store THEN <<>>
    ELSE <<IF n[2] = Instr[n[1]].from THEN AddFlow(n[1], q) ELSE {},
           IF n[2] = Instr[n[1]].base THEN Register(q, Trigger(n, n[1])) ELSE {}>>

\* processNode: the update listeners of the solver, then the successors.
ProcessNode(c) ==
    /\ c.op = "process"
    /\ reachedStates' = [reachedStates EXCEPT ![c.q] = @ \cup {c.n}]
    /\ Return(c, IF c.n \in reachedStates[c.q] THEN <<>>
                 ELSE HandleFieldWrite(c.q, c.n)
                        \o <<{[op |-> "successor", q |-> c.q, n |-> c.n, s |-> s] :
                                s \in ComputeSuccessor(c.n)}>>)
    /\ UNCHANGED <<solved, automata, fieldContextReachable, callingContextReachable,
                   registry, points>>

\* processNormal, processPush, processPop
ProcessSuccessor(c) ==
    /\ c.op = "successor"
    /\ Return(c, <<AddFieldRule(c.q, FieldRule(c.n, c.s)),
                   AddNormalCallFlow(c.q, c.s.to)>>)
    /\ UNCHANGED data

(***************************************************************************)
(* Points of indirection.                                                  *)
(***************************************************************************)
\* Mutant: a base allocation is not paired with the flow allocations seen before.
AddBaseAlone(c) ==
    /\ c.op = "base"
    /\ baseAllocations' = [baseAllocations EXCEPT ![c.s] = @ \cup {c.q}]
    /\ Return(c, <<>>)
    /\ UNCHANGED <<solved, automata, contexts, registry, flowAllocations>>

AddBaseAllocation(c) ==
    /\ c.op = "base"
    /\ baseAllocations' = [baseAllocations EXCEPT ![c.s] = @ \cup {c.q}]
    /\ Return(c, IF c.q \in baseAllocations[c.s] THEN <<>>
                 ELSE <<UNION {Execute(c.s, c.q, f) : f \in flowAllocations[c.s]}>>)
    /\ UNCHANGED <<solved, automata, contexts, registry, flowAllocations>>

AddFlowAllocation(c) ==
    /\ c.op = "flow"
    /\ flowAllocations' = [flowAllocations EXCEPT ![c.s] = @ \cup {c.q}]
    /\ Return(c, IF c.q \in flowAllocations[c.s] THEN <<>>
                 ELSE <<UNION {Execute(c.s, b, c.q) : b \in baseAllocations[c.s]}>>)
    /\ UNCHANGED <<solved, automata, contexts, registry, baseAllocations>>

\* executeImportAliases: the listener's equals compares the statement only, and
\* a listener that equals a registered one is not registered.
ExecuteImportAliases(c) ==
    /\ c.op = "execute"
    /\ IF \E w \in watchers[c.base] : w.s = c.s
       THEN /\ Return(c, <<>>)
            /\ UNCHANGED watchers
       ELSE /\ watchers' = [watchers EXCEPT ![c.base] = @ \cup {[s |-> c.s, flow |-> c.flow]}]
            /\ Return(c, <<{[op |-> "alias", s |-> c.s, base |-> c.base, flow |-> c.flow, t |-> t] :
                              t \in {u \in perStatementFieldTransitions[c.base] :
                                       Fact(u.start)[1] = c.s}}>>)
    /\ UNCHANGED <<solved, automata, contexts, perStatementFieldTransitions,
                   stateListeners, points>>

\* onAddedTransition of that listener
OnAlias(c) ==
    /\ c.op = "alias"
    /\ Return(c, IF IsGenerated(c.t.start) \/ Fact(c.t.start)[2] = Instr[c.s].base THEN <<>>
                 ELSE <<Register(c.base, ImportToSolver(c.t.target, c.flow)),
                        {[op |-> "aliasAt", succ |-> s, of |-> c] : s \in SuccsOf[c.s]}>>)
    /\ UNCHANGED data

\* Mutant: the alias of y is taken without its field.
OnAliasWithoutField(c) ==
    /\ c.op = "aliasAt"
    /\ LET a == c.of
           n == <<c.succ, Fact(a.t.start)[2]>>
       IN Return(c, <<InsertTransition(a.flow, Edge(AllocNode(a.base), EpsField,
                                               Single(<<c.succ, Instr[a.s].base>>))),
                      InsertTransition(a.flow, Edge(Single(n), EmptyField, AllocNode(a.base))),
                      ReachedInFields(a.flow, n),
                      AddNormalCallFlow(a.flow, n)>>)
    /\ UNCHANGED data

OnAliasAtSucc(c) ==
    /\ c.op = "aliasAt"
    /\ LET a == c.of
           n == <<c.succ, Fact(a.t.start)[2]>>
       IN Return(c, <<InsertTransition(a.flow, Edge(AllocNode(a.base), EpsField,
                                               Single(<<c.succ, Instr[a.s].base>>))),
                      InsertTransition(a.flow, Edge(Single(n), a.t.label, a.t.target)),
                      ReachedInFields(a.flow, n),
                      AddNormalCallFlow(a.flow, n)>>)
    /\ UNCHANGED data

\* onOutTransitionAdded of TriggerBaseAllocationAtFieldWrite
OnTrigger(c) ==
    /\ c.op = "out" /\ c.l.kind = "trigger"
    /\ Return(c, <<IF Fact(c.t.target)[2] = Var(c.q) THEN AddBase(c.l.poi, c.q) ELSE {}>>)
    /\ UNCHANGED data

\* onOutTransitionAdded of ImportToSolver
OnImport(c) ==
    /\ c.op = "out" /\ c.l.kind = "import"
    /\ Return(c, <<InsertTransition(c.l.flow, c.t),
                   Register(c.q, ImportToSolver(c.t.target, c.l.flow))>>)
    /\ UNCHANGED data

Step ==
    \/ EndLoop
    \/ \E c \in Innermost :
         \/ SolveAt(c)
         \/ Insert(c)
         \/ AddRule(c)
         \/ SaturateMore(c)
         \/ ForwardPops(c)
         \/ SaturationReturns(c)
         \/ Record(c)
         \/ Notify(c)
         \/ RegisterListener(c)
         \/ SetFieldContextReachable(c)
         \/ SetCallingContextReachable(c)
         \/ ProcessNode(c)
         \/ ProcessSuccessor(c)
         \/ AddBaseAllocation(c)
         \/ AddFlowAllocation(c)
         \/ ExecuteImportAliases(c)
         \/ OnAlias(c)
         \/ OnAliasAtSucc(c)
         \/ OnTrigger(c)
         \/ OnImport(c)

Next ==
    \/ Step
    \/ \E q \in Query : Solve(q)

Spec == Init /\ [][Next]_vars

\* The one thread keeps running.
FairSpec == Spec /\ WF_vars(Step)

\* The nodes for which getAllocationSites answers q.
Answered(q) ==
    LET a == AllocNode(q)
    IN {Fact(t.start) : t \in {u \in fieldEdges[q] : /\ u.label = EmptyField
                                                   /\ u.target = a
                                                   /\ Len(u.start) = 1}}

(***************************************************************************)
(* Properties.                                                             *)
(***************************************************************************)
FieldState == {Single(n) : n \in Node} \cup {AllocNode(q) : q \in Query} \cup (Node \X Field)
Transition == [start : FieldState, label : Field \cup {EpsField, EmptyField},
               target : FieldState]

\* Every variable holds values of its kind; a node is processed only when both
\* automata reach it, a transition is recorded only if it is in the automaton,
\* and only pairs of recorded allocations are executed.
TypeOK ==
    /\ solved \subseteq Query
    /\ \A q \in Query :
          /\ fieldEdges[q] \subseteq Transition
          /\ perStatementFieldTransitions[q] \subseteq fieldEdges[q]
          /\ reachedStates[q] \subseteq fieldContextReachable[q] \cap callingContextReachable[q]
          /\ reachedStates[q] \subseteq Node
          /\ \A w \in watchers[q] : q \in baseAllocations[w.s] /\ w.flow \in flowAllocations[w.s]
    /\ baseAllocations \in [Store -> SUBSET Query]
    /\ flowAllocations \in [Store -> SUBSET Query]

\* Solving a query returns: the solvers cannot import from each other for ever,
\* also in a loop over a cyclic structure.
SolvesReturn == ~Idle ~> Idle
=============================================================================
