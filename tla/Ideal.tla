------------------------------- MODULE Ideal -------------------------------
(***************************************************************************)
(* IDEALSeedSolver and IDEALWeightFunctions for one seed.  In the first    *)
(* phase each weight other than one starts a backward query at its node,   *)
(* and a statement is updated weakly when an allocation site other than    *)
(* the seed's turns out to reach that node; the second phase chooses       *)
(* between strong and weak updates when it creates its rules.              *)
(*                                                                         *)
(* The two WeightedBoomerang objects are left open: while a query is being *)
(* solved they create solvers, transitions and rules in any order.  Both   *)
(* use the same weight functions, and so does the first one when the       *)
(* second phase makes it work again.                                       *)
(***************************************************************************)
EXTENDS EmptyStackWitness, FiniteSets

CONSTANTS
    seed,                  \* the forward query of the seed
    Stmt, StmtOf(_),
    One, CombineWith(_, _), NoWeight,
    Rule,                  \* the seed's call rules: [kind, n, callsite, static, w],
                           \* w the weight of the typestate's weight functions
    Connects,              \* the <<node, weight>> of its connected pushes
    timeouts               \* whether the options set analysisTimeoutMS

First == 1
Second == 2

ASSUME IdealAssumption ==
    /\ Boomerang = {First, Second}
    /\ seed \in ForwardQuery /\ One \in Weight /\ NoWeight \notin Weight
    /\ \A n \in Node : StmtOf(n) \in Stmt
    /\ Rule \subseteq [kind : {"normal", "push"}, n : Node, callsite : BOOLEAN,
                       static : BOOLEAN, w : Weight]
    /\ Connects \subseteq Node \X Weight
    /\ timeouts \in BOOLEAN

\* combineWith is a join, as that of the typestate's transition functions is.
ASSUME JoinAssumption ==
    \A v, w, x \in Weight :
      /\ CombineWith(v, w) \in Weight
      /\ CombineWith(v, v) = v
      /\ CombineWith(v, w) = CombineWith(w, v)
      /\ CombineWith(CombineWith(v, w), x) = CombineWith(v, CombineWith(w, x))

VARIABLES
    phase,                  \* IDEALWeightFunctions.phase
    timedoutSolver,         \* NoTimeout, or the boomerang that timed out
    watch,                  \* analysisWatch.isRunning(), for each boomerang
    nonOneFlowNodes,        \* <<node, weight>>
    listeners,              \* the NonOneFlowListeners, by their boomerang
    potentialStrongUpdates, \* statement -> weight, or NoWeight
    created,                \* <<boomerang, rule>> of the seed's solvers
    connected,              \* the connects that have been announced
    strong,                 \* history: rules of the second with a strong update
    foreign                 \* history: where the first phase has seen other sites

weights == <<nonOneFlowNodes, listeners, potentialStrongUpdates>>
history == <<created, connected, strong, foreign>>
data == <<witnesses, phase, timedoutSolver, watch, weights, history>>
vars == <<data, agenda>>

NoTimeout == 0

\* witnessFound calls weakUpdate, unless the witness is of the seed's solver.
weakUpdates == {StmtOf(i.n) : i \in {j \in found : j.solver.q # seed}}

Init ==
    /\ WitnessInit
    /\ phase = "none" /\ timedoutSolver = NoTimeout
    /\ watch = [b \in Boomerang |-> FALSE]
    /\ nonOneFlowNodes = {} /\ listeners = {}
    /\ potentialStrongUpdates = [s \in Stmt |-> NoWeight]
    /\ created = {} /\ connected = {} /\ strong = {} /\ foreign = {}
    /\ agenda = <<{[op |-> "runPhase", b |-> First]}, {[op |-> "runPhase", b |-> Second]}>>

EndLoop == LoopEnds /\ UNCHANGED data

(***************************************************************************)
(* IDEALSeedSolver.                                                        *)
(***************************************************************************)
\* Statements that a site other than the seed's reaches, by a listener's account.
ForeignNow ==
    {StmtOf(i.n) : i \in {j \in subscribed :
                            j.solver.q # seed /\ HasWitness(j.solver, j.n)}}

RunPhase(c) ==
    /\ c.op = "runPhase"
    /\ phase' = IF c.b = First THEN "ObjectFlow" ELSE "ValueFlow"
    /\ solvers' = solvers \cup {[b |-> c.b, q |-> seed]}
    /\ foreign' = IF c.b = First THEN {} ELSE ForeignNow
    /\ Return(c, <<{[op |-> "solve", b |-> c.b]}, {[op |-> "register", b |-> c.b]}>>)
    /\ UNCHANGED <<fieldTrans, callTrans, reached, asked, fieldCand, callCand, found,
                   timedoutSolver, watch, weights, created, connected, strong>>

\* WeightedBoomerang.solve, for the seed or a backward query.
Solve(c) ==
    /\ c.op = "solve"
    /\ watch' = [watch EXCEPT ![c.b] = TRUE]
    /\ Return(c, <<{[op |-> "work", b |-> c.b]}, {[op |-> "solved", b |-> c.b]}>>)
    /\ UNCHANGED <<witnesses, phase, timedoutSolver, weights, history>>

Solved(c) ==
    /\ c.op = "solved"
    /\ watch' = [watch EXCEPT ![c.b] = FALSE]
    /\ Return(c, <<>>)
    /\ UNCHANGED <<witnesses, phase, timedoutSolver, weights, history>>

\* potentialStrongUpdate
Combined(s, w) ==
    IF potentialStrongUpdates[s] = NoWeight THEN w
    ELSE CombineWith(potentialStrongUpdates[s], w)

\* Mutant: the latest weight of a statement is kept.
NonOneFlowLatest(c) ==
    /\ c.op = "nonOneFlow"
    /\ IF c.b = Second THEN Return(c, <<>>) /\ UNCHANGED potentialStrongUpdates
       ELSE /\ potentialStrongUpdates' =
                 [potentialStrongUpdates EXCEPT ![StmtOf(c.n)] = c.w]
            /\ Return(c, <<{[op |-> "solve", b |-> c.b]},
                           {[op |-> "ask", b |-> c.b, n |-> c.n, w |-> c.w]}>>)
    /\ UNCHANGED <<witnesses, phase, timedoutSolver, watch, nonOneFlowNodes, listeners, history>>

\* The NonOneFlowListener of a phase: that of the second does nothing.
NonOneFlow(c) ==
    /\ c.op = "nonOneFlow"
    /\ IF c.b = Second THEN Return(c, <<>>) /\ UNCHANGED potentialStrongUpdates
       ELSE /\ potentialStrongUpdates' =
                 [potentialStrongUpdates EXCEPT ![StmtOf(c.n)] = Combined(StmtOf(c.n), c.w)]
            /\ Return(c, <<{[op |-> "solve", b |-> c.b]},
                           {[op |-> "ask", b |-> c.b, n |-> c.n, w |-> c.w]}>>)
    /\ UNCHANGED <<witnesses, phase, timedoutSolver, watch, nonOneFlowNodes, listeners, history>>

\* Mutant: the watch stays as the nested solve has left it.
AskUnwatched(c) ==
    /\ c.op = "ask"
    /\ Return(c, <<{[op |-> "subscribe", i |-> [solver |-> s, n |-> c.n, w |-> c.w]] :
                      s \in {r \in solvers : r.b = c.b}}>>)
    /\ UNCHANGED data

\* Its loop over the forward solvers that exist when the query is solved.  The
\* nested solve has stopped the watch that the solve around it started.
AskSolvers(c) ==
    /\ c.op = "ask"
    /\ watch' = [watch EXCEPT ![c.b] = TRUE]
    /\ Return(c, <<{[op |-> "subscribe", i |-> [solver |-> s, n |-> c.n, w |-> c.w]] :
                      s \in {r \in solvers : r.b = c.b}}>>)
    /\ UNCHANGED <<witnesses, phase, timedoutSolver, weights, history>>

(***************************************************************************)
(* IDEALWeightFunctions.                                                   *)
(***************************************************************************)
Flow(b, p) == [op |-> "nonOneFlow", b |-> b, n |-> p[1], w |-> p[2]]

AddOtherThanOneWeight(c) ==
    /\ c.op = "addOther"
    /\ nonOneFlowNodes' = nonOneFlowNodes \cup {c.p}
    /\ Return(c, <<IF c.p \in nonOneFlowNodes THEN {}
                   ELSE {Flow(b, c.p) : b \in listeners}>>)
    /\ UNCHANGED <<witnesses, phase, timedoutSolver, watch, listeners,
                   potentialStrongUpdates, history>>

RegisterListener(c) ==
    /\ c.op = "register"
    /\ listeners' = listeners \cup {c.b}
    /\ Return(c, <<{Flow(c.b, p) : p \in nonOneFlowNodes}>>)
    /\ UNCHANGED <<witnesses, phase, timedoutSolver, watch, nonOneFlowNodes,
                   potentialStrongUpdates, history>>

\* Mutant: the weak updates are not looked at.
StronglyUpdatedAlways(r) ==
    /\ phase = "ValueFlow"
    /\ r.kind = "normal" \/ r.static
    /\ potentialStrongUpdates[StmtOf(r.n)] # NoWeight

\* A strong update is possible at r, and nothing says it is not.
StronglyUpdated(r) ==
    /\ phase = "ValueFlow"
    /\ r.kind = "normal" \/ r.static
    /\ potentialStrongUpdates[StmtOf(r.n)] # NoWeight
    /\ StmtOf(r.n) \notin weakUpdates

\* push and normal, when the seed's solver of b creates a rule.
CreateRule(b, r) ==
    /\ <<b, r>> \notin created
    /\ created' = created \cup {<<b, r>>}
    /\ strong' = IF b = Second /\ StronglyUpdated(r) THEN strong \cup {r} ELSE strong
    /\ Calls(IF phase = "ObjectFlow" /\ r.w # One /\ (r.kind = "push" \/ r.callsite)
             THEN {[op |-> "addOther", p |-> <<r.n, r.w>>]} ELSE {})
    /\ UNCHANGED <<witnesses, phase, timedoutSolver, watch, weights, connected, foreign>>

(***************************************************************************)
(* The boomerangs: while one is solving, its solvers do what they do.      *)
(***************************************************************************)
\* Bound: each solver, transition, rule and connect comes once.
Working(b) == [op |-> "work", b |-> b] \in Innermost

ForwardSolve(b, q) ==
    /\ Working(b)
    /\ [b |-> b, q |-> q] \notin solvers
    /\ solvers' = solvers \cup {[b |-> b, q |-> q]}
    /\ UNCHANGED <<fieldTrans, callTrans, reached, asked, fieldCand, callCand, found, agenda,
                   phase, timedoutSolver, watch, weights, history>>

AddTransition(t) ==
    /\ Working(t.solver.b)
    /\ AddField(t) \/ AddCall(t)
    /\ UNCHANGED <<phase, timedoutSolver, watch, weights, history>>

ReachNode(s, n) ==
    /\ Working(s.b)
    /\ AddReachableState(s, n)
    /\ UNCHANGED <<phase, timedoutSolver, watch, weights, history>>

\* Mutant: run tries the phase again.
TimeoutRetried(s) ==
    /\ timeouts /\ Working(s.b) /\ s \in solvers /\ watch[s.b]
    /\ watch' = [watch EXCEPT ![s.b] = FALSE]
    /\ agenda' = <<{[op |-> "runPhase", b |-> s.b]}>>
    /\ UNCHANGED <<witnesses, phase, timedoutSolver, weights, history>>

\* The listener that tests the time throws through everything, up to run.
Timeout(s) ==
    /\ timeouts /\ Working(s.b) /\ s \in solvers /\ watch[s.b]
    /\ timedoutSolver' = IF phase = "ObjectFlow" THEN First ELSE Second
    /\ watch' = [watch EXCEPT ![s.b] = FALSE]
    /\ agenda' = <<>>
    /\ UNCHANGED <<witnesses, phase, weights, history>>

SeedRule(b, r) ==
    /\ Working(b)
    /\ CreateRule(b, r)

\* The ConnectPushListener on the seed's call automaton, in both phases.
Connect(b, p) ==
    /\ Working(b)
    /\ <<b, p>> \notin connected
    /\ connected' = connected \cup {<<b, p>>}
    /\ Calls(IF p[2] = One THEN {} ELSE {[op |-> "addOther", p |-> p]})
    /\ UNCHANGED <<witnesses, phase, timedoutSolver, watch, weights, created, strong, foreign>>

WorkDone(c) ==
    /\ c.op = "work"
    /\ Return(c, <<>>)
    /\ UNCHANGED data

Step ==
    \/ EndLoop
    \/ \E c \in Innermost :
         \/ RunPhase(c)
         \/ Solve(c)
         \/ Solved(c)
         \/ NonOneFlow(c)
         \/ AskSolvers(c)
         \/ AddOtherThanOneWeight(c)
         \/ RegisterListener(c)
         \/ WorkDone(c)
         \/ WitnessCall(c) /\ UNCHANGED <<phase, timedoutSolver, watch, weights, history>>

Environment ==
    \/ \E b \in Boomerang :
         \/ \E q \in ForwardQuery : ForwardSolve(b, q)
         \/ \E r \in Rule : SeedRule(b, r)
         \/ \E p \in Connects : Connect(b, p)
    \/ \E t \in FieldEvents \cup CallEvents : AddTransition(t)
    \/ \E s \in solvers :
         \/ \E n \in Node : ReachNode(s, n)
         \/ Timeout(s)

Next == Step \/ Environment

Spec == Init /\ [][Next]_vars
FairSpec == Spec /\ WF_vars(Step)

-----------------------------------------------------------------------------
(***************************************************************************)
(* Properties.                                                             *)
(***************************************************************************)
Finished == Idle /\ timedoutSolver = NoTimeout

\* In the end the potential strong update of a statement combines every weight
\* other than one that either phase has announced for it.  (registerListener,
\* addOtherThanOneWeight, potentialStrongUpdate)
PotentialComplete ==
    Finished => \A s \in Stmt :
      LET ws == {p[2] : p \in {f \in nonOneFlowNodes : StmtOf(f[1]) = s}}
      IN  IF ws = {} THEN potentialStrongUpdates[s] = NoWeight
          ELSE /\ potentialStrongUpdates[s] # NoWeight
               /\ \A w \in ws : CombineWith(potentialStrongUpdates[s], w)
                                  = potentialStrongUpdates[s]

\* When nothing is in progress, a statement is updated weakly exactly if a
\* forward solver of another site that was asked about one of its nodes has a
\* witness for it, in whatever order the question, the node and the two
\* transitions came.  (synchedEmptyStackReachable, nonOneFlow)
WeakUpdatesExact == Finished => weakUpdates = ForeignNow

\* The second phase updates nothing strongly at a statement for which the first
\* phase has seen another allocation site.  (IDEALWeightFunctions.push, normal)
StrongOnlyIfSure == \A r \in strong : StmtOf(r.n) \notin foreign

\* A boomerang never works with its watch stopped, so its time-out counts what
\* nested queries of its solvers take.  (WeightedBoomerang.solve, nonOneFlow)
WatchRuns == \A b \in Boomerang : Working(b) => watch[b]

\* The analysis of a seed ends, in time or not: a phase is tried once, and each
\* weight starts its query once.  (run, addOtherThanOneWeight)
RunReturns == <>Idle
=============================================================================
