----------------------------- MODULE Summaries -----------------------------
(***************************************************************************)
(* Post* with call summaries (the option callSummaries).  Each solver has  *)
(* its own call automaton; the transitions into a generated state, which   *)
(* stands for a call, are in a nested automaton of that state, and the     *)
(* solvers share these.  Where a call is entered with the variable that a  *)
(* solver asks about, that solver takes its own automaton instead.  A      *)
(* listener of an automaton is registered with those nested in it.         *)
(*                                                                         *)
(* Weights, wildcards and Empty labels are left out, PostStar has them; so *)
(* are the field automata: a node is processed when it is reachable in the *)
(* call automaton, and its rules are a parameter.                          *)
(*                                                                         *)
(* The names that SyncPDS has too are longer here: Solvers_proofs extends  *)
(* both.                                                                   *)
(***************************************************************************)
EXTENDS CallStack, FiniteSets

CONSTANTS
    Solver,
    Control,            \* the control states
    Label, Eps,
    Rules,              \* the rules of the program; processing a node adds those at it
    CreateState(_, _), Generated,
    Initial(_),         \* the target of a solver's initial transition, for its query's variable
    FactOf(_),          \* the fact of a state
    SolverStarts        \* solver -> the nodes it starts at, and returns to unbalanced

State == Control \cup Generated \cup {Initial(s) : s \in Solver}
Transition == [start : State, label : Label, target : State]

ASSUME SummariesAssumption ==
    /\ Eps \in Label
    /\ \A r \in Rules :
         /\ r.kind \in {"normal", "push", "pop"}
         /\ r.s1 \in Control /\ r.l1 \in Label \ {Eps} /\ r.s2 \in Control
         /\ r.kind \in {"normal", "push"} => r.l2 \in Label \ {Eps}
         /\ r.kind = "push" => r.callSite \in Label \ {Eps}
    /\ Control \cap Generated = {}
    /\ \A q \in Control, a \in Label : CreateState(q, a) \in Generated
    /\ \A q, p \in Control, a, b \in Label :
         CreateState(q, a) = CreateState(p, b) => q = p /\ a = b
    /\ \A q \in Control, a \in Label : FactOf(CreateState(q, a)) = FactOf(q)
    /\ \A s \in Solver : Initial(s) \notin Generated
    /\ Solver \cap Generated = {}
    /\ SolverStarts \in [Solver -> SUBSET ((Label \ {Eps}) \X Control)]

\* A program is finite (needed where the rules are followed to the end).
ASSUME SummariesFinite ==
    IsFiniteSet(Solver) /\ IsFiniteSet(Control) /\ IsFiniteSet(Label) /\ IsFiniteSet(Generated)

\* An automaton is named by its solver or by the state it is the summary of.
Automaton == Generated \cup Solver
InitialOf(a) == IF a \in Solver THEN Initial(a) ELSE a

\* Where the solver s has the transitions into the state q.
SummaryOf(s, q) == IF FactOf(q) = FactOf(Initial(s)) THEN s ELSE q

\* The solver has calls in its own automaton.
EntersItself(s) == \E q \in Generated : SummaryOf(s, q) = s

\* Bound: the solvers of a run look for the transitions into a generated state in the
\* same automaton.  (Where they do not, equal listeners of theirs put them in different
\* ones, and update may find none.)
LookAlike(s, u) == s = u \/ ~(EntersItself(s) \/ EntersItself(u))

VARIABLES
    trans,           \* <<automaton, transition>>
    nested,          \* nestedAutomatons: <<automaton, automaton>>
    stateListeners,  \* <<automaton, listener>>
    updateListeners, \* <<automaton, listener>>
    nestedListeners, \* CallSummaryListener: <<automaton, solver>>
    reached,         \* setCallingContextReachable: <<solver, node>>
    connected,       \* connectedPushes: <<solver, call site, return site, fact>>
    unbalanced,      \* unbalancedPops: <<solver, state, transition>>
    started          \* <<solver, node>>

summariesListeners == <<stateListeners, updateListeners, nestedListeners>>
reports == <<connected, unbalanced>>
summariesData == <<trans, nested, summariesListeners, reached, reports, started>>
summariesVars == <<summariesData, agenda>>

Trans(s, a, q) == [start |-> s, label |-> a, target |-> q]

(***************************************************************************)
(* Listeners.  `of' is the solver that made the listener.  The listeners   *)
(* of post* are equal also when different solvers made them, and those of  *)
(* a push for its summary never are.                                       *)
(***************************************************************************)
RuleListener(s, r) == [of |-> s, s1 |-> r.s1, kind |-> r.kind, rule |-> r]
Transitive(s, t) == [of |-> s, s1 |-> t.target, kind |-> "transitive", t |-> t]

\* Mutant: the listener waits at the state that the push leads to.
EpsilonAtTarget(s, t, site) ==
    [of |-> s, s1 |-> t.target, kind |-> "epsilon", t |-> t, callSite |-> site]

Epsilon(s, t, site) ==
    [of |-> s, s1 |-> t.start, kind |-> "epsilon", t |-> t, callSite |-> site]

AddEpsilonToInitialState(s, initial, parent) ==
    [of |-> s, s1 |-> initial, kind |-> "entered", parent |-> parent]
OnOutTransitionAddToState(s, t) ==
    [of |-> s, s1 |-> t.target, kind |-> "returned", t |-> t]

Same(l, k) ==
    IF l.kind \in {"entered", "returned"} \/ k.kind # l.kind THEN l = k
    ELSE [l EXCEPT !.of = k.of] = k

CallAutomatonListener(s) == [of |-> s, kind |-> "reach"]
SummaryListener(s, t) == [of |-> s, kind |-> "summary", t |-> t]

HearsIn(l) == l.kind \in {"epsilon", "entered"}

\* Calls.
Add(s, t) == {[op |-> "add", aut |-> SummaryOf(s, t.target), t |-> t]}
Register(a, l) == {[op |-> "register", aut |-> a, l |-> l]}
RegisterUpdate(a, l) == {[op |-> "registerUpdate", aut |-> a, l |-> l]}
Hear(ls, ts, a) == {[op |-> "hear", l |-> l, t |-> t, aut |-> a] : l \in ls, t \in ts}
AddNested(a, b) == {[op |-> "nest", aut |-> a, child |-> b]}
RegisterNested(a, s) == {[op |-> "registerNested", aut |-> a, of |-> s]}
NestedAutomaton(s, a, b) == Register(b, AddEpsilonToInitialState(s, InitialOf(b), a))
Reach(s, n) == {[op |-> "reach", of |-> s, n |-> n]}

\* The solvers there are.
Created == {x[1] : x \in started}

In(a) == {p[2] : p \in {q \in trans : q[1] = a}}
NestedIn(a) == {p[2] : p \in {q \in nested : q[1] = a}}
At(listening, a) == {p[2] : p \in {q \in listening : q[1] = a}}

SummariesInit ==
    /\ trans = {} /\ nested = {}
    /\ stateListeners = {} /\ updateListeners = {} /\ nestedListeners = {}
    /\ reached = {} /\ connected = {} /\ unbalanced = {}
    /\ started = {}
    /\ agenda = <<>>

\* The initial transition of solve, or that of an unbalanced return.  A solver is
\* started from outside or when another one has reached a node; the first time, its
\* constructor registers its listeners.
\* Bound: once for each node.
Start(s, n) ==
    /\ Idle \/ \E c \in Innermost : c.op = "reach"
    /\ <<s, n>> \notin started
    /\ \A u \in Created : LookAlike(s, u)
    /\ started' = started \cup {<<s, n>>}
    /\ updateListeners' = updateListeners \cup {<<s, CallAutomatonListener(s)>>}
    /\ nestedListeners' = nestedListeners \cup {<<s, s>>}
    /\ agenda' = <<Add(s, Trans(n[2], n[1], Initial(s)))>> \o agenda
    /\ UNCHANGED <<trans, nested, stateListeners, reached, reports>>

SummariesEndLoop == LoopEnds /\ UNCHANGED summariesData

(***************************************************************************)
(* The automata.                                                           *)
(***************************************************************************)
AddTransition(c) ==
    /\ c.op = "add"
    /\ IF (c.t.label = Eps /\ c.t.start = c.t.target) \/ <<c.aut, c.t>> \in trans
       THEN Return(c, <<>>) /\ UNCHANGED trans
       ELSE /\ trans' = trans \cup {<<c.aut, c.t>>}
            /\ Return(c, <<{[c EXCEPT !.op = "updates"]}, {[c EXCEPT !.op = "out"]},
                           {[c EXCEPT !.op = "in"]}>>)
    /\ UNCHANGED <<nested, summariesListeners, reached, reports, started>>

\* The loops over the listeners, each over a snapshot.
NotifyListeners(c) ==
    /\ c.op \in {"updates", "out", "in"}
    /\ Return(c, <<Hear(IF c.op = "updates" THEN At(updateListeners, c.aut)
                        ELSE {l \in At(stateListeners, c.aut) :
                                IF c.op = "in" THEN HearsIn(l) /\ l.s1 = c.t.target
                                ELSE ~HearsIn(l) /\ l.s1 = c.t.start},
                        {c.t}, c.aut)>>)
    /\ UNCHANGED summariesData

\* Mutant: the nested automata do not get the listener.
RegisterHere(c) ==
    /\ c.op = "register"
    /\ IF \E k \in At(stateListeners, c.aut) : Same(c.l, k)
       THEN Return(c, <<>>) /\ UNCHANGED stateListeners
       ELSE /\ stateListeners' = stateListeners \cup {<<c.aut, c.l>>}
            /\ Return(c, <<Hear({c.l}, {t \in In(c.aut) :
                                  c.l.s1 = IF HearsIn(c.l) THEN t.target ELSE t.start},
                                c.aut)>>)
    /\ UNCHANGED <<trans, nested, updateListeners, nestedListeners, reached, reports, started>>

RegisterStateListener(c) ==
    /\ c.op = "register"
    /\ IF \E k \in At(stateListeners, c.aut) : Same(c.l, k)
       THEN Return(c, <<>>) /\ UNCHANGED stateListeners
       ELSE /\ stateListeners' = stateListeners \cup {<<c.aut, c.l>>}
            /\ Return(c, <<Hear({c.l}, {t \in In(c.aut) :
                                  c.l.s1 = IF HearsIn(c.l) THEN t.target ELSE t.start},
                                c.aut),
                           {[c EXCEPT !.op = "handOn"]}>>)
    /\ UNCHANGED <<trans, nested, updateListeners, nestedListeners, reached, reports, started>>

\* The listener of a push is new each time; two with the same effect are one here.
RegisterUpdateListener(c) ==
    /\ c.op = "registerUpdate"
    /\ updateListeners' = updateListeners \cup {<<c.aut, c.l>>}
    /\ Return(c, IF <<c.aut, c.l>> \in updateListeners THEN <<>>
                 ELSE <<Hear({c.l}, In(c.aut), c.aut), {[c EXCEPT !.op = "handOnUpdate"]}>>)
    /\ UNCHANGED <<trans, nested, stateListeners, nestedListeners, reached, reports, started>>

HandOn(c) ==
    /\ c.op \in {"handOn", "handOnUpdate"}
    /\ Return(c, <<UNION {IF c.op = "handOn" THEN Register(b, c.l) ELSE RegisterUpdate(b, c.l) :
                            b \in NestedIn(c.aut)}>>)
    /\ UNCHANGED summariesData

\* Mutant: the listeners of before are not handed over.
NestForLater(c) ==
    /\ c.op = "nest"
    /\ nested' = nested \cup {<<c.aut, c.child>>}
    /\ Return(c, IF <<c.aut, c.child>> \in nested THEN <<>>
                 ELSE <<{[c EXCEPT !.op = "giveUpdates"]}, {[c EXCEPT !.op = "giveNested"]}>>)
    /\ UNCHANGED <<trans, summariesListeners, reached, reports, started>>

\* Mutant: an automaton can be nested in another again and again.
NestAgain(c) ==
    /\ c.op = "nest"
    /\ nested' = nested \cup {<<c.aut, c.child>>}
    /\ Resume(c, <<>>, c)
    /\ UNCHANGED <<trans, summariesListeners, reached, reports, started>>

AddNestedAutomaton(c) ==
    /\ c.op = "nest"
    /\ nested' = nested \cup {<<c.aut, c.child>>}
    /\ Return(c, IF <<c.aut, c.child>> \in nested THEN <<>>
                 ELSE <<{[c EXCEPT !.op = "give"]}, {[c EXCEPT !.op = "giveUpdates"]},
                        {[c EXCEPT !.op = "giveNested"]}>>)
    /\ UNCHANGED <<trans, summariesListeners, reached, reports, started>>

\* The loops of addNestedAutomaton.
GiveListeners(c) ==
    /\ c.op \in {"give", "giveUpdates", "giveNested"}
    /\ Return(c, <<CASE c.op = "give" ->
                          UNION {Register(c.child, l) : l \in At(stateListeners, c.aut)}
                     [] c.op = "giveUpdates" ->
                          UNION {RegisterUpdate(c.child, l) : l \in At(updateListeners, c.aut)}
                     [] c.op = "giveNested" ->
                          {[op |-> "giveOne", aut |-> c.aut, child |-> c.child, of |-> s] :
                             s \in At(nestedListeners, c.aut)}>>)
    /\ UNCHANGED summariesData

GiveNestedListener(c) ==
    /\ c.op = "giveOne"
    /\ Return(c, <<NestedAutomaton(c.of, c.aut, c.child), RegisterNested(c.child, c.of)>>)
    /\ UNCHANGED summariesData

RegisterNestedListener(c) ==
    /\ c.op = "registerNested"
    /\ nestedListeners' = nestedListeners \cup {<<c.aut, c.of>>}
    /\ Return(c, IF <<c.aut, c.of>> \in nestedListeners THEN <<>>
                 ELSE <<UNION {NestedAutomaton(c.of, c.aut, b) : b \in NestedIn(c.aut)}>>)
    /\ UNCHANGED <<trans, nested, stateListeners, updateListeners, reached, reports, started>>

(***************************************************************************)
(* The listeners: what each does when it is told of t, an element of       *)
(* automaton aut.                                                          *)
(***************************************************************************)
HeardBy(c, kind) == c.op = "hear" /\ c.l.kind = kind

OnNormal(c) ==
    /\ HeardBy(c, "normal")
    /\ LET r == c.l.rule
       IN Return(c, IF c.t.label # r.l1 THEN <<>> ELSE <<Add(c.l.of, Trans(r.s2, r.l2, c.t.target))>>)
    /\ UNCHANGED summariesData

\* getOrCreateSummaryAutomaton nests the summary in the automaton of t.
OnPush(c) ==
    /\ HeardBy(c, "push")
    /\ LET r == c.l.rule
           ir == CreateState(r.s2, r.l2)
           push == Trans(ir, r.callSite, c.t.target)
           summary == SummaryOf(c.l.of, ir)
       IN Return(c, IF c.t.label # r.l1 THEN <<>>
                    ELSE <<Add(c.l.of, push),
                           AddNested(c.aut, summary),
                           Add(c.l.of, Trans(r.s2, r.l2, ir)),
                           RegisterUpdate(summary, SummaryListener(c.l.of, push)),
                           Register(c.l.of, Epsilon(c.l.of, push, r.l1))>>)
    /\ UNCHANGED summariesData

OnPop(c) ==
    /\ HeardBy(c, "pop")
    /\ LET r == c.l.rule
           pop == Trans(r.s2, Eps, c.t.target)
           lost == c.t.label = r.l1 /\ c.t.target \notin Generated
       IN /\ Return(c, IF c.t.label # r.l1 \/ lost THEN <<>>
                       ELSE <<Add(c.l.of, pop), Register(c.l.of, Transitive(c.l.of, pop))>>)
          /\ unbalanced' = IF lost THEN unbalanced \cup {<<c.l.of, r.s2, c.t>>} ELSE unbalanced
    /\ UNCHANGED <<trans, nested, summariesListeners, reached, connected, started>>

OnTransitive(c) ==
    /\ HeardBy(c, "transitive")
    /\ Return(c, <<Add(c.l.of, Trans(c.l.t.start, c.t.label, c.t.target))>>)
    /\ UNCHANGED summariesData

\* reconnectPush of the solver's own automaton.
OnEpsilon(c) ==
    /\ HeardBy(c, "epsilon")
    /\ connected' = IF c.t.label # Eps THEN connected
                    ELSE connected \cup {<<c.l.of, c.l.callSite, c.l.t.label, c.t.start>>}
    /\ Return(c, <<>>)
    /\ UNCHANGED <<trans, nested, summariesListeners, reached, unbalanced, started>>

\* The listener that a push registers with its summary.
OnSummary(c) ==
    /\ HeardBy(c, "summary")
    /\ Return(c, IF c.t.label = Eps /\ c.t.target = c.l.t.start
                 THEN <<Add(c.l.of, c.t),
                        Add(c.l.of, Trans(c.t.start, c.l.t.label, c.l.t.target))>>
                 ELSE <<>>)
    /\ UNCHANGED summariesData

OnEntered(c) ==
    /\ HeardBy(c, "entered")
    /\ Return(c, IF c.t.label # Eps THEN <<>>
                 ELSE <<Register(c.l.parent, OnOutTransitionAddToState(c.l.of, c.t))>>)
    /\ UNCHANGED summariesData

OnReturned(c) ==
    /\ HeardBy(c, "returned")
    /\ Return(c, <<Reach(c.l.of, <<c.t.label, c.l.t.start>>)>>)
    /\ UNCHANGED summariesData

OnWeightAdded(c) ==
    /\ HeardBy(c, "reach")
    /\ Return(c, IF c.t.start \in Generated THEN <<>>
                 ELSE <<Reach(c.l.of, <<c.t.label, c.t.start>>)>>)
    /\ UNCHANGED summariesData

\* The node is processed: its rules are added, and post* registers their listeners.
SetContextReachable(c) ==
    /\ c.op = "reach"
    /\ reached' = reached \cup {<<c.of, c.n>>}
    /\ Return(c, IF <<c.of, c.n>> \in reached THEN <<>>
                 ELSE <<UNION {Register(c.of, RuleListener(c.of, r)) :
                                 r \in {p \in Rules : <<p.l1, p.s1>> = c.n}}>>)
    /\ UNCHANGED <<trans, nested, summariesListeners, reports, started>>

SummariesStep ==
    \/ SummariesEndLoop
    \/ \E c \in Innermost :
         \/ AddTransition(c)
         \/ NotifyListeners(c)
         \/ RegisterStateListener(c)
         \/ RegisterUpdateListener(c)
         \/ HandOn(c)
         \/ AddNestedAutomaton(c)
         \/ GiveListeners(c)
         \/ GiveNestedListener(c)
         \/ RegisterNestedListener(c)
         \/ OnNormal(c)
         \/ OnPush(c)
         \/ OnPop(c)
         \/ OnTransitive(c)
         \/ OnEpsilon(c)
         \/ OnSummary(c)
         \/ OnEntered(c)
         \/ OnReturned(c)
         \/ OnWeightAdded(c)
         \/ SetContextReachable(c)

SummariesNext ==
    \/ SummariesStep
    \/ \E s \in Solver : \E n \in SolverStarts[s] : Start(s, n)

SummariesSpec == SummariesInit /\ [][SummariesNext]_summariesVars
SummariesFairSpec == SummariesSpec /\ WF_summariesVars(SummariesStep)

(***************************************************************************)
(* What the rules entail for one solver in a single automaton.             *)
(***************************************************************************)
Entails(T) ==
    (UNION {{Trans(r.s2, r.l2, t.target) :
               r \in {p \in Rules : p.kind = "normal" /\ <<p.s1, p.l1>> = <<t.start, t.label>>}} :
              t \in T})
      \cup (UNION {UNION {{Trans(CreateState(r.s2, r.l2), r.callSite, t.target),
                           Trans(r.s2, r.l2, CreateState(r.s2, r.l2))} :
               r \in {p \in Rules : p.kind = "push" /\ <<p.s1, p.l1>> = <<t.start, t.label>>}} :
              t \in T})
      \cup (UNION {{Trans(r.s2, Eps, t.target) :
               r \in {p \in Rules : /\ p.kind = "pop" /\ t.target \in Generated
                                    /\ <<p.s1, p.l1>> = <<t.start, t.label>>}} : t \in T})
      \cup {Trans(p[1].start, p[2].label, p[2].target) :
              p \in {q \in T \X T : q[1].label = Eps /\ q[1].target = q[2].start}}

SaturatedFrom(S) ==
    LET saturate[T \in SUBSET Transition] ==
          LET new == T \cup Entails(T) IN IF new = T THEN T ELSE saturate[new]
    IN saturate[S]

Entailed ==
    [N \in SUBSET UNION {SolverStarts[s] : s \in Solver} |->
        [s \in Solver |-> SaturatedFrom({Trans(n[2], n[1], Initial(s)) : n \in N})]]

ExpectedOf(s) == Entailed[{p[2] : p \in {q \in started : q[1] = s}}][s]

Below(a) ==
    LET close[A \in SUBSET Automaton] ==
          LET new == A \cup {p[2] : p \in {q \in nested : q[1] \in A}}
          IN IF new = A THEN A ELSE close[new]
    IN close[{a}]

-----------------------------------------------------------------------------
(***************************************************************************)
(* Properties.                                                             *)
(***************************************************************************)
\* When all calls have returned, the automata nested in a solver's, directly or
\* not, have exactly the transitions one automaton would have, and the solver
\* has processed their nodes, although another solver may have made a summary
\* and equal listeners of it before, and the solver may have nested its automaton
\* in itself.  (HandlePushListener, createCallSummaries, addNestedAutomaton)
SummariesExact ==
    Idle => \A s \in Created :
              /\ UNION {In(a) : a \in Below(s)} = ExpectedOf(s)
              /\ {p[2] : p \in {q \in reached : q[1] = s}}
                   = {<<t.label, t.start>> : t \in {u \in ExpectedOf(s) : u.start \notin Generated}}

\* When all calls have returned, every listener of an automaton, or an equal one,
\* is registered with the automata nested in it, whichever came first.
\* (registerListener, addNestedAutomaton)
HandedOn ==
    Idle => \A e \in nested :
              /\ \A l \in At(stateListeners, e[1]) :
                   \E k \in At(stateListeners, e[2]) : Same(l, k)
              /\ At(updateListeners, e[1]) \subseteq At(updateListeners, e[2])

\* Every return from a summary is reported to a solver that made the call.  When
\* several did, one of them may be the only one to hear of it: the listeners of a
\* rule are equal for all solvers.  (HandlePushListener, UpdateEpsilonOnPushListener)
ReturnsReported ==
    Idle => \A s \in Created : \A r \in Rules : \A t, e \in ExpectedOf(s) :
        /\ r.kind = "push" /\ <<r.s1, r.l1>> = <<t.start, t.label>>
        /\ e.label = Eps /\ e.target = CreateState(r.s2, r.l2)
        => \E u \in Created : <<u, r.l1, r.callSite, e.start>> \in connected

\* Recursive calls nest automata in each other; handing on ends.
SummariesReturn == []<>Idle
=============================================================================
