------------------------ MODULE TransitionFunctions ------------------------
(***************************************************************************)
(* typestate.TransitionFunction: the weights of a typestate analysis, sets *)
(* of transitions of a state machine, and the weights that                 *)
(* TypeStateMachineWeightFunctions gives to rules.                         *)
(***************************************************************************)
EXTENDS FiniteSets

CONSTANTS
    TypeState,     \* typestate.finiteautomata.State
    startState,    \* TypeStateMachineWeightFunctions.initialState
    Identity,      \* Transition.identity(): "ID -> ID"
    Matcher,       \* the MatcherTransitions of the state machine
    Method

Parameter == {"This", "Param1", "Param2"}
Type == {"OnCall", "OnReturn", "OnCallToReturn", "None"}

Plain == [from : TypeState, to : TypeState]

\* MatcherTransition is a subclass, and never equal to a plain Transition.
Element == {Identity} \cup Plain \cup Matcher

ASSUME MachineAssumption ==
    /\ startState \in TypeState
    /\ Matcher \subseteq [from : TypeState, to : TypeState, param : Parameter,
                          type : Type, methods : SUBSET Method]
    /\ Identity \notin Plain /\ Identity \notin Matcher

New(s, t) == [from |-> s, to |-> t]

(***************************************************************************)
(* TransitionFunction.                                                     *)
(***************************************************************************)
one == [rep |-> "ONE", value |-> {}]
zero == [rep |-> "ZERO", value |-> {}]
Function(ts) == [rep |-> "null", value |-> ts]

TransitionFunction == {one, zero} \cup {Function(ts) : ts \in (SUBSET Element) \ {{}, {Identity}}}

\* The body of extendWith's loops.
Compose(first, second) ==
    IF second = Identity THEN {first}
    ELSE IF first = Identity THEN {second}
    ELSE IF first.to = second.from THEN {New(first.from, second.to)}
    ELSE {}

Product(A, B) == UNION {Compose(p[1], p[2]) : p \in A \X B}

ExtendWith(v, w) ==
    IF w = one THEN v
    ELSE IF v = one THEN w
    ELSE IF w = zero \/ v = zero THEN zero
    ELSE LET ress == Product(v.value, w.value)
         IN IF ress = {} THEN zero ELSE Function(ress)

\* Mutant: ONE, which holds no transitions, adds none.
CombineValues(v, w) ==
    IF v = zero THEN w
    ELSE IF w = zero THEN v
    ELSE IF v = one THEN w
    ELSE IF w = one THEN v
    ELSE Function(v.value \cup w.value)

CombineWith(v, w) ==
    IF v = zero THEN w
    ELSE IF w = zero THEN v
    ELSE IF v = one /\ w = one THEN one
    ELSE IF v = one \/ w = one
    THEN Function((IF w = one THEN v.value ELSE w.value) \cup {Identity})
    ELSE Function(v.value \cup w.value)

(***************************************************************************)
(* TypeStateMachineWeightFunctions.  An event is a rule's statement: the   *)
(* kind of rule, the method it calls, enters or leaves, and which of the   *)
(* method's parameters the fact is.                                        *)
(***************************************************************************)
Event == [kind : {"normal", "push", "pop"}, method : Method,
          fact : Parameter \cup {"other"}]

Matching(e, type) == {m \in Matcher : e.method \in m.methods /\ m.type = type}

\* callToReturn keeps the matchers themselves; push and pop make transitions.
Matched(e) ==
    CASE e.kind = "normal" -> IF e.fact = "This"
                              THEN Matching(e, "OnCallToReturn") ELSE {}
      [] e.kind = "push" -> {New(m.from, m.to) : m \in
                               {n \in Matching(e, "OnCall") : n.param = e.fact}}
      [] e.kind = "pop" -> {New(m.from, m.to) : m \in
                               {n \in Matching(e, "OnReturn") : n.param = e.fact}}

\* normal, push and pop: one if nothing matches.
WeightOf(e) == IF Matched(e) = {} THEN one ELSE Function(Matched(e))

\* The weight of a seed's transition.
initialTransition == Function({New(startState, startState)})

(***************************************************************************)
(* What a weight means.                                                    *)
(***************************************************************************)
\* The transitions of a weight, the two special weights as sets.
Transitions(w) == IF w = one THEN {Identity} ELSE w.value

\* Where the transitions ts take an object in state s.
Image(ts, s) ==
    (IF Identity \in ts THEN {s} ELSE {}) \cup
    {t.to : t \in {u \in ts \ {Identity} : u.from = s}}

\* What a statement that may take the transitions ts does to an object in state
\* s: no transition at all leaves it alone.
After(ts, s) == IF ts = {} THEN {s} ELSE {t.to : t \in {u \in ts : u.from = s}}
=============================================================================
