---------------------------- MODULE FinalStates ----------------------------
(***************************************************************************)
(* The final weights of a typestate analysis.  The weights of the automaton*)
(* are transition functions (Extend is ExtendWith, Combine CombineWith,    *)
(* One one).  An addition carries what post* and the strong updates make of*)
(* the rules' weights and the seed's, and next to it, made in the same way,*)
(* the pairs of states that an object may be in before and after.          *)
(***************************************************************************)
EXTENDS FinalWeights, TransitionFunctions

\* <<a weight, the pairs of states of the statements that it stands for>>.
OneEffect == <<one, {<<s, s>> : s \in TypeState}>>
SeedEffect == <<initialTransition, {<<startState, startState>>}>>
RuleEffect(e) ==
    <<WeightOf(e), {p \in TypeState \X TypeState : p[2] \in After(Matched(e), p[1])}>>

\* A weight that a rule's extends (also by a strong update: another rule's weight), and
\* two weights combined, as a weak update does and an automaton does all the time.
Then(c, d) ==
    <<ExtendWith(c[1], d[1]),
      {<<p[1][1], p[2][2]>> : p \in {q \in c[2] \X d[2] : q[1][2] = q[2][1]}}>>
Either(c, d) == <<CombineWith(c[1], d[1]), c[2] \cup d[2]>>

Further(C) == {Then(p[1], p[2]) : p \in C \X C} \cup {Either(p[1], p[2]) : p \in C \X C}

EffectsFrom[C \in SUBSET (TransitionFunction \X SUBSET (TypeState \X TypeState))] ==
    IF Further(C) \subseteq C THEN C ELSE EffectsFrom[C \cup Further(C)]

Effects == EffectsFrom[{OneEffect, SeedEffect} \cup {RuleEffect(e) : e \in Event}]

\* What an analysis adds to the automaton.
Adds(t, c) == [t |-> t, w |-> c[1], moves |-> c[2]]

\* The additions of an analysis, whose weights are transition functions.
ASSUME FinalStatesAssumption ==
    /\ Weight = TransitionFunction /\ One = one
    /\ \A v, w \in Weight : Extend(v, w) = ExtendWith(v, w) /\ Combine(v, w) = CombineWith(v, w)
    /\ \A f \in Seeds : f = Adds(f.t, <<f.w, f.moves>>) /\ <<f.w, f.moves>> \in Effects

\* A state machine has finitely many states.
ASSUME FinalStatesFinite == IsFiniteSet(TypeState)

AddedInto(q) == {f \in seeded : f.t.target = q}

\* The pairs of states along the ways to each transition, one pair at a time.
FurtherMoves(moves) ==
    (UNION {{<<f.t, p>> : p \in f.moves} : f \in AddedInto(initialState)}) \cup
    UNION {UNION {{<<f.t, <<m[2][1], p[2]>>>> : p \in {r \in f.moves : r[1] = m[2][2]}} :
                  f \in AddedInto(m[1].start)} :
           m \in {n \in moves : n[1].start \in Generated}}

MovesFrom[moves \in SUBSET (Transition \X (TypeState \X TypeState))] ==
    IF FurtherMoves(moves) \subseteq moves THEN moves
    ELSE MovesFrom[moves \cup FurtherMoves(moves)]

StateMoves == MovesFrom[{}]

\* When all calls have returned and the weights were asked for, the typestates
\* that a final weight leads an object to are those that the statements along the
\* ways lead it to, one after the other: nothing is lost or added by combining
\* the weights of a transition before they are extended, by ONE and ZERO, or by
\* the order of it all.  (extendWith, combineWith, onInTransitionAdded)
FinalStatesExact ==
    Idle /\ listeners # {} =>
        \A t \in DOMAIN final, s \in TypeState :
            Image(Transitions(final[t]), s) =
              {m[2][2] : m \in {n \in StateMoves : n[1] = t /\ n[2][1] = s}}
=============================================================================
