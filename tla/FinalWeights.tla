---------------------------- MODULE FinalWeights ----------------------------
(***************************************************************************)
(* WeightedPAutomaton.getTransitionsToFinalWeights: a state listener of    *)
(* the automaton that walks from the initial state against the transitions *)
(* through generated states and combines, for every transition it passes,  *)
(* the weights of the ways to it.  The map it returns stays live: the      *)
(* listeners remain registered while the automaton goes on growing.        *)
(***************************************************************************)
EXTENDS CallStack, FiniteSets

CONSTANTS
    State, Generated, initialState,
    Transition,            \* [start : State, target : State, ...]
    Weight, One, Extend(_, _), Combine(_, _),
    Seeds                  \* the additions [t, w] the automaton's users make

ASSUME FinalWeightsAssumption ==
    /\ Generated \subseteq State /\ initialState \in State
    /\ \A t \in Transition : t.start \in State /\ t.target \in State
    /\ One \in Weight
    /\ \A v, w \in Weight : Extend(v, w) \in Weight /\ Combine(v, w) \in Weight
    /\ \A f \in Seeds : f.t \in Transition /\ f.w \in Weight

\* What the ways of an automaton are computed from is finite.
ASSUME FinalWeightsFinite == IsFiniteSet(Transition) /\ IsFiniteSet(Weight)

VARIABLES
    seeded,      \* the additions made so far
    weight,      \* transitionToWeights
    listeners,   \* the ValueComputationListeners: [state, weight]
    final        \* transitionsToFinalWeights

data == <<seeded, weight, listeners, final>>
vars == <<data, agenda>>

ValueComputationListener == [state : State, weight : Weight]

Init ==
    /\ seeded = {} /\ weight = <<>> /\ listeners = {} /\ final = <<>>
    /\ agenda = <<>>

\* Maps with their default, and with one entry more.
Get(f, t, default) == IF t \in DOMAIN f THEN f[t] ELSE default
Put(f, t, w) == [u \in DOMAIN f \cup {t} |-> IF u = t THEN w ELSE f[u]]

(***************************************************************************)
(* The users of the automaton, at rest or called from onWeightAdded.       *)
(***************************************************************************)
UserRuns == Idle \/ [op |-> "user"] \in Innermost

\* Bound: each seed is added once.
AddSeed(f) ==
    /\ UserRuns /\ f \notin seeded
    /\ seeded' = seeded \cup {f}
    /\ agenda' = <<{[op |-> "add", t |-> f.t, w |-> f.w]}>> \o agenda
    /\ UNCHANGED <<weight, listeners, final>>

\* Asked again, it registers an equal listener and returns the same map.
GetTransitionsToFinalWeights ==
    /\ UserRuns
    /\ listeners = {}
    /\ agenda' = <<{[op |-> "register",
                     l |-> [state |-> initialState, weight |-> One]]}>> \o agenda
    /\ UNCHANGED data

UserReturn(c) == c.op = "user" /\ Return(c, <<>>) /\ UNCHANGED data

EndLoop == LoopEnds /\ UNCHANGED data

(***************************************************************************)
(* The automaton.                                                          *)
(***************************************************************************)
\* Mutant: an improved weight is kept and not announced.
AddQuietly(c) ==
    /\ c.op = "add"
    /\ weight' = Put(weight, c.t, Combine(Get(weight, c.t, c.w), c.w))
    /\ Return(c, IF c.t \in DOMAIN weight THEN <<>>
                 ELSE <<{[op |-> "user"]},
                        {[op |-> "notify", t |-> c.t, w |-> weight'[c.t]]}>>)
    /\ UNCHANGED <<seeded, listeners, final>>

AddWeightForTransition(c) ==
    /\ c.op = "add"
    /\ weight' = Put(weight, c.t, Combine(Get(weight, c.t, c.w), c.w))
    /\ Return(c, IF weight' = weight THEN <<>>
                 ELSE <<{[op |-> "user"]},
                        {[op |-> "notify", t |-> c.t, w |-> weight'[c.t]]}>>)
    /\ UNCHANGED <<seeded, listeners, final>>

Hear(l, t, w) == [op |-> "in", l |-> l, t |-> t, w |-> w]

\* The loop over the listeners of t's target, with the weight of that time; the
\* users have listeners there as well.
NotifyListeners(c) ==
    /\ c.op = "notify"
    /\ Return(c, <<{Hear(l, c.t, c.w) :
                      l \in {k \in listeners : k.state = c.t.target}}
                   \cup {[op |-> "user"]}>>)
    /\ UNCHANGED data

\* registerListener: two listeners of a state are equal if their weights are.
\* The replay hands out the weight of each transition when it comes to it.
RegisterListener(c) ==
    /\ c.op = "register"
    /\ listeners' = listeners \cup {c.l}
    /\ Return(c, IF c.l \in listeners THEN <<>>
                 ELSE <<{[op |-> "replay", l |-> c.l, t |-> t] :
                           t \in {u \in DOMAIN weight : u.target = c.l.state}}>>)
    /\ UNCHANGED <<seeded, weight, final>>

\* Mutant: the replay comes to the same transition again.
ReplayAgain(c) ==
    /\ c.op = "replay"
    /\ Resume(c, <<{Hear(c.l, c.t, weight[c.t])}>>, c)
    /\ UNCHANGED data

Replay(c) ==
    /\ c.op = "replay"
    /\ Resume(c, <<>>, Hear(c.l, c.t, weight[c.t]))
    /\ UNCHANGED data

OnInTransitionAdded(c) ==
    /\ c.op = "in"
    /\ LET new == Extend(c.l.weight, c.w)
       IN final' = Put(final, c.t, Combine(Get(final, c.t, new), new))
    /\ Return(c, <<IF c.t.start \notin Generated THEN {}
                   ELSE {[op |-> "register",
                          l |-> [state |-> c.t.start, weight |-> final'[c.t]]]}>>)
    /\ UNCHANGED <<seeded, weight, listeners>>

Step ==
    \/ EndLoop
    \/ \E c \in Innermost :
         \/ UserReturn(c)
         \/ AddWeightForTransition(c)
         \/ NotifyListeners(c)
         \/ RegisterListener(c)
         \/ Replay(c)
         \/ OnInTransitionAdded(c)

Next ==
    \/ Step
    \/ \E f \in Seeds : AddSeed(f)
    \/ GetTransitionsToFinalWeights

Spec == Init /\ [][Next]_vars

\* The one thread keeps running, and the automaton's users return.
FairSpec == Spec /\ WF_vars(Step)

(***************************************************************************)
(* Properties.                                                             *)
(***************************************************************************)
Into(q) == {t \in DOMAIN weight : t.target = q}

\* What the ways that lead from the initial state through generated states are
\* made of: transitions with a weight, each way one transition longer.
Longer(ways) ==
    {<<t, Extend(One, weight[t])>> : t \in Into(initialState)} \cup
    UNION {{<<t, Extend(p[2], weight[t])>> : t \in Into(p[1].start)} :
           p \in {q \in ways : q[1].start \in Generated}}

WaysFrom[ways \in SUBSET (Transition \X Weight)] ==
    IF Longer(ways) \subseteq ways THEN ways ELSE WaysFrom[ways \cup Longer(ways)]

Ways == WaysFrom[{}]

\* The weights left to combine are taken one after the other, in any order.
CombinedFrom[p \in Weight \X SUBSET Weight] ==
    IF p[2] = {} THEN p
    ELSE LET w == CHOOSE w \in p[2] : TRUE
         IN CombinedFrom[<<Combine(p[1], w), p[2] \ {w}>>]

\* The combined weight of all ways to t.
WeightsOf(ways, t) == {p[2] : p \in {q \in ways : q[1] = t}}
Combined(ws) == CombinedFrom[<<CHOOSE w \in ws : TRUE, ws>>][1]

\* Whenever the outermost call has returned and the map has been asked for, it
\* holds exactly the transitions that a way leads to, each with the combined
\* weight of all of its ways, whatever was added before, after and in between.
FinalWeightsExact ==
    Idle /\ listeners # {} =>
        /\ DOMAIN final = {p[1] : p \in Ways}
        /\ \A t \in DOMAIN final : final[t] = Combined(WeightsOf(Ways, t))

\* Every call returns, also over a cycle of generated states.
CallsReturn == ~Idle ~> Idle
=============================================================================
