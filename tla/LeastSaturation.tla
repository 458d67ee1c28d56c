-------------------------- MODULE LeastSaturation --------------------------
(***************************************************************************)
(* What a client of the post* solver may rely on, said without saying how  *)
(* it is computed: the automaton only improves, it says no more than any   *)
(* automaton that the rules cannot add to, and it is such an automaton     *)
(* itself once the outermost call has returned.  It is then the least one. *)
(*                                                                         *)
(* Saturation says the same by an iteration, for instances TLC can check;  *)
(* this is said of every pushdown system, of infinite ones too.            *)
(***************************************************************************)
EXTENDS Entailment

CONSTANTS Transition, Weight, Combine(_, _), Rule, Rules, Seeds

VARIABLES rules, seeded, weight, busy

vars == <<rules, seeded, weight, busy>>

Automata == UNION {[D -> Weight] : D \in SUBSET Transition}

\* The automaton V accounts for the fact f, an empty self-loop aside.
Absorbs(V, f) == f.t \in DOMAIN V /\ Combine(V[f.t], f.w) = V[f.t]
Holds(V, f) == NotEmptyLoop(f) => Absorbs(V, f)

\* W says nothing that V does not.
Below(W, V) == \A t \in DOMAIN W : Absorbs(V, WithWeight(t, W[t]))

\* V holds what was added, and no rule of R, among them those that were added
\* and those that pop rules are forwarded to, adds anything to it.
Closed(V, R) ==
    /\ rules \cup Forwarded(V, R) \subseteq R
    /\ \A f \in seeded \cup Normal(V, R) \cup Push(V, R) \cup Pop(V, R) : Holds(V, f)

NothingInvented ==
    \A V \in Automata, R \in SUBSET Rule : Closed(V, R) => Below(weight, V)

NothingMissing == \E R \in SUBSET Rule : Closed(weight, R)

Init == rules = {} /\ seeded = {} /\ DOMAIN weight = {} /\ busy = FALSE

\* The client calls, adding rules or transitions or neither.
Ask ==
    /\ rules' \in SUBSET Rules /\ rules \subseteq rules'
    /\ seeded' \in SUBSET Seeds /\ seeded \subseteq seeded'
    /\ weight' = weight
    /\ busy' = TRUE

\* The solver works, and may return once nothing is missing.
Work ==
    /\ busy
    /\ UNCHANGED <<rules, seeded>>
    /\ weight' \in Automata
    /\ Below(weight, weight')
    /\ NothingInvented'
    /\ busy' \in BOOLEAN
    /\ ~busy' => NothingMissing'

Next == Ask \/ Work

Spec == Init /\ [][Next]_vars
=============================================================================
