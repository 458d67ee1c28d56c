---------------------------- MODULE Saturation ----------------------------
(***************************************************************************)
(* What a client of the post* solver may rely on, whatever order it adds   *)
(* rules and transitions in: the automaton only improves, never says more  *)
(* than the rules and transitions added so far entail, and says exactly    *)
(* that once the outermost call has returned.                              *)
(***************************************************************************)
EXTENDS Entailment, FiniteSets, FiniteSetsExt

CONSTANTS Combine(_, _), Rules, Seeds

VARIABLES rules, seeded, weight, busy

vars == <<rules, seeded, weight, busy>>

\* W with the facts of F combined into it.
CombineAll(W, F) ==
    [t \in DOMAIN W \cup {f.t : f \in F} |->
        LET ws == {f.w : f \in {g \in F : g.t = t}}
                    \cup (IF t \in DOMAIN W THEN {W[t]} ELSE {})
        IN FoldSet(Combine, CHOOSE w \in ws : TRUE, ws)]

RECURSIVE Saturate(_, _)
Saturate(W, R) ==
    LET new == CombineAll(W, {f \in Normal(W, R) \cup Push(W, R) \cup Pop(W, R) :
                                NotEmptyLoop(f)})
        forwarded == R \cup Forwarded(W, R)
    IN IF new = W /\ forwarded = R THEN W ELSE Saturate(new, forwarded)

\* What rules R entail from the transitions S, for every R and S.
Entailed ==
    [R \in SUBSET Rules, S \in SUBSET Seeds |->
        Saturate(CombineAll(<<>>, {f \in S : NotEmptyLoop(f)}), R)]

\* W says nothing that V does not.
Below(W, V) ==
    \A t \in DOMAIN W : t \in DOMAIN V /\ Combine(W[t], V[t]) = V[t]

Init == rules = {} /\ seeded = {} /\ weight = <<>> /\ busy = FALSE

\* The client calls, adding rules or transitions or neither.
Ask ==
    /\ rules' \in SUBSET Rules /\ rules \subseteq rules'
    /\ seeded' \in SUBSET Seeds /\ seeded \subseteq seeded'
    /\ weight' = weight
    /\ busy' = TRUE

\* The solver works, and may return once it has found everything.
Work ==
    /\ busy
    /\ UNCHANGED <<rules, seeded>>
    /\ Below(weight, weight')
    /\ Below(weight', Entailed[rules, seeded])
    /\ busy' \in BOOLEAN
    /\ ~busy' => weight' = Entailed[rules, seeded]

Next == Ask \/ Work

Spec == Init /\ [][Next]_vars
=============================================================================
