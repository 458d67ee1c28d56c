----------------------------- MODULE Entailment -----------------------------
(***************************************************************************)
(* One round of post*: what each rule of a set R adds to an automaton W,   *)
(* a function from transitions to weights.                                 *)
(***************************************************************************)

CONSTANTS Wildcard, Excludes, Eps, Empties, Generated, CreateState(_, _),
          One, Extend(_, _)

Edge(s, a, q) == [start |-> s, label |-> a, target |-> q]
WithWeight(t, w) == [t |-> t, w |-> w]
Wild(a) == a \in Wildcard
Fits(r, t) == r.s1 = t.start /\ (r.l1 = t.label \/ Wild(r.l1))

Normal(W, R) ==
    {WithWeight(Edge(rt[1].s2, IF Wild(rt[1].l2) THEN rt[2].label ELSE rt[1].l2,
                     rt[2].target), Extend(W[rt[2]], rt[1].w)) :
       rt \in {x \in R \X DOMAIN W :
                 /\ x[1].kind = "normal" /\ Fits(x[1], x[2])
                 /\ Wild(x[1].l2) => /\ x[2].label # Eps
                                     /\ x[2].label \notin Excludes[x[1].l2]}}

Push(W, R) ==
    UNION {LET r == rt[1]
               t == rt[2]
               ir == CreateState(r.s2, r.l2)
               site == IF Wild(r.callSite) THEN t.label ELSE r.callSite
           IN {WithWeight(Edge(r.s2, r.l2, ir), One),
               WithWeight(Edge(ir, site, t.target), Extend(W[t], r.w))} :
             rt \in {x \in R \X DOMAIN W :
                       /\ x[1].kind = "push" /\ Fits(x[1], x[2])
                       /\ Wild(x[1].callSite) => x[2].label # Eps}}

Popped(W, R) == {x \in R \X DOMAIN W : /\ x[1].kind = "pop" /\ Fits(x[1], x[2])
                                       /\ x[2].target \in Generated}

Pop(W, R) ==
    UNION {LET v == Extend(W[x[2]], x[1].w)
           IN {WithWeight(Edge(x[1].s2, Eps, x[2].target), v)}
                \cup {WithWeight(Edge(x[1].s2, u.label, u.target), Extend(W[u], v)) :
                        u \in {t \in DOMAIN W : t.start = x[2].target}} :
             x \in Popped(W, R)}

\* A pop rule also applies behind a transition with an Empty label.
Forwarded(W, R) ==
    {[x[1] EXCEPT !.s1 = x[2].target] :
       x \in {y \in R \X DOMAIN W : /\ y[1].kind = "pop" /\ y[1].s1 = y[2].start
                                    /\ y[2].label \in Empties}}

\* addWeightForTransition ignores empty self-loops.
NotEmptyLoop(f) == ~(f.t.start = f.t.target /\ f.t.label = Eps)
=============================================================================
