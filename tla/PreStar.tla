------------------------------ MODULE PreStar ------------------------------
(***************************************************************************)
(* wpds.impl.PreStar: the worklist algorithm for the configurations from   *)
(* which an automaton's configurations can be reached.  One call of        *)
(* prestar on an automaton that already holds transitions; its loops are   *)
(* the loops of CallStack, the rules are iterated in any order.            *)
(***************************************************************************)
EXTENDS CallStack, SequencesExt

CONSTANTS
    State, Label,
    Wildcard,              \* labels that are wildcards: only as call sites
    Weight, One, Zero,     \* the weight domain, fa.getOne(), fa.getZero()
    Extend(_, _), Combine(_, _),
    Rules,                 \* the rules of the pushdown system: records of kind
                           \* "normal" [s1, l1, s2, l2, w], "push", with a
                           \* callSite, and "pop", without l2
    Initials               \* the automata prestar may be called with, functions
                           \* from transitions to weights

VARIABLES
    weight,     \* fa's transitions with their weights
    worklist    \* worklist

vars == <<weight, worklist, agenda>>

Edge(s, a, q) == [start |-> s, label |-> a, target |-> q]
Update(t, w, previous) ==
    {[op |-> "update", t |-> t, w |-> w, previous |-> previous]}
RulesOf(kind) == {r \in Rules : r.kind = kind}

\* fa.addWeightForTransition
Put(m, t, w) ==
    [u \in DOMAIN m \cup {t} |->
        IF u # t THEN m[u] ELSE IF t \in DOMAIN m THEN Combine(m[t], w) ELSE w]

\* getOrCreateWeight
WeightOf(m, t) == IF t \in DOMAIN m THEN m[t] ELSE Zero

\* prestar, up to its main loop: the call "loop".
Init ==
    /\ weight \in Initials
    /\ \E order \in SetToSeqs(DOMAIN weight) : worklist = order
    /\ agenda = <<{[op |-> "one", t |-> t] : t \in DOMAIN weight},
                  UNION {Update(Edge(r.s1, r.l1, r.s2), r.w, <<>>) :
                           r \in RulesOf("pop")},
                  {[op |-> "loop"]}>>

AddOne(c) ==
    /\ c.op = "one"
    /\ weight' = Put(weight, c.t, One)
    /\ Return(c, <<>>)
    /\ UNCHANGED worklist

\* The main loop takes the first transition; the rules that end in it, and
\* those that may push onto it, are handled one after the other.
TakeFirst(c) ==
    /\ c.op = "loop" /\ worklist # <<>>
    /\ worklist' = Tail(worklist)
    /\ LET t == Head(worklist)
           ending(kind) == {r \in RulesOf(kind) : r.s2 = t.start /\ r.l2 = t.label}
       IN Resume(c, <<UNION {Update(Edge(r.s1, r.l1, t.target), r.w, <<t>>) :
                               r \in ending("normal")},
                      {[op |-> "ends", r |-> r, t |-> t] : r \in ending("push")},
                      {[op |-> "below", r |-> r, t |-> t] : r \in RulesOf("push")}>>,
                 c)
    /\ UNCHANGED weight

LoopDone(c) ==
    /\ c.op = "loop" /\ worklist = <<>>
    /\ Return(c, <<>>)
    /\ UNCHANGED <<weight, worklist>>

\* t is what rule r pushes on top: every transition of the automaton is tried
\* for the call site below it.
PushRuleEnds(c) ==
    /\ c.op = "ends"
    /\ Return(c, <<UNION {
          Update(Edge(c.r.s1, IF u.label = c.r.callSite THEN c.r.l1 ELSE u.label,
                      u.target), c.r.w, <<c.t, u>>) :
          u \in {v \in DOMAIN weight :
                   v.label = c.r.callSite \/ c.r.callSite \in Wildcard}}>>)
    /\ UNCHANGED <<weight, worklist>>

\* t may be the call site of rule r, which pushes a transition into t's target.
PushRuleBelow(c) ==
    /\ c.op = "below"
    /\ LET u == Edge(c.r.s2, c.r.l2, c.t.target)
           wild == c.r.callSite \in Wildcard
       IN Return(c, <<IF (wild \/ c.r.callSite = c.t.label) /\ u \in DOMAIN weight
                      THEN Update(Edge(c.r.s1, IF wild THEN c.t.label ELSE c.r.l1,
                                       c.t.target), c.r.w, <<u, c.t>>)
                      ELSE {}>>)
    /\ UNCHANGED <<weight, worklist>>

\* update: addTransition gives the transition the weight One before its old
\* weight is read.
DoUpdate(c) ==
    /\ c.op = "update"
    /\ LET added == Put(weight, c.t, One)
           fr == FoldLeft(LAMBDA w, u : Extend(w, WeightOf(added, u)),
                          c.w, c.previous)
           newLt == Combine(added[c.t], fr)
       IN /\ weight' = Put(added, c.t, newLt)
          /\ worklist' = IF newLt = added[c.t] THEN worklist
                         ELSE Append(worklist, c.t)
    /\ Return(c, <<>>)

EndLoop == LoopEnds /\ UNCHANGED <<weight, worklist>>

Next ==
    \/ EndLoop
    \/ \E c \in Innermost :
         \/ AddOne(c)
         \/ TakeFirst(c)
         \/ LoopDone(c)
         \/ PushRuleEnds(c)
         \/ PushRuleBelow(c)
         \/ DoUpdate(c)

\* prestar runs to its end.
Spec == Init /\ [][Next]_vars /\ WF_vars(Next)

(***************************************************************************)
(* Properties.                                                             *)
(***************************************************************************)
\* When prestar has returned, every configuration from which a normal rule
\* leads to an accepted one is accepted: what PDSPrestarTests.simple expects
\* of a chain of two rules.
NormalRulesSaturated ==
    Idle => \A r \in RulesOf("normal"), t \in DOMAIN weight :
               t.start = r.s2 /\ t.label = r.l2
               => Edge(r.s1, r.l1, t.target) \in DOMAIN weight
=============================================================================
