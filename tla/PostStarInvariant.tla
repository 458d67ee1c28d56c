-------------------------- MODULE PostStarInvariant --------------------------
(***************************************************************************)
(* Why the automaton is saturated when the outermost call has returned:    *)
(* at any time, whatever a listener still owes to a transition it is       *)
(* registered for is somewhere on the call stack.                          *)
(***************************************************************************)
EXTENDS PostStar, Naturals

\* The calls in a sequence of loops.
CallsOf(s) == UNION {s[i] : i \in DOMAIN s}

\* All calls still to be made.
Todo == CallsOf(agenda)

\* Two entries that tell the client's listener the same thing.
Same(e, f) == /\ e.callSite = f.callSite /\ e.returnSite = f.returnSite
              /\ e.fact = f.fact /\ e.returned = f.returned

\* The effect of call d is visible, or d is still to be made.
Done(d) ==
    \/ d \in Todo
    \/ d.op = "add" /\ Accounts(d.t, d.w)
    \/ d.op = "register" /\ d.l \in listeners
    \/ /\ d.op = "unbalanced"
       /\ <<d.s, d.t>> \in DOMAIN unbalanced
       /\ Combine(unbalanced[<<d.s, d.t>>], d.w) = unbalanced[<<d.s, d.t>>]
    \/ /\ d.op = "reconnect"
       /\ \/ \E e \in connected : Same(e, d.e)
          \/ \E c \in Todo : c.op = "reconnect" /\ Same(c.e, d.e)

Effects(l, t, w) ==
    CASE l.kind = "normal" -> HandleNormal(l, t, w)
      [] l.kind = "push" -> HandlePush(l, t, w)
      [] l.kind = "pop" -> HandlePop(l, t, w)
      [] l.kind = "transitive" -> HandleTransitive(l, t, w)
      [] l.kind = "epsilon" -> HandleEpsilon(l, t, w)

\* Listener l has reacted to t with weight w.
Handled(l, t, w) == \A d \in CallsOf(Effects(l, t, w)) : Done(d)

\* Listener l has reacted to the present weight of t, or will be told of it.
Told(l, t) ==
    \/ [op |-> "hear", l |-> l, t |-> t, w |-> weight[t]] \in Todo
    \/ [op |-> "replay", l |-> l, t |-> t] \in Todo
    \/ [op |-> IF l.kind = "epsilon" THEN "notifyIn" ELSE "notifyOut",
        t |-> t, w |-> weight[t]] \in Todo
    \/ Handled(l, t, weight[t])

\* A call to replay a transition to a listener finds its weight.
ReplaysFind == \A c \in Todo : c.op = "replay" => c.t \in DOMAIN weight

TypeInv == TypeOK /\ ReplaysFind

\* Once post* has started, every rule has its listener, or will have it.
RulesHeeded == started => \A r \in rules : Done([op |-> "register", l |-> r])

\* No listener misses a transition, or a weight, of its state: not one that
\* was added while it was being registered, nor one that was improved between
\* the snapshot of the listeners and its turn.
NoneMissed ==
    \A l \in listeners, t \in DOMAIN weight : Hears(l, t) => Told(l, t)

SaturationInv == TypeInv /\ RulesHeeded /\ NoneMissed

(***************************************************************************)
(* Why the reports are true: whatever a call carries from the automaton is *)
(* still there.                                                            *)
(***************************************************************************)
\* t has had weight w: its present weight absorbs w.
Known(t, w) == t \in DOMAIN weight /\ Combine(weight[t], w) = weight[t]

\* The entry says that a return along an empty transition e reaches a state
\* that a push had left by the entry's return site, with a known weight.
Returns(entry) ==
    /\ entry.combined # {}
    /\ \E e, p \in DOMAIN weight :
          /\ e.label = Eps /\ e.start = entry.fact
          /\ p.start = e.target /\ p.label = entry.returnSite

\* A listener for a push is the client's rule; one for the returns through a
\* push waits at the push's intermediate state.
ProperListener(l) ==
    /\ l.kind = "push" => l \in Rules
    /\ l.kind = "epsilon" => l.s1 = l.t.start /\ l.t.label # Eps

\* What c carries is, or was, so.  Only registered listeners are told, and only
\* of transitions at their state.
Justified(c) ==
    /\ c.op \in {"notifyOut", "notifyIn", "hear", "unbalanced"} => Known(c.t, c.w)
    /\ c.op \in {"hear", "replay"} => c.l \in listeners /\ Hears(c.l, c.t)
    /\ c.op = "register" => ProperListener(c.l)
    /\ c.op = "reconnect" => Returns(c.e)
    /\ c.op = "unbalanced" => c.t.target \notin Generated

CallsJustified == \A c \in Todo : Justified(c)

\* The listeners that are registered, and what has been reported.
Recorded ==
    /\ \A l \in listeners : /\ ProperListener(l)
                            /\ l.kind = "epsilon" => l.t \in DOMAIN weight
    /\ \A e \in connected : Returns(e)
    /\ \A e \in DOMAIN unbalanced : /\ Known(e[2], unbalanced[e])
                                    /\ e[2].target \notin Generated

\* A push adds the transition it leaves by before it registers the listener
\* for its returns.
PushedFirst ==
    \A i \in DOMAIN agenda : \A c \in agenda[i] :
      c.op = "register" /\ c.l.kind = "epsilon" =>
        \/ c.l.t \in DOMAIN weight
        \/ \E j \in DOMAIN agenda :
             j < i /\ \E d \in agenda[j] : d.op = "add" /\ d.t = c.l.t

ReportInv == CallsJustified /\ Recorded /\ PushedFirst

(***************************************************************************)
(* Why the automaton is the least one: no automaton V that the rules R add *)
(* nothing to lacks anything that is in this one, or about to be.          *)
(***************************************************************************)
\* Rules count from the moment poststar is called.
Least == INSTANCE LeastSaturation
           WITH rules <- IF started THEN rules ELSE {}, busy <- agenda # <<>>

Within(V, t, w) == Least!Holds(V, [t |-> t, w |-> w])

\* Whatever l adds when it is told of a transition of V is in V.
ListenerWithin(V, R, l) ==
    /\ l.kind \in {"normal", "push", "pop"} => l \in R
    /\ l.kind = "transitive" =>
         \A u \in DOMAIN V :
           u.start = l.s1 =>
             Within(V, [start |-> l.t.start, label |-> u.label, target |-> u.target],
                    Extend(V[u], l.w))

CallWithin(V, R, c) ==
    /\ c.op = "add" => Within(V, c.t, c.w)
    /\ c.op = "register" => ListenerWithin(V, R, c.l)

Covered(V, R) ==
    /\ Least!Below(weight, V)
    /\ \A l \in listeners : ListenerWithin(V, R, l)
    /\ \A c \in Todo : CallWithin(V, R, c)

AllCovered ==
    \A V \in Least!Automata, R \in SUBSET Rule : Least!Closed(V, R) => Covered(V, R)

\* A transition that the client has added is in the automaton or will be.
SeedsHeeded == \A f \in seeded : Done([op |-> "add", t |-> f.t, w |-> f.w])

LeastInv == AllCovered /\ SeedsHeeded /\ weight \in Least!Automata
=============================================================================
