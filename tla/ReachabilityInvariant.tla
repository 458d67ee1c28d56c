----------------------- MODULE ReachabilityInvariant -----------------------
(***************************************************************************)
(* The inductive invariants behind ToldOnlyReachable and ToldAllReachable. *)
(* SoundInv: not only what the visitor stores but every pair a loop of its *)
(* closure still holds is a path, however stale the snapshot the loop runs *)
(* over.  CompleteInv: whatever is missing from the closure, from its      *)
(* subscriptions or from what a listener has heard, a call on the stack is *)
(* bound to supply.                                                        *)
(***************************************************************************)
EXTENDS Reachability

Paths(pairs) == \A e \in pairs : Reachable(e[1], e[2])

\* A TransitiveClosure listens where its listener can reach.
Grounded(k) == Reachable(k.from, k.at) /\ <<k.from, k.l>> \in listeners

\* The calls that may be on the stack.
SoundCall == {c \in Call :
    /\ c.op \in {"onWeightAdded", "notify", "hear"} => c.t \in transitions
    /\ c.op \in {"register", "hear"} => Grounded(c.k)
    /\ c.op = "hear" => c.t.start = c.k.at
    /\ c.op \in {"insert", "count", "invert", "makeEdge", "spread"} => Paths({c.e})
    /\ c.op \in {"makeEdge", "spread", "close"} => Paths(c.worklist)
    /\ c.op = "close" => Paths(c.todo)}

\* The values of the variables but agenda.
DataTypes ==
    /\ seeded \subseteq Seeds
    /\ transitions \subseteq Transition
    /\ closures \subseteq TransitiveClosure
    /\ attached \in BOOLEAN
    /\ listeners \subseteq State \X Listener
    /\ adjacent \subseteq Pair /\ reaches \subseteq Pair
    /\ inverse \subseteq Pair /\ counted \subseteq Pair
    /\ told \subseteq Listener \X Transition

Stored ==
    /\ Paths(adjacent) /\ Paths(reaches) /\ Paths(inverse)
    /\ \A k \in closures : Grounded(k)

SoundInv ==
    /\ DataTypes
    /\ Stored
    /\ ToldOnlyReachable
    /\ agenda \in Seq(SUBSET SoundCall)

-----------------------------------------------------------------------------
\* x reaches y and there is an edge from y to z: the call c is bound to connect
\* x to z, because it spreads that edge, still follows <<x, y>> or tries <<x, z>>.
Owes(c, x, y, z) ==
    \/ c.op \in {"makeEdge", "spread"} /\ c.e = <<y, z>>
    \/ c.op \in {"makeEdge", "spread", "close"} /\ <<x, y>> \in c.worklist
    \/ c.op = "close" /\ <<x, z>> \in c.todo

Owed(x, y, z) == \E c \in Waiting : Owes(c, x, y, z)

Propagated == \A x, y, z \in State :
    <<x, y>> \in reaches /\ <<y, z>> \in adjacent
      => <<x, z>> \in reaches \/ Owed(x, y, z)

\* inverseReaches knows e, or is called for it.
Inverted(e) == e \in inverse \/ [op |-> "invert", e |-> e] \in Waiting

\* The edge e is made, or on its way through insertEdge.
Edged(e) ==
    \/ e \in adjacent
    \/ [op |-> "insert", e |-> e] \in Waiting
    \/ \E c \in Waiting : c.op = "makeEdge" /\ c.e = e

\* The visitor has followed every transition, or is yet to be told of it.
Followed == attached => \A t \in transitions :
    \/ [op |-> "onWeightAdded", t |-> t] \in Waiting
    \/ /\ Inverted(<<t.start, t.start>>)
       /\ t.label \in Continue => Edged(<<t.start, t.target>>)

\* A listener subscribes wherever its state can reach.
Subscribed == \A e \in inverse, l \in Listener :
    <<e[1], l>> \in listeners =>
      LET k == [at |-> e[2], from |-> e[1], l |-> l]
      IN  k \in closures \/ [op |-> "register", k |-> k] \in Waiting

\* A subscription has passed on every transition that leaves its state.
Notified == \A k \in closures, t \in transitions :
    k.at = t.start =>
      \/ <<k.l, t>> \in told
      \/ [op |-> "hear", k |-> k, t |-> t] \in Waiting
      \/ [op |-> "notify", t |-> t] \in Waiting

\* The relations nest, and a call that enters a pair in one of them finds it in
\* the larger one.
Nested ==
    /\ adjacent \subseteq reaches /\ reaches \subseteq inverse
    /\ counted \subseteq reaches
    /\ \A c \in Waiting :
         /\ c.op \in {"count", "makeEdge", "spread"} => c.e \in reaches
         /\ c.op = "watch" => attached
    /\ listeners # {} => attached

CompleteInv == Propagated /\ Followed /\ Subscribed /\ Notified /\ Nested
=============================================================================
