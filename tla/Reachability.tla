---------------------------- MODULE Reachability ----------------------------
(***************************************************************************)
(* wpds.interfaces.ForwardDFSVisitor, and its subclass                     *)
(* ForwardDFSEpsilonVisitor, over a WeightedPAutomaton that grows: an      *)
(* incremental transitive closure whose listeners hear of every transition *)
(* that leaves a state reachable from theirs.  A listener may add          *)
(* transitions and listeners when it is told of one, in the middle of the  *)
(* closure's own loops.                                                    *)
(*                                                                         *)
(* Of the automaton only the transitions are kept.  Its weights show in    *)
(* one way: a transition is announced again when its weight improves.      *)
(***************************************************************************)
EXTENDS CallStack, FiniteSets

CONSTANTS
    State,
    Label,
    Continue,     \* labels for which continueWith holds: all, or the Empty ones
    Seeds,        \* the additions a client may make, each changing a weight
                  \* (so no empty self-loop)
    Listener,     \* ReachabilityListener objects
    Watches       \* the <<state, listener>> registrations a client may make

Transition == [start : State, label : Label, target : State]
Pair == State \X State

ASSUME ReachabilityAssumption ==
    /\ Continue \subseteq Label
    /\ \A f \in Seeds : f.t \in Transition
    /\ Watches \subseteq State \X Listener

VARIABLES
    seeded,      \* the additions made so far
    transitions, \* WeightedPAutomaton.transitions
    closures,    \* the TransitiveClosure listeners in stateListeners
    attached,    \* the visitor exists and listens to the automaton
    listeners,   \* listeners: state -> ReachabilityListener
    adjacent,    \* adjacent: <<from, to>>
    reaches,     \* reaches, as <<from, to>>
    inverse,     \* inverseReaches: <<from, to>>
    counted,     \* refCount has an entry for <<from, to>>
    told         \* history: <<listener, transition>> of every call reachable(t)

closure == <<adjacent, reaches, inverse, counted>>
data == <<seeded, transitions, closures, attached, listeners, closure, told>>
vars == <<data, agenda>>

\* A TransitiveClosure(at, from, l): l listens for `from', `at' is reachable.
TransitiveClosure == [at : State, from : State, l : Listener]

(***************************************************************************)
(* Calls.  The call "close" is the loop of insertEdge that is running:     *)
(* todo are the pairs of its inner loop, worklist its local worklist.      *)
(***************************************************************************)
AddCall == [op : {"add", "onWeightAdded", "notify"}, t : Transition]
RegisterCall == [op : {"register"}, k : TransitiveClosure]
HearCall == [op : {"hear"}, k : TransitiveClosure, t : Transition]
InsertCall == [op : {"insert", "count", "invert"}, e : Pair]
EdgeCall == [op : {"makeEdge", "spread"}, e : Pair, worklist : SUBSET Pair]
CloseCall == [op : {"close"}, todo : SUBSET Pair, worklist : SUBSET Pair]
WatchCall == [op : {"watch"}, s : State, l : Listener]
ClientCall == [op : {"client"}]
Call == AddCall \cup RegisterCall \cup HearCall \cup InsertCall \cup EdgeCall
          \cup CloseCall \cup WatchCall \cup ClientCall

On(op, t) == {[op |-> op, t |-> t]}
For(op, e) == {[op |-> op, e |-> e]}
Register(at, from, ls) ==
    {[op |-> "register", k |-> [at |-> at, from |-> from, l |-> l]] : l \in ls}

ListenersOf(s) == {l \in Listener : <<s, l>> \in listeners}

Init ==
    /\ seeded = {} /\ transitions = {} /\ closures = {}
    /\ attached = FALSE /\ listeners = {}
    /\ adjacent = {} /\ reaches = {} /\ inverse = {} /\ counted = {}
    /\ told = {}
    /\ agenda = <<>>

(***************************************************************************)
(* The client, when no call is in progress or from inside reachable(t).    *)
(***************************************************************************)
ClientRuns == Idle \/ [op |-> "client"] \in Innermost

\* Bound: each seed is added once.
AddSeed(f) ==
    /\ ClientRuns
    /\ f \notin seeded
    /\ seeded' = seeded \cup {f}
    /\ agenda' = <<On("add", f.t)>> \o agenda
    /\ UNCHANGED <<transitions, closures, attached, listeners, closure, told>>

\* registerDFSListener: the first one creates the visitor, and registering
\* that with the automaton replays the transitions.
RegisterDFSListener(s, l) ==
    /\ ClientRuns
    /\ <<s, l>> \notin listeners
    /\ attached' = TRUE
    /\ agenda' = <<IF attached THEN {}
                   ELSE UNION {On("onWeightAdded", t) : t \in transitions},
                   {[op |-> "watch", s |-> s, l |-> l]}>> \o agenda
    /\ UNCHANGED <<seeded, transitions, closures, listeners, closure, told>>

ClientReturn(c) ==
    /\ c.op = "client"
    /\ Return(c, <<>>)
    /\ UNCHANGED data

EndLoop == LoopEnds /\ UNCHANGED data

(***************************************************************************)
(* The automaton.                                                          *)
(***************************************************************************)
AddWeightForTransition(c) ==
    /\ c.op = "add"
    /\ transitions' = transitions \cup {c.t}
    /\ Return(c, <<IF attached THEN On("onWeightAdded", c.t) ELSE {},
                   On("notify", c.t)>>)
    /\ UNCHANGED <<seeded, closures, attached, listeners, closure, told>>

\* The loop over the state listeners registered by now.
NotifyListeners(c) ==
    /\ c.op = "notify"
    /\ Return(c, <<{[op |-> "hear", k |-> k, t |-> c.t] :
                      k \in {j \in closures : j.at = c.t.start}}>>)
    /\ UNCHANGED data

RegisterListener(c) ==
    /\ c.op = "register"
    /\ closures' = closures \cup {c.k}
    /\ Return(c, IF c.k \in closures THEN <<>>
                 ELSE <<{[op |-> "hear", k |-> c.k, t |-> t] :
                           t \in {u \in transitions : u.start = c.k.at}}>>)
    /\ UNCHANGED <<seeded, transitions, attached, listeners, closure, told>>

\* TransitiveClosure.onOutTransitionAdded tells the client's listener.
Hear(c) ==
    /\ c.op = "hear"
    /\ told' = told \cup {<<c.k.l, c.t>>}
    /\ Return(c, <<{[op |-> "client"]}>>)
    /\ UNCHANGED <<seeded, transitions, closures, attached, listeners, closure>>

(***************************************************************************)
(* The visitor.                                                            *)
(***************************************************************************)
\* registerListener(state, l)
Watch(c) ==
    /\ c.op = "watch"
    /\ listeners' = listeners \cup {<<c.s, c.l>>}
    /\ Return(c, IF <<c.s, c.l>> \in listeners THEN <<>>
                 ELSE <<UNION {Register(d, c.s, {c.l}) :
                                 d \in {x \in State : <<c.s, x>> \in inverse}}>>)
    /\ UNCHANGED <<seeded, transitions, closures, attached, closure, told>>

\* Mutant: a transition is followed whatever its label.
OnWeightAddedFollowsAll(c) ==
    /\ c.op = "onWeightAdded"
    /\ Return(c, <<For("invert", <<c.t.start, c.t.start>>),
                   For("insert", <<c.t.start, c.t.target>>)>>)
    /\ UNCHANGED data

OnWeightAdded(c) ==
    /\ c.op = "onWeightAdded"
    /\ Return(c, <<For("invert", <<c.t.start, c.t.start>>),
                   IF c.t.label \in Continue
                   THEN For("insert", <<c.t.start, c.t.target>>) ELSE {}>>)
    /\ UNCHANGED data

\* The calls of inverseReaches(from, to) when e = <<from, to>> is new to it.
Invert(e) == IF e \in inverse THEN {} ELSE Register(e[2], e[1], ListenersOf(e[1]))

InverseReaches(c) ==
    /\ c.op = "invert"
    /\ inverse' = inverse \cup {c.e}
    /\ Return(c, <<Invert(c.e)>>)
    /\ UNCHANGED <<seeded, transitions, closures, attached, listeners, told,
                   adjacent, reaches, counted>>

\* makeClosure(from, to)
MakeClosure(e) ==
    /\ reaches' = reaches \cup {e}
    /\ inverse' = IF e \in reaches THEN inverse ELSE inverse \cup {e}

Closing(e) == IF e \in reaches THEN {} ELSE Invert(e)

\* insertEdge(a, b), up to makeEdge.
InsertEdge(c) ==
    /\ c.op = "insert"
    /\ IF c.e \in counted
       THEN /\ UNCHANGED <<reaches, inverse>>
            /\ Resume(c, <<>>, [op |-> "makeEdge", e |-> c.e, worklist |-> {}])
       ELSE /\ MakeClosure(c.e)
            /\ Resume(c, <<Closing(c.e), For("count", c.e)>>,
                      [op |-> "makeEdge", e |-> c.e, worklist |-> {c.e}])
    /\ UNCHANGED <<seeded, transitions, closures, attached, listeners, told,
                   adjacent, counted>>

\* refCount.put, once makeClosure has returned.
Count(c) ==
    /\ c.op = "count"
    /\ counted' = counted \cup {c.e}
    /\ Return(c, <<>>)
    /\ UNCHANGED <<seeded, transitions, closures, attached, listeners, told,
                   adjacent, reaches, inverse>>

MakeEdge(c) ==
    /\ c.op = "makeEdge"
    /\ adjacent' = adjacent \cup {c.e}
    /\ inverse' = inverse \cup {c.e}
    /\ Resume(c, <<Invert(c.e)>>,
              [op |-> "spread", e |-> c.e, worklist |-> c.worklist])
    /\ UNCHANGED <<seeded, transitions, closures, attached, listeners, told,
                   reaches, counted>>

\* Mutant: what reaches a is not connected to b.
SpreadNothing(c) ==
    /\ c.op = "spread"
    /\ Resume(c, <<>>, [op |-> "close", todo |-> {}, worklist |-> c.worklist])
    /\ UNCHANGED data

\* The loop over everything that reaches a by now.
Spread(c) ==
    /\ c.op = "spread"
    /\ Resume(c, <<>>, [op |-> "close", worklist |-> c.worklist,
                        todo |-> {<<x, c.e[2]>> :
                            x \in {y \in State : <<y, c.e[1]>> \in reaches}}])
    /\ UNCHANGED data

\* One turn of an inner loop: refCount, makeClosure, worklist.add.
CloseOne(c, e) ==
    LET rest(more) == [op |-> "close", todo |-> c.todo \ {e},
                       worklist |-> c.worklist \cup more]
    IN /\ c.op = "close" /\ e \in c.todo
       /\ IF e \in counted
          THEN /\ UNCHANGED <<reaches, inverse>>
               /\ Resume(c, <<>>, rest({}))
          ELSE /\ MakeClosure(e)
               /\ Resume(c, <<Closing(e), For("count", e)>>, rest({e}))
       /\ UNCHANGED <<seeded, transitions, closures, attached, listeners, told,
                      adjacent, counted>>

\* Mutant: the edge stays in the worklist.
PollAgain(c, e) ==
    /\ c.op = "close" /\ c.todo = {} /\ e \in c.worklist
    /\ Resume(c, <<>>, [op |-> "close", worklist |-> c.worklist,
                        todo |-> {<<e[1], z>> :
                            z \in {y \in State : <<e[2], y>> \in adjacent}}])
    /\ UNCHANGED data

\* worklist.poll, in any order: the successors of e's target by now are tried
\* next.
Poll(c, e) ==
    /\ c.op = "close" /\ c.todo = {} /\ e \in c.worklist
    /\ Resume(c, <<>>, [op |-> "close", worklist |-> c.worklist \ {e},
                        todo |-> {<<e[1], z>> :
                            z \in {y \in State : <<e[2], y>> \in adjacent}}])
    /\ UNCHANGED data

\* insertEdge returns.
Closed(c) ==
    /\ c.op = "close" /\ c.todo = {} /\ c.worklist = {}
    /\ Return(c, <<>>)
    /\ UNCHANGED data

Step ==
    \/ EndLoop
    \/ \E c \in Innermost :
         \/ ClientReturn(c)
         \/ AddWeightForTransition(c)
         \/ NotifyListeners(c)
         \/ RegisterListener(c)
         \/ Hear(c)
         \/ Watch(c)
         \/ OnWeightAdded(c)
         \/ InverseReaches(c)
         \/ InsertEdge(c)
         \/ Count(c)
         \/ MakeEdge(c)
         \/ Spread(c)
         \/ c.op = "close" /\ \E e \in c.todo : CloseOne(c, e)
         \/ c.op = "close" /\ \E e \in c.worklist : Poll(c, e)
         \/ Closed(c)

Next ==
    \/ Step
    \/ \E f \in Seeds : AddSeed(f)
    \/ \E w \in Watches : RegisterDFSListener(w[1], w[2])

Spec == Init /\ [][Next]_vars

\* The one thread keeps running, and a client's listener returns.
FairSpec == Spec /\ WF_vars(Step)

(***************************************************************************)
(* Properties.                                                             *)
(***************************************************************************)
\* Every variable holds values of its kind, and a call that announces a
\* transition, or tells a listener of one, finds it in the automaton.
TypeOK ==
    /\ seeded \subseteq Seeds
    /\ transitions \subseteq Transition
    /\ closures \subseteq TransitiveClosure
    /\ attached \in BOOLEAN
    /\ listeners \subseteq State \X Listener
    /\ adjacent \subseteq Pair /\ reaches \subseteq Pair
    /\ inverse \subseteq Pair /\ counted \subseteq Pair
    /\ told \subseteq Listener \X Transition
    /\ agenda \in Seq(SUBSET Call)
    /\ \A i \in DOMAIN agenda : \A c \in agenda[i] :
          c.op \in {"onWeightAdded", "notify", "hear"} => c.t \in transitions

\* b is in every set that holds a and whatever a followed transition leads to.
Reachable(a, b) ==
    \A S \in SUBSET State :
        a \in S /\ (\A t \in transitions :
                      t.label \in Continue /\ t.start \in S => t.target \in S)
        => b \in S

\* A listener hears only of transitions it can reach: told holds (l, t) only
\* if l listens at a state from which the start of t is reachable.
ToldOnlyReachable ==
    \A p \in told : /\ p[2] \in transitions
                    /\ \E s \in State : /\ <<s, p[1]>> \in listeners
                                        /\ Reachable(s, p[2].start)

\* Whenever the outermost call has returned, every listener has heard of every
\* transition reachable from its state, however the transitions, the listeners
\* and the callbacks were interleaved with the loops of the closure.
ToldAllReachable ==
    Idle => \A w \in listeners, t \in transitions :
               Reachable(w[1], t.start) => <<w[2], t>> \in told

\* Every call the client makes returns: the closure reaches a fixed point and
\* the callbacks die out.
CallsReturn == ~Idle ~> Idle
=============================================================================
