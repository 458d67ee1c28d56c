------------------------ MODULE Reachability_proofs ------------------------
(***************************************************************************)
(* Theorems about Reachability, for every automaton, client and order of   *)
(* calls: the type invariant, and that a listener hears of the transitions *)
(* reachable from its state, of these only and, at rest, of all of these.  *)
(***************************************************************************)
EXTENDS ReachabilityInvariant, CallStack_proofs, TLAPS

(***************************************************************************)
(* The stack, whatever set C its calls are from.                           *)
(***************************************************************************)
LEMMA ResumeStack ==
    ASSUME NEW C, agenda \in Seq(SUBSET C), agenda # <<>>, NEW c, NEW d \in C,
           NEW body \in Seq(SUBSET C), Resume(c, body, d)
    PROVE  agenda' \in Seq(SUBSET C)
<1>1. /\ <<(Head(agenda) \ {c}) \cup {d}>> \in Seq(SUBSET C)
      /\ Tail(agenda) \in Seq(SUBSET C)
  OBVIOUS
<1>2. body \o <<(Head(agenda) \ {c}) \cup {d}>> \in Seq(SUBSET C)
  BY <1>1
<1> QED BY <1>1, <1>2 DEF Resume

LEMMA InnermostCall ==
    ASSUME NEW C, agenda \in Seq(SUBSET C), NEW c \in Innermost
    PROVE  agenda # <<>> /\ c \in C
BY DEF Innermost

LEMMA LoopsOf ==
    ASSUME NEW C, NEW A \in SUBSET C, NEW B \in SUBSET C
    PROVE  /\ <<>> \in Seq(SUBSET C)
           /\ <<A>> \in Seq(SUBSET C)
           /\ <<A, B>> \in Seq(SUBSET C)
OBVIOUS

(***************************************************************************)
(* Paths.                                                                  *)
(***************************************************************************)
LEMMA ReachableRefl == ASSUME NEW a PROVE Reachable(a, a)
BY DEF Reachable

LEMMA ReachableTrans ==
    ASSUME NEW a, NEW b, NEW d, Reachable(a, b), Reachable(b, d)
    PROVE  Reachable(a, d)
BY DEF Reachable

LEMMA ReachableStep ==
    ASSUME NEW t \in transitions, t.label \in Continue
    PROVE  Reachable(t.start, t.target)
BY DEF Reachable

LEMMA ReachableStays ==
    ASSUME transitions \subseteq transitions', NEW a, NEW b, Reachable(a, b)
    PROVE  Reachable(a, b)'
BY DEF Reachable

(***************************************************************************)
(* What a step that takes nothing away keeps.                              *)
(***************************************************************************)
LEMMA CallFields ==
    ASSUME NEW c \in Call
    PROVE  /\ c.op \in {"add", "onWeightAdded", "notify", "hear"} => c.t \in Transition
           /\ c.op \in {"register", "hear"} => c.k \in TransitiveClosure
           /\ c.op \in {"insert", "count", "invert", "makeEdge", "spread"} => c.e \in Pair
           /\ c.op \in {"makeEdge", "spread", "close"} => c.worklist \subseteq Pair
           /\ c.op = "close" => c.todo \subseteq Pair
           /\ c.op = "watch" => c.s \in State /\ c.l \in Listener
BY DEF Call, AddCall, RegisterCall, HearCall, InsertCall, EdgeCall, CloseCall,
       WatchCall, ClientCall

LEMMA GroundedStays ==
    ASSUME transitions \subseteq transitions', listeners \subseteq listeners',
           NEW k, Grounded(k)
    PROVE  Grounded(k)'
BY ReachableStays DEF Grounded

LEMMA PathsStay ==
    ASSUME transitions \subseteq transitions', NEW pairs, Paths(pairs)
    PROVE  \A e \in pairs : Reachable(e[1], e[2])'
BY ReachableStays DEF Paths

LEMMA SoundCallsStay ==
    ASSUME transitions \subseteq transitions', listeners \subseteq listeners'
    PROVE  SoundCall \subseteq SoundCall'
<1> SUFFICES ASSUME NEW c \in SoundCall PROVE c \in SoundCall'
  OBVIOUS
<1>1. \A pairs : Paths(pairs) => \A e \in pairs : Reachable(e[1], e[2])'
  BY PathsStay
<1>2. \A k : Grounded(k) => Grounded(k)'
  BY GroundedStays
<1> QED BY <1>1, <1>2 DEF SoundCall, Paths

LEMMA StackStays ==
    ASSUME transitions \subseteq transitions', listeners \subseteq listeners',
           NEW s \in Seq(SUBSET SoundCall)
    PROVE  s \in Seq(SUBSET SoundCall')
<1>1. SoundCall \subseteq SoundCall'
  BY SoundCallsStay
<1> QED BY <1>1

LEMMA ToldStays ==
    ASSUME transitions \subseteq transitions', listeners \subseteq listeners',
           ToldOnlyReachable, told' = told
    PROVE  ToldOnlyReachable'
<1> SUFFICES ASSUME NEW p \in told
             PROVE  /\ p[2] \in transitions'
                    /\ \E s \in State : /\ <<s, p[1]>> \in listeners'
                                        /\ Reachable(s, p[2].start)'
  BY DEF ToldOnlyReachable
<1>1. PICK s \in State : <<s, p[1]>> \in listeners /\ Reachable(s, p[2].start)
  BY DEF ToldOnlyReachable
<1>2. Reachable(s, p[2].start)'
  BY <1>1, ReachableStays
<1> QED BY <1>1, <1>2 DEF ToldOnlyReachable

LEMMA StoredStays ==
    ASSUME transitions \subseteq transitions', listeners \subseteq listeners', Stored
    PROVE  /\ \A e \in adjacent \cup reaches \cup inverse : Reachable(e[1], e[2])'
           /\ \A k \in closures : Grounded(k)'
BY PathsStay, GroundedStays DEF Stored, Paths

(***************************************************************************)
(* The calls that steps make.                                              *)
(***************************************************************************)
LEMMA RegisterSound ==
    ASSUME NEW at \in State, NEW from \in State, NEW ls \in SUBSET Listener,
           Reachable(from, at), \A l \in ls : <<from, l>> \in listeners
    PROVE  Register(at, from, ls) \in SUBSET SoundCall
<1> SUFFICES ASSUME NEW l \in ls
             PROVE  [op |-> "register", k |-> [at |-> at, from |-> from, l |-> l]]
                      \in SoundCall
  BY DEF Register
<1> DEFINE k == [at |-> at, from |-> from, l |-> l]
<1>1. k \in TransitiveClosure /\ Grounded(k)
  BY DEF TransitiveClosure, Grounded
<1> HIDE DEF k
<1>2. [op |-> "register", k |-> k] \in Call
  BY <1>1 DEF Call, RegisterCall
<1> QED BY <1>1, <1>2 DEF SoundCall, k

LEMMA InvertSound ==
    ASSUME NEW e \in Pair, Reachable(e[1], e[2])
    PROVE  Invert(e) \in SUBSET SoundCall
<1>1. /\ e[1] \in State /\ e[2] \in State
      /\ ListenersOf(e[1]) \in SUBSET Listener
      /\ \A l \in ListenersOf(e[1]) : <<e[1], l>> \in listeners
  BY DEF Pair, ListenersOf
<1>2. Register(e[2], e[1], ListenersOf(e[1])) \in SUBSET SoundCall
  BY <1>1, RegisterSound
<1> QED BY <1>2 DEF Invert

LEMMA ForSound ==
    ASSUME NEW e \in Pair, Reachable(e[1], e[2]),
           NEW op \in {"insert", "count", "invert"}
    PROVE  For(op, e) \in SUBSET SoundCall
<1>1. [op |-> op, e |-> e] \in Call
  BY DEF Call, InsertCall
<1> QED BY <1>1 DEF For, SoundCall, Paths

LEMMA EdgeSound ==
    ASSUME NEW e \in Pair, Reachable(e[1], e[2]), NEW op \in {"makeEdge", "spread"},
           NEW pairs \in SUBSET Pair, Paths(pairs)
    PROVE  [op |-> op, e |-> e, worklist |-> pairs] \in SoundCall
<1>1. [op |-> op, e |-> e, worklist |-> pairs] \in Call
  BY DEF Call, EdgeCall
<1> QED BY <1>1 DEF SoundCall, Paths

LEMMA CloseSound ==
    ASSUME NEW todo \in SUBSET Pair, NEW pairs \in SUBSET Pair, Paths(todo), Paths(pairs)
    PROVE  [op |-> "close", todo |-> todo, worklist |-> pairs] \in SoundCall
<1>1. [op |-> "close", todo |-> todo, worklist |-> pairs] \in Call
  BY DEF Call, CloseCall
<1> QED BY <1>1 DEF SoundCall

LEMMA HearSound ==
    ASSUME NEW k \in TransitiveClosure, NEW t \in Transition, Grounded(k),
           t \in transitions, t.start = k.at
    PROVE  [op |-> "hear", k |-> k, t |-> t] \in SoundCall
<1>1. [op |-> "hear", k |-> k, t |-> t] \in Call
  BY DEF Call, HearCall
<1> QED BY <1>1 DEF SoundCall

LEMMA SoundFields ==
    ASSUME NEW c \in SoundCall
    PROVE  /\ c \in Call
           /\ c.op \in {"onWeightAdded", "notify", "hear"} => c.t \in transitions
           /\ c.op \in {"register", "hear"} => Grounded(c.k)
           /\ c.op = "hear" => c.t.start = c.k.at
           /\ c.op \in {"insert", "count", "invert", "makeEdge", "spread"} =>
                Reachable(c.e[1], c.e[2])
           /\ c.op \in {"makeEdge", "spread", "close"} => Paths(c.worklist)
           /\ c.op = "close" => Paths(c.todo)
BY DEF SoundCall, Paths

(***************************************************************************)
(* Steps that leave the automaton and its listeners alone.                 *)
(***************************************************************************)
LEMMA StillSound ==
    ASSUME UNCHANGED <<transitions, listeners>>
    PROVE  /\ SoundCall' = SoundCall
           /\ \A a, b : Reachable(a, b)' <=> Reachable(a, b)
           /\ \A k : Grounded(k)' <=> Grounded(k)
BY DEF SoundCall, Paths, Reachable, Grounded

LEMMA DataKept ==
    ASSUME SoundInv, UNCHANGED data, agenda' \in Seq(SUBSET SoundCall)
    PROVE  SoundInv'
<1>1. UNCHANGED <<seeded, transitions, closures, attached, listeners, adjacent,
                  reaches, inverse, counted, told>>
  BY DEF data, closure
<1>2. DataTypes'
  BY <1>1 DEF SoundInv, DataTypes
<1>3. Stored'
  BY <1>1, StillSound DEF SoundInv, Stored, Paths
<1>4. ToldOnlyReachable'
  BY <1>1, ToldStays DEF SoundInv
<1> QED BY <1>1, <1>2, <1>3, <1>4, StillSound DEF SoundInv

\* The closure grows by pairs that are paths.
LEMMA ClosureGrows ==
    ASSUME SoundInv, UNCHANGED <<seeded, transitions, closures, attached, listeners, told>>,
           NEW e \in Pair, Reachable(e[1], e[2]),
           adjacent' \subseteq adjacent \cup {e},
           reaches' \subseteq reaches \cup {e},
           inverse' \subseteq inverse \cup {e},
           counted' \subseteq counted \cup {e},
           agenda' \in Seq(SUBSET SoundCall)
    PROVE  SoundInv'
<1>1. DataTypes'
  BY DEF SoundInv, DataTypes
<1>2. Stored'
  <2>1. \A p \in adjacent' \cup reaches' \cup inverse' : Reachable(p[1], p[2])
    BY DEF SoundInv, Stored, Paths
  <2> QED BY <2>1, StillSound DEF SoundInv, Stored, Paths
<1>3. ToldOnlyReachable'
  BY ToldStays DEF SoundInv
<1> QED BY <1>1, <1>2, <1>3, StillSound DEF SoundInv

LEMMA PairOf == \A x, y \in State : <<x, y>> \in Pair
BY DEF Pair

LEMMA ClientSound == [op |-> "client"] \in SoundCall
BY DEF SoundCall, Call, ClientCall

LEMMA ClientReturnSound ==
    ASSUME SoundInv, NEW c \in Innermost, ClientReturn(c)
    PROVE  SoundInv'
<1>1. agenda \in Seq(SUBSET SoundCall) /\ agenda # <<>>
  BY InnermostCall DEF SoundInv
<1>2. agenda' \in Seq(SUBSET SoundCall)
  BY <1>1, LoopsOf, ReturnStack DEF ClientReturn
<1> QED BY <1>2, DataKept DEF ClientReturn

LEMMA EndLoopSound == ASSUME SoundInv, EndLoop PROVE SoundInv'
<1>1. agenda' \in Seq(SUBSET SoundCall)
  BY DEF EndLoop, LoopEnds, SoundInv
<1> QED BY <1>1, DataKept DEF EndLoop

LEMMA NotifySound ==
    ASSUME SoundInv, NEW c \in Innermost, NotifyListeners(c)
    PROVE  SoundInv'
<1> DEFINE heard == {[op |-> "hear", k |-> k, t |-> c.t] :
                       k \in {j \in closures : j.at = c.t.start}}
<1>1. agenda \in Seq(SUBSET SoundCall) /\ agenda # <<>> /\ c \in SoundCall
  BY InnermostCall DEF SoundInv
<1>2. c.t \in transitions /\ c.t \in Transition
  BY <1>1, SoundFields, CallFields DEF NotifyListeners
<1>3. \A k \in closures : k \in TransitiveClosure /\ Grounded(k)
  BY DEF SoundInv, DataTypes, Stored
<1>4. heard \in SUBSET SoundCall
  BY <1>2, <1>3, HearSound
<1> HIDE DEF heard
<1>5. agenda' \in Seq(SUBSET SoundCall)
  BY <1>1, <1>4, LoopsOf, ReturnStack DEF NotifyListeners, heard
<1> QED BY <1>5, DataKept DEF NotifyListeners

LEMMA OnWeightAddedSound ==
    ASSUME SoundInv, NEW c \in Innermost, OnWeightAdded(c)
    PROVE  SoundInv'
<1> DEFINE a == c.t.start
           b == c.t.target
           inserts == IF c.t.label \in Continue THEN For("insert", <<a, b>>) ELSE {}
<1>1. agenda \in Seq(SUBSET SoundCall) /\ agenda # <<>> /\ c \in SoundCall
  BY InnermostCall DEF SoundInv
<1>2. c.t \in transitions /\ a \in State /\ b \in State
  BY <1>1, SoundFields, CallFields DEF OnWeightAdded, Transition
<1>3. c.t.label \in Continue => Reachable(a, b)
  BY <1>2, ReachableStep
<1> HIDE DEF a, b
<1>4. /\ <<a, a>> \in Pair /\ <<a, b>> \in Pair
      /\ <<a, a>>[1] = a /\ <<a, a>>[2] = a /\ <<a, b>>[1] = a /\ <<a, b>>[2] = b
  BY <1>2 DEF Pair
<1>5. For("invert", <<a, a>>) \in SUBSET SoundCall
  BY <1>4, ReachableRefl, ForSound
<1>6. inserts \in SUBSET SoundCall
  BY <1>3, <1>4, ForSound
<1> HIDE DEF inserts
<1>7. agenda' \in Seq(SUBSET SoundCall)
  BY <1>1, <1>5, <1>6, LoopsOf, ReturnStack DEF OnWeightAdded, inserts, a, b
<1> QED BY <1>7, DataKept DEF OnWeightAdded

LEMMA SpreadSound ==
    ASSUME SoundInv, NEW c \in Innermost, Spread(c)
    PROVE  SoundInv'
<1> DEFINE todo == {<<x, c.e[2]>> : x \in {y \in State : <<y, c.e[1]>> \in reaches}}
           next == [op |-> "close", worklist |-> c.worklist, todo |-> todo]
<1>1. agenda \in Seq(SUBSET SoundCall) /\ agenda # <<>> /\ c \in SoundCall
  BY InnermostCall DEF SoundInv
<1>2. /\ c.e \in Pair /\ Reachable(c.e[1], c.e[2])
      /\ c.worklist \subseteq Pair /\ Paths(c.worklist)
  BY <1>1, SoundFields, CallFields DEF Spread
<1>3. todo \subseteq Pair
  <2>1. c.e[2] \in State
    BY <1>2 DEF Pair
  <2> QED BY <2>1, PairOf
<1>4. Paths(todo)
  <2>1. ASSUME NEW x \in State, <<x, c.e[1]>> \in reaches PROVE Reachable(x, c.e[2])
    <3>1. Reachable(x, c.e[1])
      <4>1. <<x, c.e[1]>>[1] = x /\ <<x, c.e[1]>>[2] = c.e[1]
        OBVIOUS
      <4> QED BY <2>1, <4>1 DEF SoundInv, Stored, Paths
    <3> QED BY <3>1, <1>2, ReachableTrans
  <2>2. ASSUME NEW p \in todo PROVE Reachable(p[1], p[2])
    <3>1. PICK x \in State : <<x, c.e[1]>> \in reaches /\ p = <<x, c.e[2]>>
      OBVIOUS
    <3>2. p[1] = x /\ p[2] = c.e[2]
      BY <3>1
    <3> QED BY <2>1, <3>1, <3>2
  <2> QED BY <2>2 DEF Paths
<1> HIDE DEF todo
<1>5. next \in SoundCall
  BY <1>2, <1>3, <1>4, CloseSound
<1>6. Resume(c, <<>>, next)
  BY DEF Spread, todo
<1> HIDE DEF next
<1>7. agenda' \in Seq(SUBSET SoundCall)
  BY <1>1, <1>5, <1>6, LoopsOf, ResumeStack
<1> QED BY <1>7, DataKept DEF Spread

LEMMA PollSound ==
    ASSUME SoundInv, NEW c \in Innermost, NEW e \in c.worklist, Poll(c, e)
    PROVE  SoundInv'
<1> DEFINE todo == {<<e[1], z>> : z \in {y \in State : <<e[2], y>> \in adjacent}}
           next == [op |-> "close", worklist |-> c.worklist \ {e}, todo |-> todo]
<1>1. agenda \in Seq(SUBSET SoundCall) /\ agenda # <<>> /\ c \in SoundCall
  BY InnermostCall DEF SoundInv
<1>2. c.worklist \subseteq Pair /\ Paths(c.worklist)
  BY <1>1, SoundFields, CallFields DEF Poll
<1>3. e \in Pair /\ Reachable(e[1], e[2])
  BY <1>2 DEF Paths
<1>4. todo \subseteq Pair
  <2>1. e[1] \in State
    BY <1>3 DEF Pair
  <2> QED BY <2>1, PairOf
<1>5. Paths(todo)
  <2>1. ASSUME NEW z \in State, <<e[2], z>> \in adjacent PROVE Reachable(e[1], z)
    <3>1. Reachable(e[2], z)
      <4>1. <<e[2], z>>[1] = e[2] /\ <<e[2], z>>[2] = z
        OBVIOUS
      <4> QED BY <2>1, <4>1 DEF SoundInv, Stored, Paths
    <3> QED BY <3>1, <1>3, ReachableTrans
  <2>2. ASSUME NEW p \in todo PROVE Reachable(p[1], p[2])
    <3>1. PICK z \in State : <<e[2], z>> \in adjacent /\ p = <<e[1], z>>
      OBVIOUS
    <3>2. p[1] = e[1] /\ p[2] = z
      BY <3>1
    <3> QED BY <2>1, <3>1, <3>2
  <2> QED BY <2>2 DEF Paths
<1> HIDE DEF todo
<1>6. next \in SoundCall
  BY <1>2, <1>4, <1>5, CloseSound DEF Paths
<1>7. Resume(c, <<>>, next)
  BY DEF Poll, todo
<1> HIDE DEF next
<1>8. agenda' \in Seq(SUBSET SoundCall)
  BY <1>1, <1>6, <1>7, LoopsOf, ResumeStack
<1> QED BY <1>8, DataKept DEF Poll

LEMMA ClosedSound ==
    ASSUME SoundInv, NEW c \in Innermost, Closed(c)
    PROVE  SoundInv'
<1>1. agenda \in Seq(SUBSET SoundCall) /\ agenda # <<>>
  BY InnermostCall DEF SoundInv
<1>2. agenda' \in Seq(SUBSET SoundCall)
  BY <1>1, LoopsOf, ReturnStack DEF Closed
<1> QED BY <1>2, DataKept DEF Closed

(***************************************************************************)
(* Steps that change the closure, the automaton or its listeners.          *)
(***************************************************************************)
LEMMA InverseReachesSound ==
    ASSUME SoundInv, NEW c \in Innermost, InverseReaches(c)
    PROVE  SoundInv'
<1>1. agenda \in Seq(SUBSET SoundCall) /\ agenda # <<>> /\ c \in SoundCall
  BY InnermostCall DEF SoundInv
<1>2. c.e \in Pair /\ Reachable(c.e[1], c.e[2])
  BY <1>1, SoundFields, CallFields DEF InverseReaches
<1>3. Invert(c.e) \in SUBSET SoundCall
  BY <1>2, InvertSound
<1>4. agenda' \in Seq(SUBSET SoundCall)
  BY <1>1, <1>3, LoopsOf, ReturnStack DEF InverseReaches
<1> QED BY <1>2, <1>4, ClosureGrows DEF InverseReaches

LEMMA MakeClosureSound ==
    ASSUME NEW e \in Pair, Reachable(e[1], e[2]), MakeClosure(e)
    PROVE  /\ reaches' \subseteq reaches \cup {e}
           /\ inverse' \subseteq inverse \cup {e}
           /\ Closing(e) \in SUBSET SoundCall
           /\ For("count", e) \in SUBSET SoundCall
BY InvertSound, ForSound DEF MakeClosure, Closing

LEMMA InsertEdgeSound ==
    ASSUME SoundInv, NEW c \in Innermost, InsertEdge(c)
    PROVE  SoundInv'
<1> DEFINE next(pairs) == [op |-> "makeEdge", e |-> c.e, worklist |-> pairs]
<1>1. agenda \in Seq(SUBSET SoundCall) /\ agenda # <<>> /\ c \in SoundCall
  BY InnermostCall DEF SoundInv
<1>2. c.e \in Pair /\ Reachable(c.e[1], c.e[2])
  BY <1>1, SoundFields, CallFields DEF InsertEdge
<1>3. next({}) \in SoundCall /\ next({c.e}) \in SoundCall
  BY <1>2, EdgeSound DEF Paths
<1> HIDE DEF next
<1>4. CASE c.e \in counted
  <2>1. Resume(c, <<>>, next({})) /\ UNCHANGED <<reaches, inverse>>
    BY <1>4 DEF InsertEdge, next
  <2>2. agenda' \in Seq(SUBSET SoundCall)
    BY <1>1, <1>3, <2>1, LoopsOf, ResumeStack
  <2> QED BY <1>2, <2>1, <2>2, ClosureGrows DEF InsertEdge
<1>5. CASE c.e \notin counted
  <2>1. /\ MakeClosure(c.e)
        /\ Resume(c, <<Closing(c.e), For("count", c.e)>>, next({c.e}))
    BY <1>5 DEF InsertEdge, next
  <2>2. <<Closing(c.e), For("count", c.e)>> \in Seq(SUBSET SoundCall)
    BY <1>2, <2>1, MakeClosureSound, LoopsOf
  <2>3. agenda' \in Seq(SUBSET SoundCall)
    BY <1>1, <1>3, <2>1, <2>2, ResumeStack
  <2>4. reaches' \subseteq reaches \cup {c.e} /\ inverse' \subseteq inverse \cup {c.e}
    BY <1>2, <2>1, MakeClosureSound
  <2> QED BY <1>2, <2>3, <2>4, ClosureGrows DEF InsertEdge
<1> QED BY <1>4, <1>5

LEMMA CountSound ==
    ASSUME SoundInv, NEW c \in Innermost, Count(c)
    PROVE  SoundInv'
<1>1. agenda \in Seq(SUBSET SoundCall) /\ agenda # <<>> /\ c \in SoundCall
  BY InnermostCall DEF SoundInv
<1>2. c.e \in Pair /\ Reachable(c.e[1], c.e[2])
  BY <1>1, SoundFields, CallFields DEF Count
<1>3. agenda' \in Seq(SUBSET SoundCall)
  BY <1>1, LoopsOf, ReturnStack DEF Count
<1> QED BY <1>2, <1>3, ClosureGrows DEF Count

LEMMA MakeEdgeSound ==
    ASSUME SoundInv, NEW c \in Innermost, MakeEdge(c)
    PROVE  SoundInv'
<1> DEFINE next == [op |-> "spread", e |-> c.e, worklist |-> c.worklist]
<1>1. agenda \in Seq(SUBSET SoundCall) /\ agenda # <<>> /\ c \in SoundCall
  BY InnermostCall DEF SoundInv
<1>2. /\ c.e \in Pair /\ Reachable(c.e[1], c.e[2])
      /\ c.worklist \in SUBSET Pair /\ Paths(c.worklist)
  BY <1>1, SoundFields, CallFields DEF MakeEdge
<1>3. next \in SoundCall /\ Invert(c.e) \in SUBSET SoundCall
  BY <1>2, EdgeSound, InvertSound
<1>4. Resume(c, <<Invert(c.e)>>, next)
  BY DEF MakeEdge
<1> HIDE DEF next
<1>5. agenda' \in Seq(SUBSET SoundCall)
  BY <1>1, <1>3, <1>4, LoopsOf, ResumeStack
<1> QED BY <1>2, <1>5, ClosureGrows DEF MakeEdge

LEMMA CloseOneSound ==
    ASSUME SoundInv, NEW c \in Innermost, NEW e \in c.todo, CloseOne(c, e)
    PROVE  SoundInv'
<1> DEFINE rest(more) == [op |-> "close", todo |-> c.todo \ {e},
                          worklist |-> c.worklist \cup more]
<1>1. agenda \in Seq(SUBSET SoundCall) /\ agenda # <<>> /\ c \in SoundCall
  BY InnermostCall DEF SoundInv
<1>2. /\ c.todo \subseteq Pair /\ Paths(c.todo)
      /\ c.worklist \subseteq Pair /\ Paths(c.worklist)
  BY <1>1, SoundFields, CallFields DEF CloseOne
<1>3. e \in Pair /\ Reachable(e[1], e[2])
  BY <1>2 DEF Paths
<1>4. rest({}) \in SoundCall /\ rest({e}) \in SoundCall
  <2>1. c.todo \ {e} \in SUBSET Pair /\ Paths(c.todo \ {e})
    BY <1>2 DEF Paths
  <2>2. /\ c.worklist \cup {} \in SUBSET Pair /\ Paths(c.worklist \cup {})
        /\ c.worklist \cup {e} \in SUBSET Pair /\ Paths(c.worklist \cup {e})
    BY <1>2, <1>3 DEF Paths
  <2> QED BY <2>1, <2>2, CloseSound
<1>5. CASE e \in counted
  <2>1. Resume(c, <<>>, rest({})) /\ UNCHANGED <<reaches, inverse>>
    BY <1>5 DEF CloseOne
  <2> HIDE DEF rest
  <2>2. agenda' \in Seq(SUBSET SoundCall)
    BY <1>1, <1>4, <2>1, LoopsOf, ResumeStack
  <2> QED BY <1>3, <2>1, <2>2, ClosureGrows DEF CloseOne
<1>6. CASE e \notin counted
  <2>1. /\ MakeClosure(e)
        /\ Resume(c, <<Closing(e), For("count", e)>>, rest({e}))
    BY <1>6 DEF CloseOne
  <2> HIDE DEF rest
  <2>2. <<Closing(e), For("count", e)>> \in Seq(SUBSET SoundCall)
    BY <1>3, <2>1, MakeClosureSound, LoopsOf
  <2>3. agenda' \in Seq(SUBSET SoundCall)
    BY <1>1, <1>4, <2>1, <2>2, ResumeStack
  <2>4. reaches' \subseteq reaches \cup {e} /\ inverse' \subseteq inverse \cup {e}
    BY <1>3, <2>1, MakeClosureSound
  <2> QED BY <1>3, <2>3, <2>4, ClosureGrows DEF CloseOne
<1> QED BY <1>5, <1>6

LEMMA RegisterListenerSound ==
    ASSUME SoundInv, NEW c \in Innermost, RegisterListener(c)
    PROVE  SoundInv'
<1> DEFINE replayed == {[op |-> "hear", k |-> c.k, t |-> t] :
                          t \in {u \in transitions : u.start = c.k.at}}
<1>1. agenda \in Seq(SUBSET SoundCall) /\ agenda # <<>> /\ c \in SoundCall
  BY InnermostCall DEF SoundInv
<1>2. c.k \in TransitiveClosure /\ Grounded(c.k)
  BY <1>1, SoundFields, CallFields DEF RegisterListener
<1>3. replayed \in SUBSET SoundCall
  BY <1>2, HearSound DEF SoundInv, DataTypes
<1> HIDE DEF replayed
<1>4. agenda' \in Seq(SUBSET SoundCall)
  BY <1>1, <1>3, LoopsOf, ReturnStack DEF RegisterListener, replayed
<1>5. DataTypes'
  BY <1>2 DEF SoundInv, DataTypes, RegisterListener, closure
<1>6. Stored'
  BY <1>2, StillSound DEF SoundInv, Stored, Paths, RegisterListener, closure
<1>7. ToldOnlyReachable'
  BY ToldStays DEF SoundInv, RegisterListener
<1> QED BY <1>4, <1>5, <1>6, <1>7, StillSound DEF SoundInv, RegisterListener

LEMMA HearKeepsSound ==
    ASSUME SoundInv, NEW c \in Innermost, Hear(c)
    PROVE  SoundInv'
<1>1. agenda \in Seq(SUBSET SoundCall) /\ agenda # <<>> /\ c \in SoundCall
  BY InnermostCall DEF SoundInv
<1>2. /\ c.k \in TransitiveClosure /\ Grounded(c.k)
      /\ c.t \in transitions /\ c.t \in Transition /\ c.t.start = c.k.at
  BY <1>1, SoundFields, CallFields DEF Hear
<1>3. agenda' \in Seq(SUBSET SoundCall)
  BY <1>1, ClientSound, LoopsOf, ReturnStack DEF Hear
<1>4. DataTypes'
  BY <1>2 DEF SoundInv, DataTypes, Hear, closure, TransitiveClosure
<1>5. Stored'
  BY StillSound DEF SoundInv, Stored, Paths, Hear, closure
<1>6. ToldOnlyReachable'
  <2>1. /\ c.k.from \in State /\ <<c.k.from, c.k.l>> \in listeners
        /\ Reachable(c.k.from, c.t.start)
    BY <1>2 DEF Grounded, TransitiveClosure
  <2>2. told' = told \cup {<<c.k.l, c.t>>}
    BY DEF Hear
  <2>3. \A p \in told' : /\ p[2] \in transitions
                         /\ \E s \in State : /\ <<s, p[1]>> \in listeners
                                             /\ Reachable(s, p[2].start)
    <3> SUFFICES ASSUME NEW p \in told'
                 PROVE  /\ p[2] \in transitions
                        /\ \E s \in State : /\ <<s, p[1]>> \in listeners
                                            /\ Reachable(s, p[2].start)
      OBVIOUS
    <3>1. CASE p \in told
      BY <3>1 DEF SoundInv, ToldOnlyReachable
    <3>2. CASE p = <<c.k.l, c.t>>
      <4>1. p[1] = c.k.l /\ p[2] = c.t
        BY <3>2
      <4> QED BY <1>2, <2>1, <4>1
    <3> QED BY <2>2, <3>1, <3>2
  <2> QED BY <2>3, StillSound DEF ToldOnlyReachable, Hear
<1> QED BY <1>3, <1>4, <1>5, <1>6, StillSound DEF SoundInv, Hear

LEMMA WatchSound ==
    ASSUME SoundInv, NEW c \in Innermost, Watch(c)
    PROVE  SoundInv'
<1> DEFINE replayed == UNION {Register(d, c.s, {c.l}) :
                                d \in {x \in State : <<c.s, x>> \in inverse}}
<1>1. agenda \in Seq(SUBSET SoundCall) /\ agenda # <<>> /\ c \in SoundCall
  BY InnermostCall DEF SoundInv
<1>2. c.s \in State /\ c.l \in Listener
  BY <1>1, SoundFields, CallFields DEF Watch
<1>3. /\ listeners' = listeners \cup {<<c.s, c.l>>}
      /\ UNCHANGED <<seeded, transitions, closures, attached, adjacent, reaches,
                     inverse, counted, told>>
  BY DEF Watch, closure
<1>4. ASSUME NEW d \in State, <<c.s, d>> \in inverse,
             NEW r \in Register(d, c.s, {c.l})
      PROVE  r \in SoundCall'
  <2>1. r = [op |-> "register", k |-> [at |-> d, from |-> c.s, l |-> c.l]]
    BY <1>4 DEF Register
  <2>2. r.op = "register" /\ r.k = [at |-> d, from |-> c.s, l |-> c.l]
    BY <2>1
  <2>3. r \in Call
    BY <1>2, <2>1 DEF Call, RegisterCall, TransitiveClosure
  <2>4. Reachable(c.s, d)
    <3>1. <<c.s, d>>[1] = c.s /\ <<c.s, d>>[2] = d
      OBVIOUS
    <3> QED BY <1>4, <3>1 DEF SoundInv, Stored, Paths
  <2>5. Reachable(c.s, d)'
    BY <1>3, <2>4, ReachableStays
  <2>6. Grounded(r.k)'
    BY <1>3, <2>2, <2>5 DEF Grounded
  <2> QED BY <2>2, <2>3, <2>6 DEF SoundCall
<1>5. replayed \in SUBSET SoundCall'
  BY <1>4
<1>6. agenda \in Seq(SUBSET SoundCall')
  BY <1>1, <1>3, StackStays
<1> HIDE DEF replayed
<1>7. Return(c, IF <<c.s, c.l>> \in listeners THEN <<>> ELSE <<replayed>>)
  BY DEF Watch, replayed
<1>8. agenda' \in Seq(SUBSET SoundCall')
  <2>1. (IF <<c.s, c.l>> \in listeners THEN <<>> ELSE <<replayed>>)
          \in Seq(SUBSET SoundCall')
    BY <1>5, LoopsOf
  <2> QED BY <1>1, <1>6, <1>7, <2>1, ReturnStack
<1>9. DataTypes'
  BY <1>2, <1>3 DEF SoundInv, DataTypes
<1>10. Stored'
  BY <1>3, StoredStays DEF SoundInv, Stored, Paths
<1>11. ToldOnlyReachable'
  BY <1>3, ToldStays DEF SoundInv
<1> QED BY <1>8, <1>9, <1>10, <1>11 DEF SoundInv

LEMMA AddSound ==
    ASSUME SoundInv, NEW c \in Innermost, AddWeightForTransition(c)
    PROVE  SoundInv'
<1> DEFINE heard == IF attached THEN On("onWeightAdded", c.t) ELSE {}
           told1 == On("notify", c.t)
<1>1. agenda \in Seq(SUBSET SoundCall) /\ agenda # <<>> /\ c \in SoundCall
  BY InnermostCall DEF SoundInv
<1>2. c.t \in Transition
  BY <1>1, SoundFields, CallFields DEF AddWeightForTransition
<1>3. /\ transitions' = transitions \cup {c.t}
      /\ UNCHANGED <<seeded, closures, attached, listeners, adjacent, reaches,
                     inverse, counted, told>>
  BY DEF AddWeightForTransition, closure
<1>4. ASSUME NEW op \in {"onWeightAdded", "notify"}
      PROVE  On(op, c.t) \in SUBSET SoundCall'
  <2>1. [op |-> op, t |-> c.t] \in Call
    BY <1>2 DEF Call, AddCall
  <2> QED BY <1>3, <2>1 DEF On, SoundCall
<1>5. heard \in SUBSET SoundCall' /\ told1 \in SUBSET SoundCall'
  BY <1>4
<1>6. agenda \in Seq(SUBSET SoundCall')
  BY <1>1, <1>3, StackStays
<1> HIDE DEF heard, told1
<1>7. Return(c, <<heard, told1>>)
  BY DEF AddWeightForTransition, heard, told1
<1>8. <<heard, told1>> \in Seq(SUBSET SoundCall')
  BY <1>5, LoopsOf
<1>9. agenda' \in Seq(SUBSET SoundCall')
  BY <1>1, <1>6, <1>7, <1>8, ReturnStack
<1>10. DataTypes'
  BY <1>2, <1>3 DEF SoundInv, DataTypes
<1>11. Stored'
  BY <1>3, StoredStays DEF SoundInv, Stored, Paths
<1>12. ToldOnlyReachable'
  BY <1>3, ToldStays DEF SoundInv
<1> QED BY <1>9, <1>10, <1>11, <1>12 DEF SoundInv

LEMMA SeedSound ==
    ASSUME SoundInv, NEW f \in Seeds, AddSeed(f)
    PROVE  SoundInv'
<1>1. [op |-> "add", t |-> f.t] \in SoundCall
  BY ReachabilityAssumption DEF SoundCall, Call, AddCall
<1>2. <<On("add", f.t)>> \in Seq(SUBSET SoundCall)
  BY <1>1, LoopsOf DEF On
<1>3. agenda' \in Seq(SUBSET SoundCall)
  BY <1>2 DEF AddSeed, SoundInv
<1>4. DataTypes'
  BY DEF SoundInv, DataTypes, AddSeed, closure
<1>5. Stored'
  BY StillSound DEF SoundInv, Stored, Paths, AddSeed, closure
<1>6. ToldOnlyReachable'
  BY ToldStays DEF SoundInv, AddSeed
<1> QED BY <1>3, <1>4, <1>5, <1>6, StillSound DEF SoundInv, AddSeed

LEMMA VisitorSound ==
    ASSUME SoundInv, NEW s \in State, NEW l \in Listener, RegisterDFSListener(s, l)
    PROVE  SoundInv'
<1> DEFINE replayed == IF attached THEN {}
                       ELSE UNION {On("onWeightAdded", t) : t \in transitions}
           watch == {[op |-> "watch", s |-> s, l |-> l]}
<1>1. replayed \in SUBSET SoundCall
  <2>1. ASSUME NEW t \in transitions PROVE [op |-> "onWeightAdded", t |-> t] \in SoundCall
    BY DEF SoundInv, DataTypes, SoundCall, Call, AddCall
  <2> QED BY <2>1 DEF On
<1>2. watch \in SUBSET SoundCall
  BY DEF SoundCall, Call, WatchCall
<1> HIDE DEF replayed, watch
<1>3. <<replayed, watch>> \in Seq(SUBSET SoundCall)
  BY <1>1, <1>2, LoopsOf
<1>4. agenda' \in Seq(SUBSET SoundCall)
  BY <1>3 DEF RegisterDFSListener, replayed, watch, SoundInv
<1>5. DataTypes'
  BY DEF SoundInv, DataTypes, RegisterDFSListener, closure
<1>6. Stored'
  BY StillSound DEF SoundInv, Stored, Paths, RegisterDFSListener, closure
<1>7. ToldOnlyReachable'
  BY ToldStays DEF SoundInv, RegisterDFSListener
<1> QED BY <1>4, <1>5, <1>6, <1>7, StillSound DEF SoundInv, RegisterDFSListener

(***************************************************************************)
(* The theorems.                                                           *)
(***************************************************************************)
LEMMA InitSound == Init => SoundInv
<1> SUFFICES ASSUME Init PROVE SoundInv
  OBVIOUS
<1>1. agenda \in Seq(SUBSET SoundCall)
  BY LoopsOf DEF Init
<1>2. DataTypes
  BY DEF Init, DataTypes
<1>3. Stored /\ ToldOnlyReachable
  BY DEF Init, Stored, Paths, ToldOnlyReachable
<1> QED BY <1>1, <1>2, <1>3 DEF SoundInv

LEMMA NextSound == SoundInv /\ [Next]_vars => SoundInv'
<1> SUFFICES ASSUME SoundInv, [Next]_vars PROVE SoundInv'
  OBVIOUS
<1>1. CASE UNCHANGED vars
  <2>1. agenda' \in Seq(SUBSET SoundCall) /\ UNCHANGED data
    BY <1>1 DEF vars, SoundInv
  <2> QED BY <2>1, DataKept
<1>2. CASE EndLoop
  BY <1>2, EndLoopSound
<1>3. ASSUME NEW c \in Innermost,
             \/ ClientReturn(c) \/ AddWeightForTransition(c) \/ NotifyListeners(c)
             \/ RegisterListener(c) \/ Hear(c) \/ Watch(c) \/ OnWeightAdded(c)
             \/ InverseReaches(c) \/ InsertEdge(c) \/ Count(c) \/ MakeEdge(c)
             \/ Spread(c)
             \/ c.op = "close" /\ \E e \in c.todo : CloseOne(c, e)
             \/ c.op = "close" /\ \E e \in c.worklist : Poll(c, e)
             \/ Closed(c)
      PROVE  SoundInv'
  BY <1>3, ClientReturnSound, AddSound, NotifySound, RegisterListenerSound,
     HearKeepsSound, WatchSound, OnWeightAddedSound, InverseReachesSound,
     InsertEdgeSound, CountSound, MakeEdgeSound, SpreadSound, CloseOneSound,
     PollSound, ClosedSound
<1>4. CASE \E f \in Seeds : AddSeed(f)
  BY <1>4, SeedSound
<1>5. CASE \E w \in Watches : RegisterDFSListener(w[1], w[2])
  <2>1. PICK w \in Watches : RegisterDFSListener(w[1], w[2])
    BY <1>5
  <2>2. w[1] \in State /\ w[2] \in Listener
    BY ReachabilityAssumption
  <2> QED BY <2>1, <2>2, VisitorSound
<1>6. CASE Step
  BY <1>2, <1>3, <1>6 DEF Step
<1> QED BY <1>1, <1>4, <1>5, <1>6 DEF Next

LEMMA SoundInvariant == Spec => []SoundInv
<1> QED BY InitSound, NextSound, PTL DEF Spec

\* Every call on the stack is well typed and announces a transition that is in
\* the automaton, whatever the client does from inside its callbacks.
THEOREM TypeCorrect == Spec => []TypeOK
<1>1. SoundInv => TypeOK
  <2> SUFFICES ASSUME SoundInv PROVE TypeOK
    OBVIOUS
  <2>1. agenda \in Seq(SUBSET Call)
    <3>1. SoundCall \subseteq Call
      BY DEF SoundCall
    <3> QED BY <3>1 DEF SoundInv
  <2>2. ASSUME NEW i \in DOMAIN agenda, NEW c \in agenda[i]
        PROVE  c.op \in {"onWeightAdded", "notify", "hear"} => c.t \in transitions
    <3>1. c \in SoundCall
      BY DEF SoundInv
    <3> QED BY <3>1, SoundFields
  <2> QED BY <2>1, <2>2 DEF SoundInv, DataTypes, TypeOK
<1> QED BY <1>1, SoundInvariant, PTL

\* A ReachabilityListener hears only of transitions that leave a state reachable
\* from the one it listens at (TransitiveClosure.onOutTransitionAdded).
THEOREM NothingUnreachableTold == Spec => []ToldOnlyReachable
<1>1. SoundInv => ToldOnlyReachable
  BY DEF SoundInv
<1> QED BY <1>1, SoundInvariant, PTL

-----------------------------------------------------------------------------
(***************************************************************************)
(* What a step keeps of CompleteInv when it takes c from the stack.        *)
(***************************************************************************)
Less(c) == Waiting \ {c} \subseteq Waiting'

LEMMA PropagatedStays ==
    ASSUME Propagated, reaches' = reaches, adjacent' = adjacent,
           NEW c, Less(c), c.op \notin {"makeEdge", "spread", "close"}
    PROVE  Propagated'
<1> SUFFICES ASSUME NEW x \in State, NEW y \in State, NEW z \in State,
                    <<x, y>> \in reaches, <<y, z>> \in adjacent, <<x, z>> \notin reaches
             PROVE  Owed(x, y, z)'
  BY DEF Propagated
<1>1. PICK d \in Waiting : Owes(d, x, y, z)
  BY DEF Propagated, Owed
<1>2. d \in Waiting'
  BY <1>1 DEF Less, Owes
<1> QED BY <1>1, <1>2 DEF Owed

\* c goes on as `next', which owes what c did and follows the new pair e.
LEMMA PropagatedGrows ==
    ASSUME Propagated, adjacent' = adjacent, reaches \subseteq reaches',
           NEW c, NEW next, Less(c), next \in Waiting',
           NEW e, reaches' \subseteq reaches \cup {e},
           e \in reaches' => e \in reaches \/ e \in next.worklist,
           next.op \in {"makeEdge", "spread", "close"},
           \A x, y, z \in State :
             Owes(c, x, y, z) /\ <<x, y>> \in reaches /\ <<y, z>> \in adjacent
               => Owes(next, x, y, z) \/ <<x, z>> \in reaches'
    PROVE  Propagated'
<1> SUFFICES ASSUME NEW x \in State, NEW y \in State, NEW z \in State,
                    <<x, y>> \in reaches', <<y, z>> \in adjacent, <<x, z>> \notin reaches'
             PROVE  \E d \in Waiting' : Owes(d, x, y, z)
  BY DEF Propagated, Owed, Owes
<1>1. CASE <<x, y>> \notin reaches
  <2>1. <<x, y>> \in next.worklist
    BY <1>1
  <2> QED BY <2>1 DEF Owes
<1>2. CASE <<x, y>> \in reaches
  <2>1. PICK d \in Waiting : Owes(d, x, y, z)
    BY <1>2 DEF Propagated, Owed
  <2>2. CASE d = c
    BY <1>2, <2>1, <2>2
  <2>3. CASE d # c
    BY <2>1, <2>3 DEF Less
  <2> QED BY <2>2, <2>3
<1> QED BY <1>1, <1>2

LEMMA InvertedStays ==
    ASSUME inverse \subseteq inverse', NEW c, Less(c), c.op # "invert", NEW e, Inverted(e)
    PROVE  Inverted(e)'
<1>1. [op |-> "invert", e |-> e] # c
  OBVIOUS
<1> QED BY <1>1 DEF Inverted, Less

LEMMA EdgedStays ==
    ASSUME adjacent \subseteq adjacent', NEW c, Less(c), c.op \notin {"insert", "makeEdge"},
           NEW e, Edged(e)
    PROVE  Edged(e)'
<1>1. [op |-> "insert", e |-> e] # c
  OBVIOUS
<1> QED BY <1>1 DEF Edged, Less

LEMMA FollowedGrows ==
    ASSUME Followed, transitions' = transitions, attached' = attached,
           \A e : Inverted(e) => Inverted(e)', \A e : Edged(e) => Edged(e)',
           NEW c, Less(c), c.op # "onWeightAdded"
    PROVE  Followed'
<1> SUFFICES ASSUME attached, NEW t \in transitions
             PROVE  \/ [op |-> "onWeightAdded", t |-> t] \in Waiting'
                    \/ /\ Inverted(<<t.start, t.start>>)'
                       /\ t.label \in Continue => Edged(<<t.start, t.target>>)'
  BY DEF Followed
<1>1. [op |-> "onWeightAdded", t |-> t] # c
  OBVIOUS
<1> QED BY <1>1 DEF Followed, Less

LEMMA FollowedStays ==
    ASSUME Followed, transitions' = transitions, attached' = attached,
           inverse \subseteq inverse', adjacent \subseteq adjacent', NEW c, Less(c),
           c.op \notin {"onWeightAdded", "invert", "insert", "makeEdge"}
    PROVE  Followed'
<1>1. /\ \A e : Inverted(e) => Inverted(e)'
      /\ \A e : Edged(e) => Edged(e)'
  BY InvertedStays, EdgedStays
<1> QED BY <1>1, FollowedGrows

\* What a listener's subscription at b, reachable from a, comes to.
Subscribes(a, b, l) ==
    \/ [at |-> b, from |-> a, l |-> l] \in closures
    \/ [op |-> "register", k |-> [at |-> b, from |-> a, l |-> l]] \in Waiting

LEMMA SubscribesStays ==
    ASSUME closures \subseteq closures', NEW c, Less(c), c.op # "register",
           NEW a, NEW b, NEW l, Subscribes(a, b, l)
    PROVE  Subscribes(a, b, l)'
<1> DEFINE r == [op |-> "register", k |-> [at |-> b, from |-> a, l |-> l]]
<1>1. r # c
  <2>1. r.op = "register"
    OBVIOUS
  <2> QED BY <2>1
<1>2. r \in Waiting => r \in Waiting'
  BY <1>1 DEF Less
<1> QED BY <1>2 DEF Subscribes

LEMMA SubscribedGrows ==
    ASSUME Subscribed, listeners' = listeners, closures \subseteq closures',
           inverse \subseteq Pair, NEW e \in Pair, inverse' \subseteq inverse \cup {e},
           e \in inverse' => Invert(e) \subseteq Waiting',
           NEW c, Less(c), c.op # "register"
    PROVE  Subscribed'
<1> SUFFICES ASSUME NEW p \in inverse', NEW l \in Listener, <<p[1], l>> \in listeners
             PROVE  Subscribes(p[1], p[2], l)'
  BY DEF Subscribed, Subscribes
<1>1. CASE p \in inverse
  <2>1. Subscribes(p[1], p[2], l)
    BY <1>1 DEF Subscribed, Subscribes
  <2> QED BY <2>1, SubscribesStays
<1>2. CASE p \notin inverse
  <2>1. p = e /\ Invert(e) \subseteq Waiting'
    BY <1>2
  <2>2. l \in ListenersOf(p[1])
    BY DEF ListenersOf
  <2>3. [op |-> "register", k |-> [at |-> p[2], from |-> p[1], l |-> l]] \in Invert(e)
    BY <1>2, <2>1, <2>2 DEF Invert, Register
  <2> QED BY <2>1, <2>3 DEF Subscribes
<1> QED BY <1>1, <1>2

LEMMA SubscribedStays ==
    ASSUME Subscribed, listeners' = listeners, closures \subseteq closures',
           inverse' = inverse, NEW c, Less(c), c.op # "register"
    PROVE  Subscribed'
<1> SUFFICES ASSUME NEW p \in inverse, NEW l \in Listener, <<p[1], l>> \in listeners
             PROVE  Subscribes(p[1], p[2], l)'
  BY DEF Subscribed, Subscribes
<1>1. Subscribes(p[1], p[2], l)
  BY DEF Subscribed, Subscribes
<1> QED BY <1>1, SubscribesStays

\* What there is to say of a subscription k and a transition t it waits for.
Notifies(k, t) ==
    \/ <<k.l, t>> \in told
    \/ [op |-> "hear", k |-> k, t |-> t] \in Waiting
    \/ [op |-> "notify", t |-> t] \in Waiting

LEMMA NotifiesStays ==
    ASSUME told \subseteq told', NEW c, Less(c), c.op \notin {"hear", "notify"},
           NEW k, NEW t, Notifies(k, t)
    PROVE  Notifies(k, t)'
<1>1. [op |-> "hear", k |-> k, t |-> t] # c /\ [op |-> "notify", t |-> t] # c
  <2>1. /\ [op |-> "hear", k |-> k, t |-> t].op = "hear"
        /\ [op |-> "notify", t |-> t].op = "notify"
    OBVIOUS
  <2> QED BY <2>1
<1> QED BY <1>1 DEF Notifies, Less

LEMMA NotifiedStays ==
    ASSUME Notified, closures' = closures, transitions' = transitions,
           told \subseteq told', NEW c, Less(c), c.op \notin {"hear", "notify"}
    PROVE  Notified'
<1> SUFFICES ASSUME NEW k \in closures, NEW t \in transitions, k.at = t.start
             PROVE  Notifies(k, t)'
  BY DEF Notified, Notifies
<1>1. Notifies(k, t)
  BY DEF Notified, Notifies
<1> QED BY <1>1, NotifiesStays

LEMMA NestedStays ==
    ASSUME Nested, adjacent' = adjacent, reaches' = reaches, counted' = counted,
           inverse \subseteq inverse', listeners' = listeners, attached' = attached,
           NEW c, NEW made, Moves(c, made),
           \A d \in made : d.op \notin {"count", "makeEdge", "spread", "watch"}
    PROVE  Nested'
<1> SUFFICES ASSUME NEW d \in Waiting'
             PROVE  /\ d.op \in {"count", "makeEdge", "spread"} => d.e \in reaches
                    /\ d.op = "watch" => attached
  BY DEF Nested
<1>1. d \in Waiting \/ d \in made
  BY DEF Moves
<1> QED BY <1>1 DEF Nested

(***************************************************************************)
(* The steps.                                                              *)
(***************************************************************************)
\* A call made by the innermost loop.
LEMMA CallOf ==
    ASSUME SoundInv, NEW c \in Innermost
    PROVE  agenda \in Seq(SUBSET SoundCall) /\ c \in SoundCall /\ c \in Call
           /\ c \in Waiting
<1>1. agenda \in Seq(SUBSET SoundCall) /\ c \in SoundCall /\ agenda # <<>>
  BY InnermostCall DEF SoundInv
<1>2. c \in Call
  BY <1>1 DEF SoundCall
<1>3. 1 \in DOMAIN agenda /\ c \in agenda[1]
  BY <1>1 DEF Innermost
<1> QED BY <1>1, <1>2, <1>3 DEF Waiting

LEMMA MovesLess == ASSUME NEW c, NEW made, Moves(c, made) PROVE Less(c) /\ made \subseteq Waiting'
BY DEF Moves, Less

\* A step that only replaces a call without an effect keeps everything.
LEMMA QuietCompletes ==
    ASSUME CompleteInv,
           UNCHANGED <<transitions, closures, attached, listeners, closure, told>>,
           NEW c, NEW made, Moves(c, made),
           c.op \notin {"makeEdge", "spread", "close", "onWeightAdded", "invert", "insert",
                        "register", "hear", "notify"},
           \A d \in made : d.op \notin {"count", "makeEdge", "spread", "watch"}
    PROVE  CompleteInv'
<1>1. UNCHANGED <<transitions, closures, attached, listeners, adjacent,
                  reaches, inverse, counted, told>>
  BY DEF closure
<1>2. Less(c)
  BY MovesLess
<1>3. Propagated'
  BY <1>1, <1>2, PropagatedStays DEF CompleteInv
<1>4. Followed'
  BY <1>1, <1>2, FollowedStays DEF CompleteInv
<1>5. Subscribed'
  BY <1>1, <1>2, SubscribedStays DEF CompleteInv
<1>6. Notified'
  BY <1>1, <1>2, NotifiedStays DEF CompleteInv
<1>7. Nested'
  BY <1>1, NestedStays DEF CompleteInv
<1> QED BY <1>3, <1>4, <1>5, <1>6, <1>7 DEF CompleteInv

LEMMA ClientReturnCompletes ==
    ASSUME SoundInv, CompleteInv, NEW c \in Innermost, ClientReturn(c)
    PROVE  CompleteInv'
<1>1. Moves(c, {})
  BY CallOf, ReturnMoves DEF ClientReturn
<1> QED BY <1>1, QuietCompletes DEF ClientReturn, data

LEMMA EndLoopCompletes == ASSUME SoundInv, CompleteInv, EndLoop PROVE CompleteInv'
<1> DEFINE c == [op |-> "client"]
<1>1. Moves(c, {})
  BY EndMoves DEF EndLoop, SoundInv
<1>2. c.op = "client"
  OBVIOUS
<1> HIDE DEF c
<1> QED BY <1>1, <1>2, QuietCompletes DEF EndLoop, data

LEMMA StutterCompletes == ASSUME CompleteInv, UNCHANGED vars PROVE CompleteInv'
<1> DEFINE c == [op |-> "client"]
<1>1. Moves(c, {}) /\ UNCHANGED data
  BY DEF Moves, Waiting, vars
<1>2. c.op = "client"
  OBVIOUS
<1> HIDE DEF c
<1> QED BY <1>1, <1>2, QuietCompletes DEF data

LEMMA SeedCompletes ==
    ASSUME SoundInv, CompleteInv, NEW f \in Seeds, AddSeed(f)
    PROVE  CompleteInv'
<1> DEFINE c == [op |-> "client"]
<1>1. Moves(c, On("add", f.t))
  BY PushMoves DEF AddSeed, SoundInv
<1>2. \A d \in On("add", f.t) : d.op = "add"
  BY DEF On
<1>3. c.op = "client"
  OBVIOUS
<1> HIDE DEF c
<1> QED BY <1>1, <1>2, <1>3, QuietCompletes DEF AddSeed

LEMMA VisitorCompletes ==
    ASSUME SoundInv, CompleteInv, NEW s \in State, NEW l \in Listener,
           RegisterDFSListener(s, l)
    PROVE  CompleteInv'
<1> DEFINE c == [op |-> "client"]
           replayed == IF attached THEN {}
                       ELSE UNION {On("onWeightAdded", t) : t \in transitions}
           watch == {[op |-> "watch", s |-> s, l |-> l]}
<1>1. /\ UNCHANGED <<transitions, closures, listeners, adjacent, reaches, inverse,
                     counted, told>>
      /\ attached' = TRUE
  BY DEF RegisterDFSListener, closure
<1>2. ~attached =>
        \A t \in transitions : [op |-> "onWeightAdded", t |-> t] \in replayed
  BY DEF On
<1>3. \A d \in replayed \cup watch : d.op \in {"onWeightAdded", "watch"}
  BY DEF On
<1>4. c.op = "client"
  OBVIOUS
<1> HIDE DEF c, replayed, watch
<1>5. Moves(c, replayed \cup watch)
  BY PushMoves DEF RegisterDFSListener, SoundInv, replayed, watch
<1>6. Less(c) /\ replayed \subseteq Waiting'
  BY <1>5, MovesLess
<1>7. Propagated'
  BY <1>1, <1>4, <1>6, PropagatedStays DEF CompleteInv
<1>8. Followed'
  <2>1. CASE attached
    <3>1. attached' = attached
      BY <1>1, <2>1 DEF SoundInv, DataTypes
    <3> QED BY <1>1, <1>4, <1>6, <3>1, FollowedStays DEF CompleteInv
  <2>2. CASE ~attached
    BY <1>1, <1>2, <1>6, <2>2 DEF Followed
  <2> QED BY <2>1, <2>2
<1>9. Subscribed'
  BY <1>1, <1>4, <1>6, SubscribedStays DEF CompleteInv
<1>10. Notified'
  BY <1>1, <1>4, <1>6, NotifiedStays DEF CompleteInv
<1>11. Nested'
  BY <1>1, <1>3, <1>5 DEF CompleteInv, Nested, Moves
<1> QED BY <1>7, <1>8, <1>9, <1>10, <1>11 DEF CompleteInv

LEMMA AddCompletes ==
    ASSUME SoundInv, CompleteInv, NEW c \in Innermost, AddWeightForTransition(c)
    PROVE  CompleteInv'
<1> DEFINE announced == IF attached THEN On("onWeightAdded", c.t) ELSE {}
           notified == On("notify", c.t)
<1>1. /\ UNCHANGED <<closures, attached, listeners, adjacent, reaches, inverse,
                     counted, told>>
      /\ transitions' = transitions \cup {c.t} /\ c.op = "add"
  BY DEF AddWeightForTransition, closure
<1>2. /\ attached => [op |-> "onWeightAdded", t |-> c.t] \in announced
      /\ [op |-> "notify", t |-> c.t] \in notified
      /\ \A d \in announced \cup notified : d.op \in {"onWeightAdded", "notify"}
  BY DEF On
<1> HIDE DEF announced, notified
<1>3. Moves(c, announced \cup notified)
  BY CallOf, ReturnMoves DEF AddWeightForTransition, announced, notified
<1>4. Less(c) /\ announced \subseteq Waiting' /\ notified \subseteq Waiting'
  BY <1>3, MovesLess
<1>5. Propagated'
  BY <1>1, <1>4, PropagatedStays DEF CompleteInv
<1>6. Followed'
  <2> SUFFICES ASSUME attached, NEW t \in transitions \cup {c.t}
               PROVE  \/ [op |-> "onWeightAdded", t |-> t] \in Waiting'
                      \/ /\ Inverted(<<t.start, t.start>>)'
                         /\ t.label \in Continue => Edged(<<t.start, t.target>>)'
    BY <1>1 DEF Followed
  <2>1. CASE t = c.t
    BY <1>2, <1>4, <2>1
  <2>2. CASE t \in transitions
    <3>1. [op |-> "onWeightAdded", t |-> t] # c
      BY <1>1
    <3>2. CASE [op |-> "onWeightAdded", t |-> t] \in Waiting
      BY <1>4, <3>1, <3>2 DEF Less
    <3>3. CASE /\ Inverted(<<t.start, t.start>>)
               /\ t.label \in Continue => Edged(<<t.start, t.target>>)
      BY <1>1, <1>4, <3>3, InvertedStays, EdgedStays
    <3> QED BY <2>2, <3>2, <3>3 DEF CompleteInv, Followed
  <2> QED BY <2>1, <2>2
<1>7. Subscribed'
  BY <1>1, <1>4, SubscribedStays DEF CompleteInv
<1>8. Notified'
  <2> SUFFICES ASSUME NEW k \in closures, NEW t \in transitions \cup {c.t}, k.at = t.start
               PROVE  Notifies(k, t)'
    BY <1>1 DEF Notified, Notifies
  <2>1. CASE t = c.t
    BY <1>2, <1>4, <2>1 DEF Notifies
  <2>2. CASE t \in transitions
    <3>1. Notifies(k, t)
      BY <2>2 DEF CompleteInv, Notified, Notifies
    <3> QED BY <1>1, <1>4, <3>1, NotifiesStays
  <2> QED BY <2>1, <2>2
<1>9. Nested'
  BY <1>1, <1>2, <1>3, NestedStays DEF CompleteInv
<1> QED BY <1>5, <1>6, <1>7, <1>8, <1>9 DEF CompleteInv

LEMMA NotifyCompletes ==
    ASSUME SoundInv, CompleteInv, NEW c \in Innermost, NotifyListeners(c)
    PROVE  CompleteInv'
<1> DEFINE heard == {[op |-> "hear", k |-> k, t |-> c.t] :
                       k \in {j \in closures : j.at = c.t.start}}
<1>1. /\ UNCHANGED <<transitions, closures, attached, listeners, adjacent, reaches,
                     inverse, counted, told>>
      /\ c.op = "notify"
  BY DEF NotifyListeners, data, closure
<1>2. /\ \A k \in closures : k.at = c.t.start => [op |-> "hear", k |-> k, t |-> c.t] \in heard
      /\ \A d \in heard : d.op = "hear"
  OBVIOUS
<1> HIDE DEF heard
<1>3. Moves(c, heard)
  BY CallOf, ReturnMoves DEF NotifyListeners, heard
<1>4. Less(c) /\ heard \subseteq Waiting'
  BY <1>3, MovesLess
<1>5. Propagated'
  BY <1>1, <1>4, PropagatedStays DEF CompleteInv
<1>6. Followed'
  BY <1>1, <1>4, FollowedStays DEF CompleteInv
<1>7. Subscribed'
  BY <1>1, <1>4, SubscribedStays DEF CompleteInv
<1>8. Notified'
  <2> SUFFICES ASSUME NEW k \in closures, NEW t \in transitions, k.at = t.start
               PROVE  Notifies(k, t)'
    BY <1>1 DEF Notified, Notifies
  <2>1. Notifies(k, t)
    BY DEF CompleteInv, Notified, Notifies
  <2>2. CASE c = [op |-> "notify", t |-> t]
    <3>1. c.t = t
      BY <2>2
    <3> QED BY <1>2, <1>4, <3>1 DEF Notifies
  <2>3. CASE c # [op |-> "notify", t |-> t]
    <3>1. c # [op |-> "hear", k |-> k, t |-> t]
      BY <1>1
    <3> QED BY <1>1, <1>4, <2>1, <2>3, <3>1 DEF Notifies, Less
  <2> QED BY <2>2, <2>3
<1>9. Nested'
  BY <1>1, <1>2, <1>3, NestedStays DEF CompleteInv
<1> QED BY <1>5, <1>6, <1>7, <1>8, <1>9 DEF CompleteInv

LEMMA RegisterListenerCompletes ==
    ASSUME SoundInv, CompleteInv, NEW c \in Innermost, RegisterListener(c)
    PROVE  CompleteInv'
<1> DEFINE replayed == {[op |-> "hear", k |-> c.k, t |-> t] :
                          t \in {u \in transitions : u.start = c.k.at}}
           made == IF c.k \in closures THEN {} ELSE replayed
<1>1. /\ UNCHANGED <<transitions, attached, listeners, adjacent, reaches,
                     inverse, counted, told>>
      /\ c.op = "register" /\ closures' = closures \cup {c.k}
  BY DEF RegisterListener, closure
<1>2. /\ \A t \in transitions :
           t.start = c.k.at => [op |-> "hear", k |-> c.k, t |-> t] \in replayed
      /\ \A d \in replayed : d.op = "hear"
  OBVIOUS
<1> HIDE DEF replayed
<1>3. Moves(c, made)
  BY CallOf, ReturnMoves DEF RegisterListener, replayed
<1>4. Less(c) /\ made \subseteq Waiting'
  BY <1>3, MovesLess
<1>5. Propagated'
  BY <1>1, <1>4, PropagatedStays DEF CompleteInv
<1>6. Followed'
  BY <1>1, <1>4, FollowedStays DEF CompleteInv
<1>7. Subscribed'
  <2> SUFFICES ASSUME NEW p \in inverse, NEW l \in Listener, <<p[1], l>> \in listeners
               PROVE  Subscribes(p[1], p[2], l)'
    BY <1>1 DEF Subscribed, Subscribes
  <2> DEFINE k == [at |-> p[2], from |-> p[1], l |-> l]
             r == [op |-> "register", k |-> k]
  <2>1. k \in closures \/ r \in Waiting
    BY DEF CompleteInv, Subscribed
  <2>2. r.k = k
    OBVIOUS
  <2> HIDE DEF r
  <2>3. k \in closures' \/ r \in Waiting'
    BY <1>1, <1>4, <2>1, <2>2 DEF Less
  <2> QED BY <2>3 DEF Subscribes, r
<1>8. Notified'
  <2> SUFFICES ASSUME NEW k \in closures \cup {c.k}, NEW t \in transitions, k.at = t.start
               PROVE  Notifies(k, t)'
    BY <1>1 DEF Notified, Notifies
  <2>1. CASE k \in closures
    <3>1. Notifies(k, t)
      BY <2>1 DEF CompleteInv, Notified, Notifies
    <3> QED BY <1>1, <1>4, <3>1, NotifiesStays
  <2>2. CASE k \notin closures
    BY <1>2, <1>4, <2>2 DEF Notifies
  <2> QED BY <2>1, <2>2
<1>9. Nested'
  BY <1>1, <1>2, <1>3, NestedStays DEF CompleteInv
<1> QED BY <1>5, <1>6, <1>7, <1>8, <1>9 DEF CompleteInv

LEMMA HearCompletes ==
    ASSUME SoundInv, CompleteInv, NEW c \in Innermost, Hear(c)
    PROVE  CompleteInv'
<1>1. /\ UNCHANGED <<transitions, closures, attached, listeners, adjacent, reaches,
                     inverse, counted>>
      /\ c.op = "hear" /\ told' = told \cup {<<c.k.l, c.t>>}
  BY DEF Hear, closure
<1>2. Moves(c, {[op |-> "client"]})
  BY CallOf, ReturnMoves DEF Hear
<1>3. Less(c)
  BY <1>2, MovesLess
<1>4. Propagated'
  BY <1>1, <1>3, PropagatedStays DEF CompleteInv
<1>5. Followed'
  BY <1>1, <1>3, FollowedStays DEF CompleteInv
<1>6. Subscribed'
  BY <1>1, <1>3, SubscribedStays DEF CompleteInv
<1>7. Notified'
  <2> SUFFICES ASSUME NEW k \in closures, NEW t \in transitions, k.at = t.start
               PROVE  Notifies(k, t)'
    BY <1>1 DEF Notified, Notifies
  <2>1. Notifies(k, t)
    BY DEF CompleteInv, Notified, Notifies
  <2>2. CASE c = [op |-> "hear", k |-> k, t |-> t]
    <3>1. c.k = k /\ c.t = t
      BY <2>2
    <3> QED BY <1>1, <3>1 DEF Notifies
  <2>3. CASE c # [op |-> "hear", k |-> k, t |-> t]
    <3>1. c # [op |-> "notify", t |-> t]
      BY <1>1
    <3> QED BY <1>1, <1>3, <2>1, <2>3, <3>1 DEF Notifies, Less
  <2> QED BY <2>2, <2>3
<1>8. Nested'
  <2>1. \A d \in {[op |-> "client"]} : d.op = "client"
    OBVIOUS
  <2> QED BY <1>1, <1>2, <2>1, NestedStays DEF CompleteInv
<1> QED BY <1>4, <1>5, <1>6, <1>7, <1>8 DEF CompleteInv

LEMMA WatchCompletes ==
    ASSUME SoundInv, CompleteInv, NEW c \in Innermost, Watch(c)
    PROVE  CompleteInv'
<1> DEFINE replayed == UNION {Register(d, c.s, {c.l}) :
                                d \in {x \in State : <<c.s, x>> \in inverse}}
           made == IF <<c.s, c.l>> \in listeners THEN {} ELSE replayed
<1>1. /\ UNCHANGED <<transitions, closures, attached, adjacent, reaches, inverse,
                     counted, told>>
      /\ c.op = "watch" /\ listeners' = listeners \cup {<<c.s, c.l>>}
  BY DEF Watch, closure
<1>2. ASSUME NEW r \in replayed PROVE r.op = "register"
  <2>1. PICK d \in State : r \in Register(d, c.s, {c.l})
    OBVIOUS
  <2> QED BY <2>1 DEF Register
<1>3. \A d \in State : <<c.s, d>> \in inverse =>
        [op |-> "register", k |-> [at |-> d, from |-> c.s, l |-> c.l]] \in replayed
  BY DEF Register
<1> HIDE DEF replayed
<1>4. Moves(c, made)
  BY CallOf, ReturnMoves DEF Watch, replayed
<1>5. Less(c) /\ made \subseteq Waiting'
  BY <1>4, MovesLess
<1>6. Propagated'
  BY <1>1, <1>5, PropagatedStays DEF CompleteInv
<1>7. Followed'
  BY <1>1, <1>5, FollowedStays DEF CompleteInv
<1>8. Subscribed'
  <2> SUFFICES ASSUME NEW p \in inverse, NEW l \in Listener,
                      <<p[1], l>> \in listeners \cup {<<c.s, c.l>>}
               PROVE  Subscribes(p[1], p[2], l)'
    BY <1>1 DEF Subscribed, Subscribes
  <2>1. CASE <<p[1], l>> \in listeners
    <3>1. Subscribes(p[1], p[2], l)
      BY <2>1 DEF CompleteInv, Subscribed, Subscribes
    <3> QED BY <1>1, <1>5, <3>1, SubscribesStays
  <2>2. CASE <<p[1], l>> \notin listeners
    <3>1. p[1] = c.s /\ l = c.l
      BY <2>2
    <3>2. p[2] \in State /\ <<c.s, p[2]>> \in inverse
      <4>1. p \in Pair
        BY DEF SoundInv, DataTypes
      <4>2. p = <<p[1], p[2]>> /\ p[2] \in State
        BY <4>1 DEF Pair
      <4> QED BY <3>1, <4>2
    <3> QED BY <1>3, <1>5, <2>2, <3>1, <3>2 DEF Subscribes
  <2> QED BY <2>1, <2>2
<1>9. Notified'
  BY <1>1, <1>5, NotifiedStays DEF CompleteInv
<1>10. Nested'
  <2>1. attached
    BY <1>1, CallOf DEF CompleteInv, Nested
  <2>2. \A d \in Waiting' : d \in Waiting \/ d.op = "register"
    BY <1>2, <1>4 DEF Moves
  <2> QED BY <1>1, <2>1, <2>2 DEF CompleteInv, Nested
<1> QED BY <1>6, <1>7, <1>8, <1>9, <1>10 DEF CompleteInv

LEMMA ForCalls ==
    ASSUME NEW op, NEW e
    PROVE  [op |-> op, e |-> e] \in For(op, e) /\ \A d \in For(op, e) : d.op = op /\ d.e = e
BY DEF For

LEMMA OnWeightAddedCompletes ==
    ASSUME SoundInv, CompleteInv, NEW c \in Innermost, OnWeightAdded(c)
    PROVE  CompleteInv'
<1> DEFINE self == <<c.t.start, c.t.start>>
           edge == <<c.t.start, c.t.target>>
           inserts == IF c.t.label \in Continue THEN For("insert", edge) ELSE {}
           made == For("invert", self) \cup inserts
<1>1. /\ UNCHANGED <<transitions, closures, attached, listeners, adjacent, reaches,
                     inverse, counted, told>>
      /\ c.op = "onWeightAdded"
  BY DEF OnWeightAdded, data, closure
<1>2. /\ [op |-> "invert", e |-> self] \in made
      /\ c.t.label \in Continue => [op |-> "insert", e |-> edge] \in made
      /\ \A d \in made : d.op \in {"invert", "insert"}
  BY ForCalls
<1>3. Moves(c, made)
  <2>1. Return(c, <<For("invert", self), inserts>>)
    BY DEF OnWeightAdded
  <2> HIDE DEF inserts
  <2> QED BY <2>1, CallOf, ReturnMoves
<1> HIDE DEF made
<1>4. Less(c) /\ made \subseteq Waiting'
  BY <1>3, MovesLess
<1>5. Propagated'
  BY <1>1, <1>4, PropagatedStays DEF CompleteInv
<1>6. Followed'
  <2> SUFFICES ASSUME attached, NEW t \in transitions
               PROVE  \/ [op |-> "onWeightAdded", t |-> t] \in Waiting'
                      \/ /\ Inverted(<<t.start, t.start>>)'
                         /\ t.label \in Continue => Edged(<<t.start, t.target>>)'
    BY <1>1 DEF Followed
  <2>1. CASE c = [op |-> "onWeightAdded", t |-> t]
    <3>1. c.t = t
      BY <2>1
    <3> QED BY <1>2, <1>4, <3>1 DEF Inverted, Edged
  <2>2. CASE c # [op |-> "onWeightAdded", t |-> t]
    <3>1. CASE [op |-> "onWeightAdded", t |-> t] \in Waiting
      BY <1>4, <2>2, <3>1 DEF Less
    <3>2. CASE /\ Inverted(<<t.start, t.start>>)
               /\ t.label \in Continue => Edged(<<t.start, t.target>>)
      BY <1>1, <1>4, <3>2, InvertedStays, EdgedStays
    <3> QED BY <3>1, <3>2 DEF CompleteInv, Followed
  <2> QED BY <2>1, <2>2
<1>7. Subscribed'
  BY <1>1, <1>4, SubscribedStays DEF CompleteInv
<1>8. Notified'
  BY <1>1, <1>4, NotifiedStays DEF CompleteInv
<1>9. Nested'
  BY <1>1, <1>2, <1>3, NestedStays DEF CompleteInv
<1> QED BY <1>5, <1>6, <1>7, <1>8, <1>9 DEF CompleteInv

LEMMA InvertCalls == ASSUME NEW e PROVE \A d \in Invert(e) : d.op = "register"
BY DEF Invert, Register

LEMMA InverseReachesCompletes ==
    ASSUME SoundInv, CompleteInv, NEW c \in Innermost, InverseReaches(c)
    PROVE  CompleteInv'
<1>1. /\ UNCHANGED <<transitions, closures, attached, listeners, adjacent, reaches,
                     counted, told>>
      /\ c.op = "invert" /\ inverse' = inverse \cup {c.e}
  BY DEF InverseReaches
<1>2. Moves(c, Invert(c.e))
  BY CallOf, ReturnMoves DEF InverseReaches
<1>3. Less(c) /\ Invert(c.e) \subseteq Waiting'
  BY <1>2, MovesLess
<1>4. c.e \in Pair /\ inverse \subseteq Pair
  BY <1>1, CallOf, CallFields DEF SoundInv, DataTypes
<1>5. Propagated'
  BY <1>1, <1>3, PropagatedStays DEF CompleteInv
<1>6. Followed'
  <2>1. ASSUME NEW e, Inverted(e) PROVE Inverted(e)'
    <3>1. CASE c = [op |-> "invert", e |-> e]
      <4>1. c.e = e
        BY <3>1
      <4> QED BY <1>1, <4>1 DEF Inverted
    <3>2. CASE c # [op |-> "invert", e |-> e]
      BY <1>1, <1>3, <2>1, <3>2 DEF Inverted, Less
    <3> QED BY <3>1, <3>2
  <2>2. \A e : Edged(e) => Edged(e)'
    BY <1>1, <1>3, EdgedStays
  <2> QED BY <1>1, <1>3, <2>1, <2>2, FollowedGrows DEF CompleteInv
<1>7. Subscribed'
  BY <1>1, <1>3, <1>4, SubscribedGrows DEF CompleteInv
<1>8. Notified'
  BY <1>1, <1>3, NotifiedStays DEF CompleteInv
<1>9. Nested'
  BY <1>1, <1>2, InvertCalls, NestedStays DEF CompleteInv
<1> QED BY <1>5, <1>6, <1>7, <1>8, <1>9 DEF CompleteInv

LEMMA CountCompletes ==
    ASSUME SoundInv, CompleteInv, NEW c \in Innermost, Count(c)
    PROVE  CompleteInv'
<1>1. /\ UNCHANGED <<transitions, closures, attached, listeners, adjacent, reaches,
                     inverse, told>>
      /\ c.op = "count" /\ counted' = counted \cup {c.e}
  BY DEF Count
<1>2. Moves(c, {})
  BY CallOf, ReturnMoves DEF Count
<1>3. Less(c)
  BY <1>2, MovesLess
<1>4. Propagated'
  BY <1>1, <1>3, PropagatedStays DEF CompleteInv
<1>5. Followed'
  BY <1>1, <1>3, FollowedStays DEF CompleteInv
<1>6. Subscribed'
  BY <1>1, <1>3, SubscribedStays DEF CompleteInv
<1>7. Notified'
  BY <1>1, <1>3, NotifiedStays DEF CompleteInv
<1>8. Nested'
  <2>1. c.e \in reaches
    BY <1>1, CallOf DEF CompleteInv, Nested
  <2> QED BY <1>1, <1>2, <2>1 DEF CompleteInv, Nested, Moves
<1> QED BY <1>4, <1>5, <1>6, <1>7, <1>8 DEF CompleteInv

LEMMA MakeEdgeCompletes ==
    ASSUME SoundInv, CompleteInv, NEW c \in Innermost, MakeEdge(c)
    PROVE  CompleteInv'
<1> DEFINE next == [op |-> "spread", e |-> c.e, worklist |-> c.worklist]
<1>1. /\ UNCHANGED <<transitions, closures, attached, listeners, reaches, counted, told>>
      /\ c.op = "makeEdge" /\ inverse' = inverse \cup {c.e}
      /\ adjacent' = adjacent \cup {c.e}
  BY DEF MakeEdge
<1>2. next.op = "spread" /\ next.e = c.e /\ next.worklist = c.worklist
  OBVIOUS
<1> HIDE DEF next
<1>3. Moves(c, Invert(c.e) \cup {next})
  BY CallOf, ResumeMoves DEF MakeEdge, next
<1>4. Less(c) /\ Invert(c.e) \subseteq Waiting' /\ next \in Waiting'
  BY <1>3, MovesLess
<1>5. c.e \in Pair /\ inverse \subseteq Pair
  BY <1>1, CallOf, CallFields DEF SoundInv, DataTypes
<1>6. c.e \in reaches
  BY <1>1, CallOf DEF CompleteInv, Nested
<1>7. Propagated'
  <2> SUFFICES ASSUME NEW x \in State, NEW y \in State, NEW z \in State,
                      <<x, y>> \in reaches, <<y, z>> \in adjacent \cup {c.e},
                      <<x, z>> \notin reaches
               PROVE  Owed(x, y, z)'
    BY <1>1 DEF Propagated
  <2>1. CASE <<y, z>> = c.e
    BY <1>2, <1>4, <2>1 DEF Owed, Owes
  <2>2. CASE <<y, z>> \in adjacent
    <3>1. PICK d \in Waiting : Owes(d, x, y, z)
      BY <2>2 DEF CompleteInv, Propagated, Owed
    <3>2. CASE d = c
      BY <1>1, <1>2, <1>4, <3>1, <3>2 DEF Owed, Owes
    <3>3. CASE d # c
      <4>1. d \in Waiting'
        BY <1>4, <3>3 DEF Less
      <4> QED BY <3>1, <4>1 DEF Owed
    <3> QED BY <3>2, <3>3
  <2> QED BY <2>1, <2>2
<1>8. Followed'
  <2>1. \A e : Inverted(e) => Inverted(e)'
    BY <1>1, <1>4, InvertedStays
  <2>2. ASSUME NEW e, Edged(e) PROVE Edged(e)'
    <3>1. [op |-> "insert", e |-> e] # c
      BY <1>1
    <3> QED BY <1>1, <1>4, <2>2, <3>1 DEF Edged, Less
  <2> QED BY <1>1, <1>4, <2>1, <2>2, FollowedGrows DEF CompleteInv
<1>9. Subscribed'
  BY <1>1, <1>4, <1>5, SubscribedGrows DEF CompleteInv
<1>10. Notified'
  BY <1>1, <1>4, NotifiedStays DEF CompleteInv
<1>11. Nested'
  <2>1. \A d \in Waiting' : d \in Waiting \/ d.op = "register" \/ d = next
    BY <1>3, InvertCalls DEF Moves
  <2> QED BY <1>1, <1>2, <1>6, <2>1 DEF CompleteInv, Nested
<1> QED BY <1>7, <1>8, <1>9, <1>10, <1>11 DEF CompleteInv

LEMMA SpreadCompletes ==
    ASSUME SoundInv, CompleteInv, NEW c \in Innermost, Spread(c)
    PROVE  CompleteInv'
<1> DEFINE todo == {<<x, c.e[2]>> : x \in {y \in State : <<y, c.e[1]>> \in reaches}}
           next == [op |-> "close", worklist |-> c.worklist, todo |-> todo]
<1>1. /\ UNCHANGED <<transitions, closures, attached, listeners, adjacent, reaches,
                     inverse, counted, told>>
      /\ c.op = "spread"
  BY DEF Spread, data, closure
<1>2. \A x \in State : <<x, c.e[1]>> \in reaches => <<x, c.e[2]>> \in todo
  OBVIOUS
<1> HIDE DEF todo
<1>3. next.op = "close" /\ next.worklist = c.worklist /\ next.todo = todo
  OBVIOUS
<1> HIDE DEF next
<1>4. Moves(c, {next})
  BY CallOf, ResumeMoves DEF Spread, next, todo
<1>5. Less(c) /\ next \in Waiting'
  BY <1>4, MovesLess
<1>6. Propagated'
  <2>1. ASSUME NEW x \in State, NEW y \in State, NEW z \in State,
               Owes(c, x, y, z), <<x, y>> \in reaches, <<y, z>> \in adjacent
        PROVE  Owes(next, x, y, z)
    <3>1. CASE c.e = <<y, z>>
      <4>1. c.e[1] = y /\ c.e[2] = z
        BY <3>1
      <4>2. <<x, z>> \in next.todo
        BY <1>2, <1>3, <2>1, <4>1
      <4> QED BY <1>3, <4>2 DEF Owes
    <3>2. CASE <<x, y>> \in c.worklist
      BY <1>3, <3>2 DEF Owes
    <3> QED BY <1>1, <2>1, <3>1, <3>2 DEF Owes
  <2> QED BY <1>1, <1>3, <1>5, <2>1, PropagatedGrows DEF CompleteInv
<1>7. Followed'
  BY <1>1, <1>5, FollowedStays DEF CompleteInv
<1>8. Subscribed'
  BY <1>1, <1>5, SubscribedStays DEF CompleteInv
<1>9. Notified'
  BY <1>1, <1>5, NotifiedStays DEF CompleteInv
<1>10. Nested'
  BY <1>1, <1>3, <1>4, NestedStays DEF CompleteInv
<1> QED BY <1>6, <1>7, <1>8, <1>9, <1>10 DEF CompleteInv

\* insertEdge and its loop: makeClosure adds e, and the call goes on as `next'.
LEMMA ClosureCompletes ==
    ASSUME SoundInv, CompleteInv, NEW c \in Innermost, c.op \in {"insert", "close"},
           UNCHANGED <<transitions, closures, attached, listeners, adjacent, counted, told>>,
           NEW e \in Pair, MakeClosure(e), NEW next,
           Moves(c, Closing(e) \cup For("count", e) \cup {next}),
           next.op \in {"makeEdge", "close"}, next.op = "makeEdge" => next.e = e
    PROVE  Subscribed' /\ Notified' /\ Nested' /\ inverse \subseteq inverse'
<1>1. Less(c) /\ Closing(e) \subseteq Waiting'
  BY MovesLess
<1>2. reaches' = reaches \cup {e}
      /\ inverse' = IF e \in reaches THEN inverse ELSE inverse \cup {e}
  BY DEF MakeClosure
<1>3. Subscribed'
  <2>1. CASE e \in reaches
    BY <1>1, <1>2, <2>1, SubscribedStays DEF CompleteInv
  <2>2. CASE e \notin reaches
    <3>1. Invert(e) \subseteq Waiting' /\ inverse \subseteq Pair
      BY <1>1, <2>2 DEF Closing, SoundInv, DataTypes
    <3> QED BY <1>1, <1>2, <2>2, <3>1, SubscribedGrows DEF CompleteInv
  <2> QED BY <2>1, <2>2
<1>4. Notified'
  BY <1>1, NotifiedStays DEF CompleteInv
<1>5. Nested'
  <2>1. \A d \in Closing(e) : d.op = "register"
    BY InvertCalls DEF Closing
  <2>2. \A d \in Waiting' : \/ d \in Waiting \/ d.op = "register" \/ d = next
                            \/ d.op = "count" /\ d.e = e
    <3>1. \A d \in For("count", e) : d.op = "count" /\ d.e = e
      BY ForCalls
    <3> QED BY <2>1, <3>1 DEF Moves
  <2> QED BY <1>2, <2>2 DEF CompleteInv, Nested
<1> QED BY <1>2, <1>3, <1>4, <1>5

LEMMA InsertEdgeCompletes ==
    ASSUME SoundInv, CompleteInv, NEW c \in Innermost, InsertEdge(c)
    PROVE  CompleteInv'
<1> DEFINE next == [op |-> "makeEdge", e |-> c.e,
                    worklist |-> IF c.e \in counted THEN {} ELSE {c.e}]
<1>1. /\ UNCHANGED <<transitions, closures, attached, listeners, adjacent, counted, told>>
      /\ c.op = "insert"
  BY DEF InsertEdge
<1>2. c.e \in Pair
  BY <1>1, CallOf, CallFields
<1>3. /\ next.op = "makeEdge" /\ next.e = c.e
      /\ c.e \notin counted => c.e \in next.worklist
  OBVIOUS
<1> HIDE DEF next
<1>4. Subscribed' /\ Notified' /\ Nested' /\ inverse \subseteq inverse' /\ Less(c)
      /\ next \in Waiting' /\ reaches \subseteq reaches' /\ reaches' \subseteq reaches \cup {c.e}
  <2>1. CASE c.e \in counted
    <3>1. UNCHANGED <<reaches, inverse>> /\ Resume(c, <<>>, next)
      BY <2>1 DEF InsertEdge, next
    <3>2. Moves(c, {next})
      BY <3>1, CallOf, ResumeMoves
    <3>3. Less(c) /\ next \in Waiting'
      BY <3>2, MovesLess
    <3>4. Subscribed' /\ Notified'
      BY <1>1, <3>1, <3>3, SubscribedStays, NotifiedStays DEF CompleteInv
    <3>5. Nested'
      BY <1>1, <1>3, <2>1, <3>1, <3>2 DEF CompleteInv, Nested, Moves
    <3> QED BY <3>1, <3>3, <3>4, <3>5
  <2>2. CASE c.e \notin counted
    <3>1. MakeClosure(c.e) /\ Resume(c, <<Closing(c.e), For("count", c.e)>>, next)
      BY <2>2 DEF InsertEdge, next
    <3>2. Moves(c, Closing(c.e) \cup For("count", c.e) \cup {next})
      BY <3>1, CallOf, ResumeMoves
    <3>3. Less(c) /\ next \in Waiting'
      BY <3>2, MovesLess
    <3>4. Subscribed' /\ Notified' /\ Nested' /\ inverse \subseteq inverse'
      BY <1>1, <1>2, <1>3, <3>1, <3>2, ClosureCompletes
    <3> QED BY <3>1, <3>3, <3>4 DEF MakeClosure
  <2> QED BY <2>1, <2>2
<1>5. Propagated'
  <2>1. c.e \in reaches' => c.e \in reaches \/ c.e \in next.worklist
    BY <1>3 DEF CompleteInv, Nested
  <2>2. \A x, y, z \in State : ~Owes(c, x, y, z)
    BY <1>1 DEF Owes
  <2> QED BY <1>1, <1>3, <1>4, <2>1, <2>2, PropagatedGrows DEF CompleteInv
<1>6. Followed'
  <2>1. \A e : Inverted(e) => Inverted(e)'
    BY <1>1, <1>4, InvertedStays
  <2>2. ASSUME NEW e, Edged(e) PROVE Edged(e)'
    <3>1. CASE c = [op |-> "insert", e |-> e]
      <4>1. next.e = e
        BY <1>3, <3>1
      <4> QED BY <1>3, <1>4, <4>1 DEF Edged
    <3>2. CASE c # [op |-> "insert", e |-> e]
      BY <1>1, <1>4, <2>2, <3>2 DEF Edged, Less
    <3> QED BY <3>1, <3>2
  <2> QED BY <1>1, <1>4, <2>1, <2>2, FollowedGrows DEF CompleteInv
<1> QED BY <1>4, <1>5, <1>6 DEF CompleteInv

LEMMA CloseOneCompletes ==
    ASSUME SoundInv, CompleteInv, NEW c \in Innermost, NEW e \in c.todo, CloseOne(c, e)
    PROVE  CompleteInv'
<1> DEFINE next == [op |-> "close", todo |-> c.todo \ {e},
                    worklist |-> c.worklist \cup IF e \in counted THEN {} ELSE {e}]
<1>1. /\ UNCHANGED <<transitions, closures, attached, listeners, adjacent, counted, told>>
      /\ c.op = "close"
  BY DEF CloseOne
<1>2. e \in Pair
  BY <1>1, CallOf, CallFields
<1>3. /\ next.op = "close" /\ next.todo = c.todo \ {e} /\ c.worklist \subseteq next.worklist
      /\ e \notin counted => e \in next.worklist
  OBVIOUS
<1>4. Subscribed' /\ Notified' /\ Nested' /\ inverse \subseteq inverse' /\ Less(c)
      /\ next \in Waiting' /\ reaches' = reaches \cup {e}
  <2>1. CASE e \in counted
    <3>1. UNCHANGED <<reaches, inverse>> /\ Resume(c, <<>>, next)
      BY <2>1 DEF CloseOne
    <3> HIDE DEF next
    <3>2. Moves(c, {next})
      BY <3>1, CallOf, ResumeMoves
    <3>3. Less(c) /\ next \in Waiting'
      BY <3>2, MovesLess
    <3>4. Subscribed' /\ Notified'
      BY <1>1, <3>1, <3>3, SubscribedStays, NotifiedStays DEF CompleteInv
    <3>5. Nested'
      BY <1>1, <1>3, <3>1, <3>2, NestedStays DEF CompleteInv
    <3>6. reaches' = reaches \cup {e}
      BY <2>1, <3>1 DEF CompleteInv, Nested
    <3> QED BY <3>1, <3>3, <3>4, <3>5, <3>6
  <2>2. CASE e \notin counted
    <3>1. MakeClosure(e) /\ Resume(c, <<Closing(e), For("count", e)>>, next)
      BY <2>2 DEF CloseOne
    <3> HIDE DEF next
    <3>2. Moves(c, Closing(e) \cup For("count", e) \cup {next})
      BY <3>1, CallOf, ResumeMoves
    <3>3. Less(c) /\ next \in Waiting'
      BY <3>2, MovesLess
    <3>4. Subscribed' /\ Notified' /\ Nested' /\ inverse \subseteq inverse'
      BY <1>1, <1>2, <1>3, <3>1, <3>2, ClosureCompletes
    <3> QED BY <3>1, <3>3, <3>4 DEF MakeClosure
  <2> QED BY <2>1, <2>2
<1> HIDE DEF next
<1>5. Propagated'
  <2>1. e \in reaches' => e \in reaches \/ e \in next.worklist
    BY <1>3 DEF CompleteInv, Nested
  <2>2. ASSUME NEW x \in State, NEW y \in State, NEW z \in State, Owes(c, x, y, z)
        PROVE  Owes(next, x, y, z) \/ <<x, z>> \in reaches'
    BY <1>1, <1>3, <1>4, <2>2 DEF Owes
  <2> QED BY <1>1, <1>3, <1>4, <2>1, <2>2, PropagatedGrows DEF CompleteInv
<1>6. Followed'
  BY <1>1, <1>4, FollowedStays DEF CompleteInv
<1> QED BY <1>4, <1>5, <1>6 DEF CompleteInv

LEMMA PollCompletes ==
    ASSUME SoundInv, CompleteInv, NEW c \in Innermost, NEW e \in c.worklist, Poll(c, e)
    PROVE  CompleteInv'
<1> DEFINE todo == {<<e[1], z>> : z \in {y \in State : <<e[2], y>> \in adjacent}}
           next == [op |-> "close", worklist |-> c.worklist \ {e}, todo |-> todo]
<1>1. /\ UNCHANGED <<transitions, closures, attached, listeners, adjacent, reaches,
                     inverse, counted, told>>
      /\ c.op = "close" /\ c.todo = {}
  BY DEF Poll, data, closure
<1>2. \A z \in State : <<e[2], z>> \in adjacent => <<e[1], z>> \in todo
  OBVIOUS
<1> HIDE DEF todo
<1>3. next.op = "close" /\ next.worklist = c.worklist \ {e} /\ next.todo = todo
  OBVIOUS
<1> HIDE DEF next
<1>4. Moves(c, {next})
  BY CallOf, ResumeMoves DEF Poll, next, todo
<1>5. Less(c) /\ next \in Waiting'
  BY <1>4, MovesLess
<1>6. Propagated'
  <2>1. ASSUME NEW x \in State, NEW y \in State, NEW z \in State,
               Owes(c, x, y, z), <<y, z>> \in adjacent
        PROVE  Owes(next, x, y, z)
    <3>1. CASE e = <<x, y>>
      <4>1. e[1] = x /\ e[2] = y
        BY <3>1
      <4>2. <<x, z>> \in next.todo
        BY <1>2, <1>3, <2>1, <4>1
      <4> QED BY <1>3, <4>2 DEF Owes
    <3>2. CASE e # <<x, y>>
      BY <1>1, <1>3, <2>1, <3>2 DEF Owes
    <3> QED BY <3>1, <3>2
  <2> QED BY <1>1, <1>3, <1>5, <2>1, PropagatedGrows DEF CompleteInv
<1>7. Followed'
  BY <1>1, <1>5, FollowedStays DEF CompleteInv
<1>8. Subscribed'
  BY <1>1, <1>5, SubscribedStays DEF CompleteInv
<1>9. Notified'
  BY <1>1, <1>5, NotifiedStays DEF CompleteInv
<1>10. Nested'
  BY <1>1, <1>3, <1>4, NestedStays DEF CompleteInv
<1> QED BY <1>6, <1>7, <1>8, <1>9, <1>10 DEF CompleteInv

LEMMA ClosedCompletes ==
    ASSUME SoundInv, CompleteInv, NEW c \in Innermost, Closed(c)
    PROVE  CompleteInv'
<1>1. /\ UNCHANGED <<transitions, closures, attached, listeners, adjacent, reaches,
                     inverse, counted, told>>
      /\ c.op = "close" /\ c.todo = {} /\ c.worklist = {}
  BY DEF Closed, data, closure
<1>2. Moves(c, {})
  BY CallOf, ReturnMoves DEF Closed
<1>3. Less(c)
  BY <1>2, MovesLess
<1>4. Propagated'
  <2> SUFFICES ASSUME NEW x \in State, NEW y \in State, NEW z \in State,
                      <<x, y>> \in reaches, <<y, z>> \in adjacent, <<x, z>> \notin reaches
               PROVE  \E d \in Waiting' : Owes(d, x, y, z)
    BY <1>1 DEF Propagated, Owed, Owes
  <2>1. PICK d \in Waiting : Owes(d, x, y, z)
    BY DEF CompleteInv, Propagated, Owed
  <2>2. d # c
    BY <1>1, <2>1 DEF Owes
  <2> QED BY <1>3, <2>1, <2>2 DEF Less
<1>5. Followed'
  BY <1>1, <1>3, FollowedStays DEF CompleteInv
<1>6. Subscribed'
  BY <1>1, <1>3, SubscribedStays DEF CompleteInv
<1>7. Notified'
  BY <1>1, <1>3, NotifiedStays DEF CompleteInv
<1>8. Nested'
  BY <1>1, <1>2, NestedStays DEF CompleteInv
<1> QED BY <1>4, <1>5, <1>6, <1>7, <1>8 DEF CompleteInv

LEMMA InitCompletes == Init => CompleteInv
BY DEF Init, CompleteInv, Propagated, Followed, Subscribed, Notified, Nested, Waiting

LEMMA NextCompletes == SoundInv /\ CompleteInv /\ [Next]_vars => CompleteInv'
<1> SUFFICES ASSUME SoundInv, CompleteInv, [Next]_vars PROVE CompleteInv'
  OBVIOUS
<1>1. CASE UNCHANGED vars
  BY <1>1, StutterCompletes
<1>2. CASE EndLoop
  BY <1>2, EndLoopCompletes
<1>3. ASSUME NEW c \in Innermost,
             \/ ClientReturn(c) \/ AddWeightForTransition(c) \/ NotifyListeners(c)
             \/ RegisterListener(c) \/ Hear(c) \/ Watch(c) \/ OnWeightAdded(c)
             \/ InverseReaches(c) \/ InsertEdge(c) \/ Count(c) \/ MakeEdge(c)
             \/ Spread(c)
             \/ c.op = "close" /\ \E e \in c.todo : CloseOne(c, e)
             \/ c.op = "close" /\ \E e \in c.worklist : Poll(c, e)
             \/ Closed(c)
      PROVE  CompleteInv'
  BY <1>3, ClientReturnCompletes, AddCompletes, NotifyCompletes,
     RegisterListenerCompletes, HearCompletes, WatchCompletes, OnWeightAddedCompletes,
     InverseReachesCompletes, InsertEdgeCompletes, CountCompletes, MakeEdgeCompletes,
     SpreadCompletes, CloseOneCompletes, PollCompletes, ClosedCompletes
<1>4. CASE \E f \in Seeds : AddSeed(f)
  BY <1>4, SeedCompletes
<1>5. CASE \E w \in Watches : RegisterDFSListener(w[1], w[2])
  <2>1. PICK w \in Watches : RegisterDFSListener(w[1], w[2])
    BY <1>5
  <2>2. w[1] \in State /\ w[2] \in Listener
    BY ReachabilityAssumption
  <2> QED BY <2>1, <2>2, VisitorCompletes
<1>6. CASE Step
  BY <1>2, <1>3, <1>6 DEF Step
<1> QED BY <1>1, <1>4, <1>5, <1>6 DEF Next

LEMMA CompleteInvariant == Spec => [](SoundInv /\ CompleteInv)
<1>1. Init => SoundInv /\ CompleteInv
  BY InitSound, InitCompletes
<1>2. (SoundInv /\ CompleteInv) /\ [Next]_vars => (SoundInv /\ CompleteInv)'
  BY NextSound, NextCompletes
<1> QED BY <1>1, <1>2, PTL DEF Spec

\* With no call left, what a state reaches is closed under the transitions.
LEMMA RestingClosure ==
    ASSUME SoundInv, CompleteInv, Idle, attached, NEW a \in State, NEW t \in transitions,
           Reachable(a, t.start)
    PROVE  <<a, t.start>> \in inverse
<1>1. Waiting = {}
  BY DEF Waiting, Idle
<1> DEFINE S == {a} \cup {b \in State : <<a, b>> \in reaches}
<1>2. ASSUME NEW u \in transitions, u.label \in Continue, u.start \in S
      PROVE  u.target \in S
  <2>1. <<u.start, u.target>> \in adjacent
    BY <1>1, <1>2 DEF CompleteInv, Followed, Edged
  <2>2. u \in Transition /\ u.start \in State /\ u.target \in State
    BY DEF SoundInv, DataTypes, Transition
  <2>3. CASE u.start = a
    BY <2>1, <2>2, <2>3 DEF CompleteInv, Nested
  <2>4. CASE <<a, u.start>> \in reaches
    BY <1>1, <2>1, <2>2, <2>4 DEF CompleteInv, Propagated, Owed
  <2> QED BY <1>2, <2>3, <2>4
<1>3. S \in SUBSET State /\ a \in S
  OBVIOUS
<1> HIDE DEF S
<1>4. t.start \in S
  BY <1>2, <1>3 DEF Reachable
<1>5. CASE t.start = a
  <2>1. <<t.start, t.start>> \in inverse
    BY <1>1 DEF CompleteInv, Followed, Inverted
  <2> QED BY <1>5, <2>1
<1>6. CASE <<a, t.start>> \in reaches
  BY <1>6 DEF CompleteInv, Nested
<1> QED BY <1>4, <1>5, <1>6 DEF S

\* Once the outermost call has returned, no ReachabilityListener has missed a
\* transition that leaves a state reachable from its own, whatever was added and
\* registered from inside the callbacks of insertEdge's loops.
THEOREM EverythingReachableTold == Spec => []ToldAllReachable
<1>1. SoundInv /\ CompleteInv => ToldAllReachable
  <2> SUFFICES ASSUME SoundInv, CompleteInv, Idle, NEW w \in listeners,
                      NEW t \in transitions, Reachable(w[1], t.start)
               PROVE  <<w[2], t>> \in told
    BY DEF ToldAllReachable
  <2>1. Waiting = {}
    BY DEF Waiting, Idle
  <2>2. w \in State \X Listener /\ w = <<w[1], w[2]>> /\ attached
    BY DEF SoundInv, DataTypes, CompleteInv, Nested
  <2> DEFINE e == <<w[1], t.start>>
             k == [at |-> t.start, from |-> w[1], l |-> w[2]]
  <2>3. e \in inverse
    BY <2>2, RestingClosure
  <2>4. e[1] = w[1] /\ e[2] = t.start /\ k.at = t.start /\ k.l = w[2]
    OBVIOUS
  <2>5. [at |-> e[2], from |-> e[1], l |-> w[2]] \in closures
    BY <2>1, <2>2, <2>3, <2>4 DEF CompleteInv, Subscribed
  <2>6. k \in closures
    BY <2>4, <2>5
  <2> HIDE DEF k
  <2> QED BY <2>1, <2>4, <2>6 DEF CompleteInv, Notified
<1> QED BY <1>1, CompleteInvariant, PTL
=============================================================================
