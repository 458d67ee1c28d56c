---------------------------- MODULE Ideal_proofs ----------------------------
(***************************************************************************)
(* Theorems about Ideal, for every program, typestate, order of the        *)
(* solvers' events and time-out.                                           *)
(***************************************************************************)
EXTENDS IdealInvariant, CallStack_proofs, TLAPS

(***************************************************************************)
(* The loops of the stack after a step: n of them in front of the old ones *)
(* (n = -1 when a loop has ended), and c gone.                             *)
(***************************************************************************)
Shifted(c, n, body) ==
    /\ n \in Int
    /\ DOMAIN agenda \subseteq Nat \ {0} /\ DOMAIN agenda' \subseteq Nat \ {0}
    /\ \A i \in DOMAIN agenda' :
         \/ i \in DOMAIN body /\ i <= n /\ agenda'[i] = body[i]
         \/ \E k \in DOMAIN agenda : i = k + n /\ agenda'[i] \subseteq agenda[k]
    /\ \A k \in DOMAIN agenda : \A d \in agenda[k] :
         \/ d = c /\ k = 1
         \/ k + n \in DOMAIN agenda' /\ d \in agenda'[k + n]

\* c leaves the stack, the calls of `made' join it in front, as the loops of
\* `body'.
StackStep(c, n, body, made) ==
    /\ agenda' \in Seq(SUBSET Call)
    /\ Shifted(c, n, body)
    /\ Moves(c, made)
    /\ \A i \in DOMAIN body : body[i] \subseteq made

LEMMA StackedShifts ==
    ASSUME NEW c, NEW body, Stacked(c, body), Len(body) \in Nat,
           DOMAIN body = 1..Len(body), DOMAIN agenda \subseteq Nat \ {0},
           DOMAIN agenda' \subseteq Nat \ {0}
    PROVE  Shifted(c, Len(body), body)
<1>1. ASSUME NEW i \in DOMAIN agenda'
      PROVE  \/ i \in DOMAIN body /\ i <= Len(body) /\ agenda'[i] = body[i]
             \/ \E k \in DOMAIN agenda : i = k + Len(body) /\ agenda'[i] \subseteq agenda[k]
  <2>1. CASE i \in DOMAIN body /\ agenda'[i] = body[i]
    BY <2>1
  <2>2. CASE \E k \in DOMAIN agenda : /\ i = k + Len(body)
                                      /\ agenda'[i] \subseteq agenda[k]
                                      /\ k = 1 => c \notin agenda'[i]
    BY <2>2
  <2> QED BY <2>1, <2>2, LoopAfter
<1>2. ASSUME NEW k \in DOMAIN agenda, NEW d \in agenda[k]
      PROVE  \/ d = c /\ k = 1
             \/ k + Len(body) \in DOMAIN agenda' /\ d \in agenda'[k + Len(body)]
  BY DEF Stacked
<1>3. Len(body) \in Int
  OBVIOUS
<1> QED BY <1>1, <1>2, <1>3 DEF Shifted

LEMMA SeqDomain ==
    ASSUME NEW S, NEW s \in Seq(S)
    PROVE  /\ DOMAIN s = 1..Len(s) /\ Len(s) \in Nat /\ DOMAIN s \subseteq Nat \ {0}
OBVIOUS

\* The call c returns, after no loop, one or two.
LEMMA Returns ==
    ASSUME agenda \in Seq(SUBSET Call), NEW c \in Innermost,
           NEW A \in SUBSET Call, NEW B \in SUBSET Call
    PROVE  /\ c \in Call /\ c \in Waiting /\ 1 \in DOMAIN agenda /\ c \in agenda[1]
           /\ Return(c, <<>>) => StackStep(c, 0, <<>>, {})
           /\ Return(c, <<A>>) => StackStep(c, 1, <<A>>, A)
           /\ Return(c, <<A, B>>) => StackStep(c, 2, <<A, B>>, A \cup B)
<1>1. 1 \in DOMAIN agenda /\ c \in agenda[1] /\ c \in Call
  BY DEF Innermost
<1>2. ASSUME NEW body \in Seq(SUBSET Call), Return(c, body)
      PROVE  agenda' \in Seq(SUBSET Call) /\ Shifted(c, Len(body), body)
  <2>1. agenda' \in Seq(SUBSET Call) /\ Stacked(c, body)
    BY <1>2, ReturnStack
  <2> QED BY <2>1, SeqDomain, StackedShifts
<1>3. /\ Return(c, <<>>) => Moves(c, {})
      /\ Return(c, <<A>>) => Moves(c, A)
      /\ Return(c, <<A, B>>) => Moves(c, A \cup B)
  BY ReturnMoves
<1>4. /\ <<>> \in Seq(SUBSET Call) /\ Len(<<>>) = 0
      /\ <<A>> \in Seq(SUBSET Call) /\ Len(<<A>>) = 1
      /\ <<A, B>> \in Seq(SUBSET Call) /\ Len(<<A, B>>) = 2
  BY LoopTypes
<1>5. Return(c, <<>>) => StackStep(c, 0, <<>>, {})
  BY <1>2, <1>3, <1>4, BodyDomains DEF StackStep
<1>6. Return(c, <<A>>) => StackStep(c, 1, <<A>>, A)
  <2>1. \A i \in DOMAIN <<A>> : <<A>>[i] \subseteq A
    BY BodyDomains
  <2> QED BY <1>2, <1>3, <1>4, <2>1 DEF StackStep
<1>7. Return(c, <<A, B>>) => StackStep(c, 2, <<A, B>>, A \cup B)
  <2>1. \A i \in DOMAIN <<A, B>> : <<A, B>>[i] \subseteq A \cup B
    BY BodyDomains
  <2> QED BY <1>2, <1>3, <1>4, <2>1 DEF StackStep
<1> QED BY <1>1, <1>5, <1>6, <1>7 DEF Waiting

\* A name for the call that a step does not take.
NoCall == [op |-> "none"]

LEMMA NoCallIsNone == NoCall.op = "none" /\ NoCall \notin Call
<1>1. NoCall.op = "none"
  BY DEF NoCall
<1>2. \A c \in Call : c.op # "none"
  BY DEF Call, AskedCall, FieldWitnessCall, CallWitnessCall, PhaseCall, FlowCall, OtherCall
<1> QED BY <1>1, <1>2

LEMMA UnchangedStack ==
    ASSUME agenda \in Seq(SUBSET Call), agenda' = agenda
    PROVE  StackStep(NoCall, 0, <<>>, {})
<1>1. DOMAIN agenda \subseteq Nat \ {0}
  BY SeqDomain
<1>2. Shifted(NoCall, 0, <<>>)
  BY <1>1 DEF Shifted
<1>3. Moves(NoCall, {})
  BY DEF Moves, Waiting
<1> QED BY <1>2, <1>3, BodyDomains DEF StackStep

\* The solvers' calls are put in front, if there are any.
LEMMA CallsStack ==
    ASSUME agenda \in Seq(SUBSET Call), NEW A \in SUBSET Call, Calls(A)
    PROVE  \E n \in {0, 1} : StackStep(NoCall, n, <<A>>, A)
<1>1. CASE A = {}
  <2>1. agenda' = agenda
    BY <1>1 DEF Calls
  <2>2. Shifted(NoCall, 0, <<>>) /\ Moves(NoCall, {}) /\ agenda' \in Seq(SUBSET Call)
    BY <2>1, UnchangedStack DEF StackStep
  <2>3. Shifted(NoCall, 0, <<A>>)
    BY <2>2 DEF Shifted
  <2> QED BY <1>1, <2>2, <2>3, BodyDomains DEF StackStep
<1>2. CASE A # {}
  <2> DEFINE body == <<A>>
  <2>1. body \in Seq(SUBSET Call) /\ Len(body) = 1
    OBVIOUS
  <2>2. agenda' = body \o agenda
    BY <1>2 DEF Calls
  <2>3. Moves(NoCall, A)
    BY <2>2, PushMoves
  <2> HIDE DEF body
  <2>4. agenda' \in Seq(SUBSET Call) /\ Stacked(NoCall, body)
    BY <2>1, <2>2, PushedStack, NoCallIsNone
  <2>5. Shifted(NoCall, 1, body)
    BY <2>1, <2>4, SeqDomain, StackedShifts
  <2>6. \A i \in DOMAIN body : body[i] \subseteq A
    BY BodyDomains DEF body
  <2> QED BY <2>3, <2>4, <2>5, <2>6 DEF StackStep, body
<1> QED BY <1>1, <1>2

LEMMA EndedLoop ==
    ASSUME agenda \in Seq(SUBSET Call), LoopEnds
    PROVE  StackStep(NoCall, -1, <<>>, {})
<1>1. /\ agenda' \in Seq(SUBSET Call)
      /\ \A i \in DOMAIN agenda' : i + 1 \in DOMAIN agenda /\ agenda'[i] = agenda[i + 1]
      /\ \A i \in DOMAIN agenda :
           agenda[i] # {} => \E k \in DOMAIN agenda' : i = k + 1
  BY EndedStack
<1>2. DOMAIN agenda \subseteq Nat \ {0} /\ DOMAIN agenda' \subseteq Nat \ {0}
  BY <1>1, SeqDomain
<1>3. ASSUME NEW i \in DOMAIN agenda'
      PROVE  \E k \in DOMAIN agenda : i = k + (-1) /\ agenda'[i] \subseteq agenda[k]
  <2>1. i = (i + 1) + (-1)
    BY <1>2
  <2> QED BY <1>1, <2>1
<1>4. ASSUME NEW k \in DOMAIN agenda, NEW d \in agenda[k]
      PROVE  k + (-1) \in DOMAIN agenda' /\ d \in agenda'[k + (-1)]
  <2>1. PICK i \in DOMAIN agenda' : k = i + 1
    BY <1>1, <1>4
  <2>2. k + (-1) = i
    BY <1>2, <2>1
  <2> QED BY <1>1, <1>4, <2>1, <2>2
<1>5. Shifted(NoCall, -1, <<>>)
  BY <1>2, <1>3, <1>4 DEF Shifted
<1>6. Moves(NoCall, {})
  BY EndMoves
<1> QED BY <1>1, <1>5, <1>6, BodyDomains DEF StackStep

(***************************************************************************)
(* The order of the calls after a step.                                    *)
(***************************************************************************)
LEMMA BetweenShifts ==
    ASSUME NEW c, NEW n, NEW body, Shifted(c, n, body),
           NEW k \in Int, NEW i \in Int, NEW b, AskedBetween(k, i, b),
           c.op # "ask" \/ k >= 1
    PROVE  AskedBetween(k + n, i + n, b)'
<1>1. PICK j \in DOMAIN agenda : k < j /\ j < i
                                 /\ \E d \in agenda[j] : d.op = "ask" /\ d.b = b
  BY DEF AskedBetween
<1>2. PICK d \in agenda[j] : d.op = "ask" /\ d.b = b
  BY <1>1
<1>3. ~(d = c /\ j = 1)
  BY <1>1, <1>2
<1>4. j + n \in DOMAIN agenda' /\ d \in agenda'[j + n]
  BY <1>3 DEF Shifted
<1>5. k + n < j + n /\ j + n < i + n
  BY <1>1 DEF Shifted
<1> QED BY <1>2, <1>4, <1>5 DEF AskedBetween

\* The old loops keep their order to each other.
LEMMA OldOrder ==
    ASSUME WatchInv, NEW c, NEW n, NEW body, Shifted(c, n, body), NEW b \in Boomerang,
           NEW i \in DOMAIN agenda, [op |-> "work", b |-> b] \in agenda[i],
           NEW k \in DOMAIN agenda, k <= i, NEW d \in agenda[k]
    PROVE  /\ d.op # "runPhase"
           /\ d.op \in {"solve", "solved"} /\ d.b = b => AskedBetween(k + n, i + n, b)'
<1>1. /\ d.op # "runPhase"
      /\ d.op \in {"solve", "solved"} /\ d.b = b => AskedBetween(k, i, b)
  BY DEF WatchInv
<1>2. k \in Int /\ i \in Int /\ k >= 1
  BY DEF Shifted
<1> QED BY <1>1, <1>2, BetweenShifts

\* A query is neither started nor ended, and its watch not touched.
LEMMA WatchStays ==
    ASSUME WatchInv, NEW c, NEW n, NEW body, Shifted(c, n, body), watch' = watch,
           \A i \in DOMAIN body : \A d \in body[i] :
             d.op \notin {"work", "solve", "solved", "runPhase"},
           c.op # "ask"
    PROVE  WatchInv'
<1> SUFFICES ASSUME NEW b \in Boomerang, NEW j \in DOMAIN agenda',
                    [op |-> "work", b |-> b] \in agenda'[j]
             PROVE  /\ watch[b] \/ AskedBetween(0, j, b)'
                    /\ \A m \in DOMAIN agenda' : m <= j =>
                         \A d \in agenda'[m] :
                           /\ d.op # "runPhase"
                           /\ d.op \in {"solve", "solved"} /\ d.b = b
                                => AskedBetween(m, j, b)'
  BY DEF WatchInv
<1>1. PICK i \in DOMAIN agenda : j = i + n /\ [op |-> "work", b |-> b] \in agenda[i]
  <2>1. ~(j \in DOMAIN body /\ agenda'[j] = body[j])
    <3>1. [op |-> "work", b |-> b].op = "work"
      OBVIOUS
    <3> QED BY <3>1
  <2> QED BY <2>1 DEF Shifted
<1>2. watch[b] \/ AskedBetween(0, j, b)'
  <2>1. watch[b] \/ AskedBetween(0, i, b)
    BY <1>1 DEF WatchInv
  <2>2. CASE AskedBetween(0, i, b)
    <3>1. AskedBetween(0 + n, i + n, b)'
      <4>1. i \in Int /\ 0 \in Int
        BY <1>1 DEF Shifted
      <4> QED BY <2>2, <4>1, BetweenShifts
    <3>2. PICK l \in DOMAIN agenda' : l < i + n
                /\ \E d \in agenda'[l] : d.op = "ask" /\ d.b = b
      BY <3>1 DEF AskedBetween
    <3>3. 0 < l
      BY <3>2 DEF Shifted
    <3> QED BY <1>1, <3>2, <3>3 DEF AskedBetween
  <2> QED BY <2>1, <2>2
<1>3. ASSUME NEW m \in DOMAIN agenda', m <= j, NEW d \in agenda'[m]
      PROVE  /\ d.op # "runPhase"
             /\ d.op \in {"solve", "solved"} /\ d.b = b => AskedBetween(m, j, b)'
  <2>1. CASE m \in DOMAIN body /\ agenda'[m] = body[m]
    BY <1>3, <2>1
  <2>2. CASE \E k \in DOMAIN agenda : m = k + n /\ agenda'[m] \subseteq agenda[k]
    <3>1. PICK k \in DOMAIN agenda : m = k + n /\ agenda'[m] \subseteq agenda[k]
      BY <2>2
    <3>2. k <= i /\ d \in agenda[k]
      BY <1>1, <1>3, <3>1 DEF Shifted
    <3> QED BY <1>1, <3>1, <3>2, OldOrder
  <2> QED BY <2>1, <2>2 DEF Shifted
<1> QED BY <1>2, <1>3

\* The call that starts the second phase stays alone, and last.
Second_ == [op |-> "runPhase", b |-> Second]

LEMMA LastStays ==
    ASSUME PhaseInv, NEW c, NEW n, NEW body, Shifted(c, n, body),
           \A i \in DOMAIN body : \A d \in body[i] : d.op # "runPhase",
           NEW k \in DOMAIN agenda', Second_ \in agenda'[k]
    PROVE  /\ agenda'[k] = {Second_}
           /\ \A i \in DOMAIN agenda' : i # k => i < k
           /\ phase # "ValueFlow" /\ strong = {}
<1>1. PICK m \in DOMAIN agenda : k = m + n /\ agenda'[k] \subseteq agenda[m]
  <2>1. ~(k \in DOMAIN body /\ agenda'[k] = body[k])
    BY DEF Second_
  <2> QED BY <2>1 DEF Shifted
<1>2. /\ agenda[m] = {Second_} /\ phase # "ValueFlow" /\ strong = {}
      /\ \A i \in DOMAIN agenda : i # m => i < m
  <2>1. Second_ \in agenda[m]
    BY <1>1
  <2> QED BY <2>1 DEF PhaseInv, Second_
<1>3. ASSUME NEW i \in DOMAIN agenda', i # k PROVE i < k
  <2>1. CASE i \in DOMAIN body /\ i <= n
    BY <1>1, <2>1 DEF Shifted
  <2>2. CASE \E l \in DOMAIN agenda : i = l + n
    <3>1. PICK l \in DOMAIN agenda : i = l + n
      BY <2>2
    <3>2. l # m /\ l < m
      BY <1>1, <1>2, <1>3, <3>1
    <3> QED BY <1>1, <3>1, <3>2 DEF Shifted
  <2> QED BY <2>1, <2>2 DEF Shifted
<1> QED BY <1>1, <1>2, <1>3

LEMMA PhaseStays ==
    ASSUME PhaseInv, NEW c, NEW n, NEW body, Shifted(c, n, body),
           \A i \in DOMAIN body : \A d \in body[i] : d.op # "runPhase",
           UNCHANGED <<phase, strong, foreign>>, found \subseteq found'
    PROVE  PhaseInv'
<1>1. \A k \in DOMAIN agenda' : Second_ \in agenda'[k] =>
        /\ agenda'[k] = {Second_}
        /\ \A i \in DOMAIN agenda' : i # k => i < k
        /\ phase # "ValueFlow" /\ strong = {}
  BY LastStays
<1>2. weakUpdates \subseteq weakUpdates'
  BY DEF weakUpdates
<1> QED BY <1>1, <1>2 DEF PhaseInv, Second_

(***************************************************************************)
(* What a step keeps when it does not touch a part of the state.           *)
(***************************************************************************)
WitnessOps == {"listenToFields", "listenToCalls", "fieldWitness", "callWitness"}

LEMMA InTime ==
    ASSUME Types, NEW c \in Innermost
    PROVE  timedoutSolver = NoTimeout
BY DEF Types, Innermost

\* The witnesses, when no call about them is made and none joins the stack.
LEMMA WitnessStays ==
    ASSUME WitnessInv, NEW c, NEW made, Moves(c, made), c.op \notin WitnessOps,
           \A d \in made : d.op \notin WitnessOps,
           UNCHANGED <<fieldTrans, callTrans, reached, asked, fieldCand, callCand, found>>,
           timedoutSolver' = timedoutSolver
    PROVE  WitnessInv'
<1>1. \A d \in Waiting : d.op \in WitnessOps => d \in Waiting'
  BY DEF Moves
<1>2. \A d \in Waiting' : d.op \in WitnessOps => d \in Waiting
  BY DEF Moves
<1>3. UNCHANGED <<subscribed, inFields, inCalls>>
  BY DEF asked
<1>4. \A i : (InFields(i) => InFields(i)') /\ (InCalls(i) => InCalls(i)')
  BY <1>1, <1>3 DEF InFields, InCalls, WitnessOps
<1>5. \A i, t : /\ KnowsField(i, t) => KnowsField(i, t)'
                /\ KnowsCall(i, t) => KnowsCall(i, t)'
  BY <1>1 DEF KnowsField, KnowsCall, FieldCall, CallCall, WitnessOps
<1>6. Heard => Heard'
  BY <1>3, <1>4, <1>5 DEF Heard, Listens
<1>7. Matched'
  BY DEF WitnessInv, Matched
<1>8. Grounded'
  <2>1. \A i, f : /\ Called(i)' <=> Called(i)
                  /\ FieldSeen(i, f)' <=> FieldSeen(i, f)
                  /\ CallSeen(i, f)' <=> CallSeen(i, f)
    BY <1>3 DEF Called, FieldSeen, CallSeen, Listens
  <2>2. Grounded
    BY DEF WitnessInv
  <2>3. \A d \in Waiting' :
         /\ d.op \in {"listenToFields", "listenToCalls", "fieldWitness", "callWitness"}
              => Called(d.i)
         /\ d.op = "fieldWitness" => d.t \in fieldTrans /\ Listens(d.i, d.t)
         /\ d.op = "callWitness" => d.t \in callTrans /\ Listens(d.i, d.t)
    BY <1>2, <2>2 DEF Grounded, WitnessOps
  <2> QED BY <1>3, <2>1, <2>2, <2>3 DEF Grounded, Listens
<1> QED BY <1>6, <1>7, <1>8 DEF WitnessInv

\* The potential strong updates, when no weight is announced or combined.
LEMMA PotentialStays ==
    ASSUME PotentialInv, NEW c, NEW made, Moves(c, made), UNCHANGED weights,
           c.op \notin {"nonOneFlow", "register", "runPhase"},
           \A d \in made : d.op # "nonOneFlow",
           timedoutSolver' = timedoutSolver
    PROVE  PotentialInv'
<1>1. UNCHANGED <<nonOneFlowNodes, listeners, potentialStrongUpdates>>
  BY DEF weights
<1>2. \A d \in Waiting : d.op \in {"nonOneFlow", "register", "runPhase"} => d \in Waiting'
  BY DEF Moves
<1>3. \A d \in Waiting' : d.op = "nonOneFlow" => d \in Waiting
  BY DEF Moves
<1>4. \A p : (Absorbed(p) => Absorbed(p)')
             /\ (Flow(First, p) \in Waiting => Flow(First, p) \in Waiting')
  BY <1>1, <1>2 DEF Absorbed, Flow
<1>5. /\ [op |-> "register", b |-> First] \in Waiting
           => [op |-> "register", b |-> First] \in Waiting'
      /\ [op |-> "runPhase", b |-> First] \in Waiting
           => [op |-> "runPhase", b |-> First] \in Waiting'
  BY <1>2
<1>6. /\ timedoutSolver' = NoTimeout =>
           \/ First \in listeners'
           \/ [op |-> "register", b |-> First] \in Waiting'
           \/ [op |-> "runPhase", b |-> First] \in Waiting'
      /\ timedoutSolver' = NoTimeout /\ First \in listeners' =>
           \A p \in nonOneFlowNodes' : Absorbed(p)' \/ Flow(First, p) \in Waiting'
  BY <1>1, <1>4, <1>5 DEF PotentialInv
<1>7. \A d \in Waiting' : d.op = "nonOneFlow" => <<d.n, d.w>> \in nonOneFlowNodes'
  BY <1>1, <1>3 DEF PotentialInv
<1>8. \A s \in Stmt : potentialStrongUpdates'[s] # NoWeight =>
         \E p \in nonOneFlowNodes' : StmtOf(p[1]) = s
  BY <1>1 DEF PotentialInv
<1> QED BY <1>6, <1>7, <1>8 DEF PotentialInv

\* All but types and witnesses, in a step of the solvers and their listeners.
LEMMA OthersStay ==
    ASSUME IdealInv, NEW c, NEW n, NEW body, NEW made, StackStep(c, n, body, made),
           c.op \notin {"nonOneFlow", "register", "runPhase", "ask"},
           \A d \in made : d.op \in WitnessOps \cup {"subscribe", "addOther"},
           UNCHANGED <<phase, timedoutSolver, watch, weights, strong, foreign>>,
           found \subseteq found'
    PROVE  PotentialInv' /\ WatchInv' /\ PhaseInv' /\ StrongOnlyIfSure'
<1>1. \A i \in DOMAIN body : \A d \in body[i] :
        d.op \notin {"work", "solve", "solved", "runPhase"}
  BY DEF StackStep, WitnessOps
<1>2. \A d \in made : d.op # "nonOneFlow"
  BY DEF WitnessOps
<1>3. PotentialInv'
  BY <1>2, PotentialStays DEF IdealInv, StackStep
<1>4. WatchInv'
  BY <1>1, WatchStays DEF IdealInv, StackStep
<1>5. PhaseInv'
  BY <1>1, PhaseStays DEF IdealInv, StackStep
<1>6. StrongOnlyIfSure'
  BY DEF IdealInv, StrongOnlyIfSure
<1> QED BY <1>3, <1>4, <1>5, <1>6

(***************************************************************************)
(* The steps.  First those that change nothing but the stack.              *)
(***************************************************************************)
LEMMA OnlyStackInv ==
    ASSUME IdealInv, NEW c, NEW n, NEW body, StackStep(c, n, body, {}),
           c.op \notin WitnessOps \cup {"nonOneFlow", "register", "runPhase", "ask"},
           UNCHANGED data, timedoutSolver = NoTimeout
    PROVE  IdealInv'
<1>1. UNCHANGED <<solvers, fieldTrans, callTrans, reached, asked, fieldCand, callCand, found,
                  phase, timedoutSolver, watch, weights, strong, foreign>>
  BY DEF data, witnesses, automata, history
<1>2. Types'
  BY <1>1 DEF IdealInv, Types, asked, weights, StackStep
<1>3. WitnessInv'
  BY <1>1, WitnessStays DEF IdealInv, StackStep
<1>4. PotentialInv' /\ WatchInv' /\ PhaseInv' /\ StrongOnlyIfSure'
  BY <1>1, OthersStay
<1> QED BY <1>2, <1>3, <1>4 DEF IdealInv

LEMMA EndLoopInv == ASSUME IdealInv, EndLoop PROVE IdealInv'
<1>1. StackStep(NoCall, -1, <<>>, {})
  BY EndedLoop DEF EndLoop, IdealInv, Types
<1>2. timedoutSolver = NoTimeout
  BY DEF EndLoop, LoopEnds, IdealInv, Types
<1> QED BY <1>1, <1>2, OnlyStackInv, NoCallIsNone DEF EndLoop, WitnessOps

LEMMA WorkDoneInv == ASSUME IdealInv, NEW c \in Innermost, WorkDone(c) PROVE IdealInv'
<1>1. StackStep(c, 0, <<>>, {})
  BY Returns DEF WorkDone, IdealInv, Types
<1>2. timedoutSolver = NoTimeout
  BY InTime DEF IdealInv
<1> QED BY <1>1, <1>2, OnlyStackInv DEF WorkDone, WitnessOps

LEMMA StutterInv == ASSUME IdealInv, UNCHANGED vars PROVE IdealInv'
<1>1. UNCHANGED <<solvers, fieldTrans, callTrans, reached, subscribed, inFields, inCalls,
                  fieldCand, callCand, found, phase, timedoutSolver, watch,
                  nonOneFlowNodes, listeners, potentialStrongUpdates, strong, foreign, agenda>>
  BY DEF vars, data, witnesses, automata, asked, weights, history
<1>2. Types'
  BY <1>1 DEF IdealInv, Types
<1>3. StackStep(NoCall, 0, <<>>, {})
  BY <1>1, UnchangedStack DEF IdealInv, Types
<1>4. WitnessInv'
  BY <1>1, <1>3, WitnessStays, NoCallIsNone DEF IdealInv, StackStep, asked, WitnessOps
<1>5. PotentialInv' /\ WatchInv' /\ PhaseInv' /\ StrongOnlyIfSure'
  BY <1>1, <1>3, OthersStay, NoCallIsNone DEF weights
<1> QED BY <1>2, <1>4, <1>5 DEF IdealInv

LEMMA TimeoutInv == ASSUME IdealInv, NEW s, Timeout(s) PROVE IdealInv'
<1>1. UNCHANGED <<solvers, fieldTrans, callTrans, reached, subscribed, inFields, inCalls,
                  fieldCand, callCand, found, phase,
                  nonOneFlowNodes, listeners, potentialStrongUpdates, strong, foreign>>
  BY DEF Timeout, data, witnesses, automata, asked, weights, history
<1>2. /\ agenda' = <<>> /\ timedoutSolver' \in {First, Second}
      /\ watch' \in [Boomerang -> BOOLEAN]
  BY DEF Timeout, IdealInv, Types
<1>3. timedoutSolver' # NoTimeout
  BY <1>2 DEF First, Second, NoTimeout
<1>4. DOMAIN agenda' = {} /\ Waiting' = {} /\ agenda' \in Seq(SUBSET Call)
  BY <1>2 DEF Waiting
<1>5. Types'
  BY <1>1, <1>2, <1>4 DEF IdealInv, Types
<1>6. WitnessInv'
  <2>1. Matched' /\ Grounded'
    BY <1>1, <1>4 DEF IdealInv, WitnessInv, Matched, Grounded, Called, FieldSeen, CallSeen,
                      Listens
  <2> QED BY <1>3, <2>1 DEF WitnessInv
<1>7. PotentialInv'
  BY <1>1, <1>3, <1>4 DEF IdealInv, PotentialInv
<1>8. WatchInv'
  BY <1>4 DEF WatchInv
<1>9. PhaseInv' /\ StrongOnlyIfSure'
  BY <1>1, <1>4 DEF IdealInv, PhaseInv, StrongOnlyIfSure, weakUpdates
<1> QED BY <1>5, <1>6, <1>7, <1>8, <1>9 DEF IdealInv

(***************************************************************************)
(* The solvers add transitions and nodes; the listeners of                 *)
(* synchedReachable are called.                                            *)
(***************************************************************************)
LEMMA CallFields ==
    ASSUME NEW i, NEW t
    PROVE  /\ FieldCall(i, t).op = "fieldWitness" /\ FieldCall(i, t).i = i
           /\ FieldCall(i, t).t = t
           /\ CallCall(i, t).op = "callWitness" /\ CallCall(i, t).i = i
           /\ CallCall(i, t).t = t
BY DEF FieldCall, CallCall

LEMMA CallTypes ==
    ASSUME NEW i \in Witnessing
    PROVE  /\ \A t \in FieldEvents : FieldCall(i, t) \in Call
           /\ \A t \in CallEvents : CallCall(i, t) \in Call
           /\ [op |-> "listenToFields", i |-> i] \in Call
           /\ [op |-> "listenToCalls", i |-> i] \in Call
           /\ [op |-> "subscribe", i |-> i] \in Call
BY DEF Call, AskedCall, FieldWitnessCall, CallWitnessCall, FieldCall, CallCall

LEMMA CallArguments ==
    ASSUME NEW c \in Call
    PROVE  /\ c.op \in {"subscribe", "listenToFields", "listenToCalls"}
                => c.i \in Witnessing /\ c = [op |-> c.op, i |-> c.i]
           /\ c.op = "fieldWitness"
                => c.i \in Witnessing /\ c.t \in FieldEvents /\ c = FieldCall(c.i, c.t)
           /\ c.op = "callWitness"
                => c.i \in Witnessing /\ c.t \in CallEvents /\ c = CallCall(c.i, c.t)
BY DEF Call, AskedCall, FieldWitnessCall, CallWitnessCall, PhaseCall, FlowCall, OtherCall,
       FieldCall, CallCall

\* What is known, seen or asked for stays so while the automata grow.
LEMMA Grows ==
    ASSUME NEW c, NEW made, Moves(c, made),
           fieldTrans \subseteq fieldTrans', callTrans \subseteq callTrans',
           reached \subseteq reached', subscribed \subseteq subscribed',
           inFields \subseteq inFields', inCalls \subseteq inCalls',
           fieldCand \subseteq fieldCand', callCand \subseteq callCand'
    PROVE  /\ \A i : Called(i) => Called(i)'
           /\ \A i : InFields(i) /\ c # [op |-> "listenToFields", i |-> i] => InFields(i)'
           /\ \A i : InCalls(i) /\ c # [op |-> "listenToCalls", i |-> i] => InCalls(i)'
           /\ \A i, t : KnowsField(i, t) /\ c # FieldCall(i, t) => KnowsField(i, t)'
           /\ \A i, t : KnowsCall(i, t) /\ c # CallCall(i, t) => KnowsCall(i, t)'
           /\ \A i, f : FieldSeen(i, f) => FieldSeen(i, f)'
           /\ \A i, f : CallSeen(i, f) => CallSeen(i, f)'
<1>1. \A i : Called(i) => Called(i)'
  BY DEF Called
<1>2. \A i : InFields(i) /\ c # [op |-> "listenToFields", i |-> i] => InFields(i)'
  BY DEF InFields, Moves
<1>3. \A i : InCalls(i) /\ c # [op |-> "listenToCalls", i |-> i] => InCalls(i)'
  BY DEF InCalls, Moves
<1>4. \A i, t : KnowsField(i, t) /\ c # FieldCall(i, t) => KnowsField(i, t)'
  BY DEF KnowsField, Moves, FieldCall
<1>5. \A i, t : KnowsCall(i, t) /\ c # CallCall(i, t) => KnowsCall(i, t)'
  BY DEF KnowsCall, Moves, CallCall
<1>6. \A i, f : FieldSeen(i, f) => FieldSeen(i, f)'
  BY DEF FieldSeen, Listens
<1>7. \A i, f : CallSeen(i, f) => CallSeen(i, f)'
  BY DEF CallSeen, Listens
<1> QED BY <1>1, <1>2, <1>3, <1>4, <1>5, <1>6, <1>7

\* A call on the stack has its reasons.
CallGrounded(d) ==
    /\ d.op \in WitnessOps => Called(d.i)
    /\ d.op = "fieldWitness" => d.t \in fieldTrans /\ Listens(d.i, d.t)
    /\ d.op = "callWitness" => d.t \in callTrans /\ Listens(d.i, d.t)

LEMMA CallsGrounded ==
    ASSUME Grounded, NEW c, NEW made, Moves(c, made),
           fieldTrans \subseteq fieldTrans', callTrans \subseteq callTrans',
           reached \subseteq reached', subscribed \subseteq subscribed',
           \A d \in made : CallGrounded(d)'
    PROVE  \A d \in Waiting' : CallGrounded(d)'
<1>1. \A d \in Waiting : CallGrounded(d)
  BY DEF Grounded, CallGrounded, WitnessOps
<1>2. \A d \in Waiting : CallGrounded(d)'
  BY <1>1 DEF CallGrounded, Called, Listens
<1> QED BY <1>2 DEF Moves

\* A step of a solver: no listener has been called yet.
LEMMA SolverStep ==
    ASSUME IdealInv, NEW n, NEW body, NEW made, StackStep(NoCall, n, body, made),
           solvers' \subseteq Solver,
           fieldTrans \subseteq fieldTrans', fieldTrans' \subseteq FieldEvents,
           callTrans \subseteq callTrans', callTrans' \subseteq CallEvents,
           reached \subseteq reached',
           UNCHANGED <<asked, fieldCand, callCand, found,
                       phase, timedoutSolver, watch, weights, history>>,
           \A d \in made : d.op \in WitnessOps /\ CallGrounded(d)',
           timedoutSolver = NoTimeout,
           \A i \in subscribed : <<i.solver, i.n>> \in reached' \ reached =>
             [op |-> "listenToFields", i |-> i] \in made,
           \A i \in inFields, t \in fieldTrans' \ fieldTrans :
             Listens(i, t) => FieldCall(i, t) \in made,
           \A i \in inCalls, t \in callTrans' \ callTrans :
             Listens(i, t) => CallCall(i, t) \in made
    PROVE  IdealInv'
<1>1. UNCHANGED <<subscribed, inFields, inCalls, strong, foreign>>
  BY DEF asked, history
<1>2. Moves(NoCall, made) /\ made \subseteq Waiting'
  BY DEF StackStep, Moves
<1>3. Types'
  BY <1>1 DEF IdealInv, Types, weights, StackStep
<1>4. PotentialInv' /\ WatchInv' /\ PhaseInv' /\ StrongOnlyIfSure'
  BY <1>1, OthersStay, NoCallIsNone, Zenon DEF WitnessOps
<1>5. /\ \A i : NoCall # [op |-> "listenToFields", i |-> i]
      /\ \A i : NoCall # [op |-> "listenToCalls", i |-> i]
      /\ \A i, t : NoCall # FieldCall(i, t) /\ NoCall # CallCall(i, t)
  BY NoCallIsNone DEF FieldCall, CallCall
<1>6. /\ \A i : Called(i) => Called(i)'
      /\ \A i : InFields(i) => InFields(i)'
      /\ \A i : InCalls(i) => InCalls(i)'
      /\ \A i, t : KnowsField(i, t) => KnowsField(i, t)'
      /\ \A i, t : KnowsCall(i, t) => KnowsCall(i, t)'
      /\ \A i, f : FieldSeen(i, f) => FieldSeen(i, f)'
      /\ \A i, f : CallSeen(i, f) => CallSeen(i, f)'
  BY <1>1, <1>2, <1>5, Grows
<1>7. Heard /\ Matched /\ Grounded
  BY DEF IdealInv, WitnessInv
<1>8. Heard'
  <2>1. \A i \in subscribed' : <<i.solver, i.n>> \in reached' => InFields(i)'
    <3>1. ASSUME NEW i \in subscribed, <<i.solver, i.n>> \in reached' \ reached
          PROVE  InFields(i)'
      BY <1>2, <3>1 DEF InFields
    <3>2. \A i \in subscribed : <<i.solver, i.n>> \in reached => InFields(i)'
      BY <1>6, <1>7 DEF Heard
    <3> QED BY <1>1, <3>1, <3>2
  <2>2. \A i \in inFields' : InCalls(i)'
    BY <1>1, <1>6, <1>7 DEF Heard
  <2>3. \A i \in inFields', t \in fieldTrans' : Listens(i, t) => KnowsField(i, t)'
    <3>1. ASSUME NEW i \in inFields, NEW t \in fieldTrans' \ fieldTrans, Listens(i, t)
          PROVE  KnowsField(i, t)'
      BY <1>2, <3>1 DEF KnowsField, FieldCall
    <3>2. \A i \in inFields, t \in fieldTrans : Listens(i, t) => KnowsField(i, t)'
      BY <1>6, <1>7 DEF Heard
    <3> QED BY <1>1, <3>1, <3>2
  <2>4. \A i \in inCalls', t \in callTrans' : Listens(i, t) => KnowsCall(i, t)'
    <3>1. ASSUME NEW i \in inCalls, NEW t \in callTrans' \ callTrans, Listens(i, t)
          PROVE  KnowsCall(i, t)'
      BY <1>2, <3>1 DEF KnowsCall, CallCall
    <3>2. \A i \in inCalls, t \in callTrans : Listens(i, t) => KnowsCall(i, t)'
      BY <1>6, <1>7 DEF Heard
    <3> QED BY <1>1, <3>1, <3>2
  <2> QED BY <2>1, <2>2, <2>3, <2>4 DEF Heard, Listens
<1>9. Matched'
  BY <1>1, <1>7 DEF Matched
<1>10. Grounded'
  <2>1. \A d \in Waiting' : CallGrounded(d)'
    BY <1>1, <1>2, <1>7, CallsGrounded
  <2>2. \A i \in inFields' \cup inCalls' : Called(i)'
    BY <1>1, <1>6, <1>7 DEF Grounded
  <2>3. /\ \A p \in fieldCand' : Called(p[1])' /\ FieldSeen(p[1], FactOf(p[2]))'
        /\ \A p \in callCand' : Called(p[1])' /\ CallSeen(p[1], p[2])'
        /\ \A i \in found' : Called(i)' /\ \E f \in Fact : FieldSeen(i, f)' /\ CallSeen(i, f)'
    BY <1>1, <1>6, <1>7 DEF Grounded
  <2> QED BY <2>1, <2>2, <2>3 DEF Grounded, CallGrounded, WitnessOps
<1> QED BY <1>3, <1>4, <1>8, <1>9, <1>10 DEF IdealInv, WitnessInv

LEMMA WorkingInTime ==
    ASSUME IdealInv, NEW b, Working(b)
    PROVE  timedoutSolver = NoTimeout /\ agenda \in Seq(SUBSET Call)
BY InTime DEF Working, IdealInv, Types

LEMMA ForwardSolveInv ==
    ASSUME IdealInv, NEW b \in Boomerang, NEW q \in ForwardQuery, ForwardSolve(b, q)
    PROVE  IdealInv'
<1>1. StackStep(NoCall, 0, <<>>, {}) /\ timedoutSolver = NoTimeout
  BY UnchangedStack, WorkingInTime DEF ForwardSolve
<1>2. UNCHANGED <<fieldTrans, callTrans, reached, asked, fieldCand, callCand, found,
                  phase, timedoutSolver, watch, weights, history>>
  BY DEF ForwardSolve
<1>3. solvers' \subseteq Solver
  BY DEF ForwardSolve, IdealInv, Types, Solver
<1>4. fieldTrans \subseteq FieldEvents /\ callTrans \subseteq CallEvents
  BY DEF IdealInv, Types
<1>5. \A d \in {} : d.op \in WitnessOps /\ CallGrounded(d)'
  OBVIOUS
<1> QED BY <1>1, <1>2, <1>3, <1>4, <1>5, SolverStep

LEMMA AddFieldInv ==
    ASSUME IdealInv, NEW t, AddField(t), timedoutSolver = NoTimeout,
           UNCHANGED <<phase, timedoutSolver, watch, weights, history>>
    PROVE  IdealInv'
<1> DEFINE made == {FieldCall(i, t) : i \in {j \in inFields : Listens(j, t)}}
<1>1. /\ t \in FieldEvents /\ fieldTrans' = fieldTrans \cup {t} /\ Calls(made)
      /\ UNCHANGED <<solvers, callTrans, reached, asked, fieldCand, callCand, found>>
  BY DEF AddField
<1>2. /\ solvers \subseteq Solver /\ fieldTrans \subseteq FieldEvents
      /\ callTrans \subseteq CallEvents /\ inFields \subseteq Witnessing
      /\ agenda \in Seq(SUBSET Call)
  BY DEF IdealInv, Types
<1>3. made \in SUBSET Call
  BY <1>1, <1>2, CallTypes
<1>4. \A d \in made : d.op \in WitnessOps /\ CallGrounded(d)'
  <2>1. ASSUME NEW i \in inFields, Listens(i, t)
        PROVE  FieldCall(i, t).op \in WitnessOps /\ CallGrounded(FieldCall(i, t))'
    <3>1. Called(i)
      BY DEF IdealInv, WitnessInv, Grounded
    <3>2. Called(i)'
      BY <1>1, <3>1 DEF Called, asked
    <3> QED BY <1>1, <2>1, <3>2, CallFields DEF CallGrounded, WitnessOps, Listens, FieldCall
  <2> QED BY <2>1
<1>5. \A i \in inFields, u \in fieldTrans' \ fieldTrans : Listens(i, u) => FieldCall(i, u) \in made
  BY <1>1
<1> HIDE DEF made
<1>6. PICK n \in {0, 1} : StackStep(NoCall, n, <<made>>, made)
  BY <1>1, <1>2, <1>3, CallsStack
<1> QED BY <1>1, <1>2, <1>4, <1>5, <1>6, SolverStep

LEMMA AddCallInv ==
    ASSUME IdealInv, NEW t, AddCall(t), timedoutSolver = NoTimeout,
           UNCHANGED <<phase, timedoutSolver, watch, weights, history>>
    PROVE  IdealInv'
<1> DEFINE made == {CallCall(i, t) : i \in {j \in inCalls : Listens(j, t)}}
<1>1. /\ t \in CallEvents /\ callTrans' = callTrans \cup {t} /\ Calls(made)
      /\ UNCHANGED <<solvers, fieldTrans, reached, asked, fieldCand, callCand, found>>
  BY DEF AddCall
<1>2. /\ solvers \subseteq Solver /\ fieldTrans \subseteq FieldEvents
      /\ callTrans \subseteq CallEvents /\ inCalls \subseteq Witnessing
      /\ agenda \in Seq(SUBSET Call)
  BY DEF IdealInv, Types
<1>3. made \in SUBSET Call
  BY <1>1, <1>2, CallTypes
<1>4. \A d \in made : d.op \in WitnessOps /\ CallGrounded(d)'
  <2>1. ASSUME NEW i \in inCalls, Listens(i, t)
        PROVE  CallCall(i, t).op \in WitnessOps /\ CallGrounded(CallCall(i, t))'
    <3>1. Called(i)
      BY DEF IdealInv, WitnessInv, Grounded
    <3>2. Called(i)'
      BY <1>1, <3>1 DEF Called, asked
    <3> QED BY <1>1, <2>1, <3>2, CallFields DEF CallGrounded, WitnessOps, Listens, CallCall
  <2> QED BY <2>1
<1>5. \A i \in inCalls, u \in callTrans' \ callTrans : Listens(i, u) => CallCall(i, u) \in made
  BY <1>1
<1> HIDE DEF made
<1>6. PICK n \in {0, 1} : StackStep(NoCall, n, <<made>>, made)
  BY <1>1, <1>2, <1>3, CallsStack
<1> QED BY <1>1, <1>2, <1>4, <1>5, <1>6, SolverStep

LEMMA AddTransitionInv == ASSUME IdealInv, NEW t, AddTransition(t) PROVE IdealInv'
<1>1. timedoutSolver = NoTimeout
  BY WorkingInTime DEF AddTransition
<1> QED BY <1>1, AddFieldInv, AddCallInv DEF AddTransition

LEMMA ReachNodeInv ==
    ASSUME IdealInv, NEW s \in solvers, NEW m \in Node, ReachNode(s, m)
    PROVE  IdealInv'
<1> DEFINE made == {[op |-> "listenToFields", i |-> i] :
                      i \in {j \in subscribed : j.solver = s /\ j.n = m}}
<1>1. /\ reached' = reached \cup {<<s, m>>} /\ Calls(made)
      /\ UNCHANGED <<solvers, fieldTrans, callTrans, asked, fieldCand, callCand, found>>
      /\ UNCHANGED <<phase, timedoutSolver, watch, weights, history>>
  BY DEF ReachNode, AddReachableState
<1>2. /\ solvers \subseteq Solver /\ fieldTrans \subseteq FieldEvents
      /\ callTrans \subseteq CallEvents /\ subscribed \subseteq Witnessing
      /\ agenda \in Seq(SUBSET Call) /\ timedoutSolver = NoTimeout
  BY WorkingInTime DEF IdealInv, Types, ReachNode
<1>3. made \in SUBSET Call
  BY <1>2, CallTypes
<1>4. \A d \in made : d.op \in WitnessOps /\ CallGrounded(d)'
  <2>1. ASSUME NEW i \in subscribed, i.solver = s, i.n = m
        PROVE  Called(i)'
    BY <1>1, <2>1 DEF Called, asked
  <2> QED BY <2>1 DEF CallGrounded, WitnessOps
<1>5. \A i \in subscribed : <<i.solver, i.n>> \in reached' \ reached =>
        [op |-> "listenToFields", i |-> i] \in made
  BY <1>1
<1> HIDE DEF made
<1>6. PICK n \in {0, 1} : StackStep(NoCall, n, <<made>>, made)
  BY <1>1, <1>2, <1>3, CallsStack
<1> QED BY <1>1, <1>2, <1>4, <1>5, <1>6, SolverStep

\* A listener is called, or one subscribes: what else there is to show.
LEMMA ListenerStep ==
    ASSUME IdealInv, NEW c, NEW n, NEW body, NEW made, StackStep(c, n, body, made),
           c.op \in WitnessOps \cup {"subscribe"},
           \A d \in made : d.op \in WitnessOps,
           UNCHANGED <<automata, phase, timedoutSolver, watch, weights, history>>,
           timedoutSolver = NoTimeout, found \subseteq found',
           subscribed' \subseteq Witnessing, inFields' \subseteq Witnessing,
           inCalls' \subseteq Witnessing, fieldCand' \subseteq Witnessing \X Target,
           callCand' \subseteq Witnessing \X Fact,
           Heard', Matched', Grounded'
    PROVE  IdealInv'
<1>1. Types'
  BY DEF IdealInv, Types, weights, StackStep, automata
<1>2. UNCHANGED <<strong, foreign>> /\ c.op \notin {"nonOneFlow", "register", "runPhase", "ask"}
  BY DEF history, WitnessOps
<1>3. PotentialInv' /\ WatchInv' /\ PhaseInv' /\ StrongOnlyIfSure'
  <2>1. \A d \in made : d.op \in WitnessOps \cup {"subscribe", "addOther"}
    OBVIOUS
  <2> QED BY <1>2, <2>1, OthersStay
<1> QED BY <1>1, <1>3 DEF IdealInv, WitnessInv

LEMMA SynchedReachableInv ==
    ASSUME IdealInv, NEW c \in Innermost, SynchedReachable(c),
           UNCHANGED <<phase, timedoutSolver, watch, weights, history>>
    PROVE  IdealInv'
<1> DEFINE told == [op |-> "listenToFields", i |-> c.i]
           one == {told}
<1>1. /\ c.op = "subscribe" /\ subscribed' = subscribed \cup {c.i}
      /\ UNCHANGED <<automata, inFields, inCalls, fieldCand, callCand, found>>
      /\ UNCHANGED <<fieldTrans, callTrans, reached>>
      /\ agenda \in Seq(SUBSET Call) /\ timedoutSolver = NoTimeout
  BY InTime DEF SynchedReachable, IdealInv, Types, automata
<1>2. c \in Call
  BY <1>1, Returns
<1>3. c.i \in Witnessing /\ one \in SUBSET Call
  BY <1>1, <1>2, CallArguments, CallTypes
<1>4. \E n, body, made :
        /\ StackStep(c, n, body, made) /\ made \subseteq one
        /\ <<c.i.solver, c.i.n>> \in reached <=> made = one
  <2>1. CASE <<c.i.solver, c.i.n>> \in reached
    <3>1. Return(c, <<one>>)
      BY <2>1 DEF SynchedReachable
    <3> HIDE DEF one
    <3>2. StackStep(c, 1, <<one>>, one)
      BY <1>1, <1>3, <3>1, Returns
    <3> QED BY <2>1, <3>2
  <2>2. CASE <<c.i.solver, c.i.n>> \notin reached
    <3>1. Return(c, <<>>)
      BY <2>2 DEF SynchedReachable
    <3>2. StackStep(c, 0, <<>>, {})
      BY <1>1, <3>1, Returns
    <3>3. {} \subseteq one /\ {} # one
      OBVIOUS
    <3> HIDE DEF one
    <3> QED BY <2>2, <3>2, <3>3
  <2> QED BY <2>1, <2>2
<1>5. PICK n, body, made :
        /\ StackStep(c, n, body, made) /\ made \subseteq one
        /\ <<c.i.solver, c.i.n>> \in reached <=> made = one
  BY <1>4
<1>6. Moves(c, made) /\ made \subseteq Waiting'
  BY <1>5 DEF StackStep, Moves
<1>7. Heard /\ Matched /\ Grounded
  BY <1>1 DEF IdealInv, WitnessInv
<1>8. /\ \A i : Called(i) => Called(i)'
      /\ \A i : InFields(i) => InFields(i)'
      /\ \A i : InCalls(i) => InCalls(i)'
      /\ \A i, t : KnowsField(i, t) => KnowsField(i, t)'
      /\ \A i, t : KnowsCall(i, t) => KnowsCall(i, t)'
      /\ \A i, f : FieldSeen(i, f) => FieldSeen(i, f)'
      /\ \A i, f : CallSeen(i, f) => CallSeen(i, f)'
  <2>1. /\ \A i : c # [op |-> "listenToFields", i |-> i]
        /\ \A i : c # [op |-> "listenToCalls", i |-> i]
        /\ \A i, t : c # FieldCall(i, t) /\ c # CallCall(i, t)
    BY <1>1, CallFields
  <2> QED BY <1>1, <1>6, <2>1, Grows
<1>9. Heard'
  <2>1. \A i \in subscribed' : <<i.solver, i.n>> \in reached' => InFields(i)'
    <3>1. <<c.i.solver, c.i.n>> \in reached => InFields(c.i)'
      BY <1>5, <1>6 DEF InFields
    <3> QED BY <1>1, <1>7, <1>8, <3>1 DEF Heard
  <2> QED BY <1>1, <1>7, <1>8, <2>1 DEF Heard, Listens
<1>10. Matched'
  BY <1>1, <1>7 DEF Matched
<1>11. Grounded'
  <2>1. \A d \in made : CallGrounded(d)'
    <3>1. <<c.i.solver, c.i.n>> \in reached => CallGrounded(told)'
      BY <1>1 DEF CallGrounded, Called
    <3> QED BY <1>5, <3>1
  <2>2. \A d \in Waiting' : CallGrounded(d)'
    BY <1>1, <1>6, <1>7, <2>1, CallsGrounded
  <2> QED BY <1>1, <1>7, <1>8, <2>2 DEF Grounded, CallGrounded, WitnessOps
<1>12. \A d \in made : d.op \in WitnessOps
  BY <1>5 DEF WitnessOps
<1>13. /\ subscribed' \subseteq Witnessing /\ inFields' \subseteq Witnessing
       /\ inCalls' \subseteq Witnessing /\ fieldCand' \subseteq Witnessing \X Target
       /\ callCand' \subseteq Witnessing \X Fact
  BY <1>1, <1>3 DEF IdealInv, Types
<1> HIDE DEF told, one
<1> QED BY <1>1, <1>5, <1>9, <1>10, <1>11, <1>12, <1>13, ListenerStep

LEMMA ListenToFieldsInv ==
    ASSUME IdealInv, NEW c \in Innermost, ListenToFields(c),
           UNCHANGED <<phase, timedoutSolver, watch, weights, history>>
    PROVE  IdealInv'
<1> DEFINE A == {FieldCall(c.i, t) : t \in {u \in fieldTrans : Listens(c.i, u)}}
           B == {[op |-> "listenToCalls", i |-> c.i]}
           made == A \cup B
<1>1. /\ c.op = "listenToFields" /\ inFields' = inFields \cup {c.i} /\ Return(c, <<A, B>>)
      /\ UNCHANGED <<automata, subscribed, inCalls, fieldCand, callCand, found>>
      /\ UNCHANGED <<fieldTrans, callTrans, reached>>
      /\ agenda \in Seq(SUBSET Call) /\ timedoutSolver = NoTimeout
      /\ fieldTrans \subseteq FieldEvents
  BY InTime DEF ListenToFields, IdealInv, Types, automata
<1>2. c \in Call /\ c \in Waiting
  BY <1>1, Returns
<1>3. c.i \in Witnessing /\ c = [op |-> "listenToFields", i |-> c.i]
  BY <1>1, <1>2, CallArguments
<1>4. A \in SUBSET Call /\ B \in SUBSET Call
  BY <1>1, <1>3, CallTypes
<1>5. /\ \A t \in fieldTrans : Listens(c.i, t) => FieldCall(c.i, t) \in made
      /\ [op |-> "listenToCalls", i |-> c.i] \in made
      /\ \A d \in made : \/ d = [op |-> "listenToCalls", i |-> c.i]
                         \/ \E t \in fieldTrans : Listens(c.i, t) /\ d = FieldCall(c.i, t)
  OBVIOUS
<1> HIDE DEF A, B
<1>6. StackStep(c, 2, <<A, B>>, made)
  BY <1>1, <1>4, Returns
<1> HIDE DEF made
<1>7. Moves(c, made) /\ made \subseteq Waiting'
  BY <1>6 DEF StackStep, Moves
<1>8. Heard /\ Matched /\ Grounded
  BY <1>1 DEF IdealInv, WitnessInv
<1>9. /\ \A i : Called(i) => Called(i)'
      /\ \A i : InFields(i) => InFields(i)'
      /\ \A i : InCalls(i) => InCalls(i)'
      /\ \A i, t : KnowsField(i, t) => KnowsField(i, t)'
      /\ \A i, t : KnowsCall(i, t) => KnowsCall(i, t)'
      /\ \A i, f : FieldSeen(i, f) => FieldSeen(i, f)'
      /\ \A i, f : CallSeen(i, f) => CallSeen(i, f)'
  <2>1. /\ \A i : c = [op |-> "listenToFields", i |-> i] => i \in inFields'
        /\ \A i : c # [op |-> "listenToCalls", i |-> i]
        /\ \A i, t : c # FieldCall(i, t) /\ c # CallCall(i, t)
    BY <1>1, CallFields
  <2>2. \A i : i \in inFields' => InFields(i)'
    BY DEF InFields
  <2> QED BY <1>1, <1>7, <2>1, <2>2, Grows
<1>10. Heard'
  <2>1. InCalls(c.i)'
    BY <1>5, <1>7 DEF InCalls
  <2>2. \A t \in fieldTrans : Listens(c.i, t) => KnowsField(c.i, t)'
    BY <1>5, <1>7 DEF KnowsField, FieldCall
  <2>3. \A i \in inFields' : InCalls(i)'
    BY <1>1, <1>8, <1>9, <2>1 DEF Heard
  <2>4. \A i \in inFields', t \in fieldTrans' : Listens(i, t) => KnowsField(i, t)'
    BY <1>1, <1>8, <1>9, <2>2 DEF Heard
  <2> QED BY <1>1, <1>8, <1>9, <2>3, <2>4 DEF Heard, Listens
<1>11. Matched'
  BY <1>1, <1>8 DEF Matched
<1>12. Called(c.i) /\ Called(c.i)'
  BY <1>1, <1>2, <1>8, <1>9 DEF Grounded
<1>13. Grounded'
  <2>1. \A d \in made : CallGrounded(d)'
    <3>1. CallGrounded([op |-> "listenToCalls", i |-> c.i])'
      BY <1>12 DEF CallGrounded
    <3>2. \A t \in fieldTrans : Listens(c.i, t) => CallGrounded(FieldCall(c.i, t))'
      BY <1>1, <1>12, CallFields DEF CallGrounded, Listens, FieldCall
    <3> QED BY <1>5, <3>1, <3>2
  <2>2. \A d \in Waiting' : CallGrounded(d)'
    BY <1>1, <1>7, <1>8, <2>1, CallsGrounded
  <2> QED BY <1>1, <1>8, <1>9, <1>12, <2>2 DEF Grounded, CallGrounded, WitnessOps
<1>14. \A d \in made : d.op \in WitnessOps
  BY <1>5, CallFields DEF WitnessOps
<1>15. /\ subscribed' \subseteq Witnessing /\ inFields' \subseteq Witnessing
       /\ inCalls' \subseteq Witnessing /\ fieldCand' \subseteq Witnessing \X Target
       /\ callCand' \subseteq Witnessing \X Fact /\ c.op \in WitnessOps
  BY <1>1, <1>3 DEF IdealInv, Types, WitnessOps
<1> QED BY <1>1, <1>6, <1>10, <1>11, <1>13, <1>14, <1>15, ListenerStep

LEMMA ListenToCallsInv ==
    ASSUME IdealInv, NEW c \in Innermost, ListenToCalls(c),
           UNCHANGED <<phase, timedoutSolver, watch, weights, history>>
    PROVE  IdealInv'
<1> DEFINE A == {CallCall(c.i, t) : t \in {u \in callTrans : Listens(c.i, u)}}
<1>1. /\ c.op = "listenToCalls" /\ inCalls' = inCalls \cup {c.i} /\ Return(c, <<A>>)
      /\ UNCHANGED <<automata, subscribed, inFields, fieldCand, callCand, found>>
      /\ UNCHANGED <<fieldTrans, callTrans, reached>>
      /\ agenda \in Seq(SUBSET Call) /\ timedoutSolver = NoTimeout
      /\ callTrans \subseteq CallEvents
  BY InTime DEF ListenToCalls, IdealInv, Types, automata
<1>2. c \in Call /\ c \in Waiting
  BY <1>1, Returns
<1>3. c.i \in Witnessing
  BY <1>1, <1>2, CallArguments
<1>4. A \in SUBSET Call
  BY <1>1, <1>3, CallTypes
<1>5. /\ \A t \in callTrans : Listens(c.i, t) => CallCall(c.i, t) \in A
      /\ \A d \in A : \E t \in callTrans : Listens(c.i, t) /\ d = CallCall(c.i, t)
  OBVIOUS
<1> HIDE DEF A
<1>6. StackStep(c, 1, <<A>>, A)
  BY <1>1, <1>4, Returns
<1>7. Moves(c, A) /\ A \subseteq Waiting'
  BY <1>6 DEF StackStep, Moves
<1>8. Heard /\ Matched /\ Grounded
  BY <1>1 DEF IdealInv, WitnessInv
<1>9. /\ \A i : Called(i) => Called(i)'
      /\ \A i : InFields(i) => InFields(i)'
      /\ \A i : InCalls(i) => InCalls(i)'
      /\ \A i, t : KnowsField(i, t) => KnowsField(i, t)'
      /\ \A i, t : KnowsCall(i, t) => KnowsCall(i, t)'
      /\ \A i, f : FieldSeen(i, f) => FieldSeen(i, f)'
      /\ \A i, f : CallSeen(i, f) => CallSeen(i, f)'
  <2>1. /\ \A i : c = [op |-> "listenToCalls", i |-> i] => i \in inCalls'
        /\ \A i : c # [op |-> "listenToFields", i |-> i]
        /\ \A i, t : c # FieldCall(i, t) /\ c # CallCall(i, t)
    BY <1>1, CallFields
  <2>2. \A i : i \in inCalls' => InCalls(i)'
    BY DEF InCalls
  <2> QED BY <1>1, <1>7, <2>1, <2>2, Grows
<1>10. Heard'
  <2>1. \A t \in callTrans : Listens(c.i, t) => KnowsCall(c.i, t)'
    BY <1>5, <1>7 DEF KnowsCall, CallCall
  <2>2. \A i \in inCalls', t \in callTrans' : Listens(i, t) => KnowsCall(i, t)'
    BY <1>1, <1>8, <1>9, <2>1 DEF Heard
  <2> QED BY <1>1, <1>8, <1>9, <2>2 DEF Heard, Listens
<1>11. Matched'
  BY <1>1, <1>8 DEF Matched
<1>12. Called(c.i) /\ Called(c.i)'
  BY <1>1, <1>2, <1>8, <1>9 DEF Grounded
<1>13. Grounded'
  <2>1. \A d \in A : CallGrounded(d)'
    <3>1. \A t \in callTrans : Listens(c.i, t) => CallGrounded(CallCall(c.i, t))'
      BY <1>1, <1>12, CallFields DEF CallGrounded, Listens, CallCall
    <3> QED BY <1>5, <3>1
  <2>2. \A d \in Waiting' : CallGrounded(d)'
    BY <1>1, <1>7, <1>8, <2>1, CallsGrounded
  <2> QED BY <1>1, <1>8, <1>9, <1>12, <2>2 DEF Grounded, CallGrounded, WitnessOps
<1>14. \A d \in A : d.op \in WitnessOps
  BY <1>5, CallFields DEF WitnessOps
<1>15. /\ subscribed' \subseteq Witnessing /\ inFields' \subseteq Witnessing
       /\ inCalls' \subseteq Witnessing /\ fieldCand' \subseteq Witnessing \X Target
       /\ callCand' \subseteq Witnessing \X Fact /\ c.op \in WitnessOps
  BY <1>1, <1>3 DEF IdealInv, Types, WitnessOps
<1> QED BY <1>1, <1>6, <1>10, <1>11, <1>13, <1>14, <1>15, ListenerStep

\* What a call about a transition changes: candidates, and witnesses that both
\* automata give a reason for.
LEMMA CandidateStep ==
    ASSUME IdealInv, NEW c \in Innermost, c.op \in {"fieldWitness", "callWitness"},
           Return(c, <<>>),
           UNCHANGED <<automata, asked, phase, timedoutSolver, watch, weights, history>>,
           fieldCand \subseteq fieldCand', callCand \subseteq callCand',
           found \subseteq found',
           fieldCand' \subseteq Witnessing \X Target, callCand' \subseteq Witnessing \X Fact,
           c.op = "fieldWitness" => KnowsField(c.i, c.t)',
           c.op = "callWitness" => KnowsCall(c.i, c.t)',
           \A p \in fieldCand' \ fieldCand : Called(p[1]) /\ FieldSeen(p[1], FactOf(p[2])),
           \A p \in callCand' \ callCand : Called(p[1]) /\ CallSeen(p[1], p[2]),
           \A i \in found' \ found :
             Called(i) /\ \E f \in Fact : FieldSeen(i, f) /\ CallSeen(i, f),
           Matched'
    PROVE  IdealInv'
<1>1. /\ UNCHANGED <<solvers, fieldTrans, callTrans, reached, subscribed, inFields, inCalls>>
      /\ agenda \in Seq(SUBSET Call) /\ timedoutSolver = NoTimeout
  BY InTime DEF IdealInv, Types, automata, asked
<1>2. c \in Call /\ StackStep(c, 0, <<>>, {})
  <2>1. {} \in SUBSET Call
    OBVIOUS
  <2> QED BY <1>1, <2>1, Returns
<1>3. Moves(c, {})
  BY <1>2 DEF StackStep
<1>4. Heard /\ Matched /\ Grounded
  BY <1>1 DEF IdealInv, WitnessInv
<1>5. /\ \A i : Called(i) <=> Called(i)'
      /\ \A i, f : FieldSeen(i, f) <=> FieldSeen(i, f)'
      /\ \A i, f : CallSeen(i, f) <=> CallSeen(i, f)'
  BY <1>1 DEF Called, FieldSeen, CallSeen, Listens
<1>6. /\ \A i : InFields(i) => InFields(i)'
      /\ \A i : InCalls(i) => InCalls(i)'
      /\ \A i, t : KnowsField(i, t) => KnowsField(i, t)'
      /\ \A i, t : KnowsCall(i, t) => KnowsCall(i, t)'
  <2>1. /\ \A i : c # [op |-> "listenToFields", i |-> i]
        /\ \A i : c # [op |-> "listenToCalls", i |-> i]
        /\ \A i, t : c = FieldCall(i, t) => KnowsField(i, t)'
        /\ \A i, t : c = CallCall(i, t) => KnowsCall(i, t)'
    BY CallFields
  <2> QED BY <1>1, <1>3, <2>1, Grows
<1>7. Heard'
  BY <1>1, <1>4, <1>6 DEF Heard, Listens
<1>8. Grounded'
  <2>1. \A d \in Waiting' : CallGrounded(d)'
    <3>1. \A d \in {} : CallGrounded(d)'
      OBVIOUS
    <3> QED BY <1>1, <1>3, <1>4, <3>1, CallsGrounded
  <2>2. /\ \A p \in fieldCand' : Called(p[1])' /\ FieldSeen(p[1], FactOf(p[2]))'
        /\ \A p \in callCand' : Called(p[1])' /\ CallSeen(p[1], p[2])'
    BY <1>4, <1>5 DEF Grounded
  <2>3. \A i \in found' : Called(i)' /\ \E f \in Fact : FieldSeen(i, f)' /\ CallSeen(i, f)'
    BY <1>4, <1>5 DEF Grounded
  <2>4. \A i \in inFields' \cup inCalls' : Called(i)'
    BY <1>1, <1>4, <1>5 DEF Grounded
  <2> QED BY <2>1, <2>2, <2>3, <2>4 DEF Grounded, CallGrounded, WitnessOps
<1>9. /\ subscribed' \subseteq Witnessing /\ inFields' \subseteq Witnessing
      /\ inCalls' \subseteq Witnessing /\ c.op \in WitnessOps \cup {"subscribe"}
  BY <1>1 DEF IdealInv, Types, WitnessOps
<1>10. \A d \in {} : d.op \in WitnessOps
  OBVIOUS
<1> QED BY <1>1, <1>2, <1>7, <1>8, <1>9, <1>10, ListenerStep

LEMMA FieldWitnessInv ==
    ASSUME IdealInv, NEW c \in Innermost, FieldWitness(c),
           UNCHANGED <<phase, timedoutSolver, watch, weights, history>>
    PROVE  IdealInv'
<1> DEFINE i == c.i
           f == FactOf(c.t.target)
<1>1. /\ c.op = "fieldWitness" /\ Return(c, <<>>)
      /\ UNCHANGED <<automata, asked, callCand>>
  BY DEF FieldWitness
<1>2. /\ f = NoFact => UNCHANGED <<fieldCand, found>>
      /\ f # NoFact => /\ fieldCand' = fieldCand \cup {<<i, c.t.target>>}
                       /\ found' = IF <<i, f>> \in callCand THEN found \cup {i} ELSE found
  BY DEF FieldWitness
<1>3. /\ c \in Call /\ c \in Waiting /\ Matched /\ Grounded
      /\ fieldCand \subseteq Witnessing \X Target /\ callCand \subseteq Witnessing \X Fact
  BY <1>1, Returns DEF IdealInv, Types, WitnessInv
<1>4. i \in Witnessing /\ c.t \in FieldEvents
  BY <1>1, <1>3, CallArguments
<1>5. c.t.target \in Target /\ f \in Fact \cup {NoFact}
  BY <1>4, WitnessAssumption
<1>6. Called(i) /\ (f # NoFact => FieldSeen(i, f))
  BY <1>1, <1>3 DEF Grounded, FieldSeen
<1>7. <<i, f>> \in callCand => CallSeen(i, f)
  BY <1>3 DEF Grounded
<1>8. KnowsField(i, c.t)'
  BY <1>2 DEF KnowsField
<1>9. Matched'
  <2>1. ASSUME NEW p \in fieldCand', NEW q \in callCand', p[1] = q[1], FactOf(p[2]) = q[2]
        PROVE  p[1] \in found'
    <3>1. CASE p \in fieldCand
      BY <1>1, <1>2, <1>3, <2>1, <3>1 DEF Matched
    <3>2. CASE p \notin fieldCand
      <4>1. f # NoFact /\ p = <<i, c.t.target>>
        BY <1>2, <3>2
      <4>2. q \in callCand /\ q = <<q[1], q[2]>>
        BY <1>1, <1>3
      <4>3. q = <<i, f>>
        BY <2>1, <4>1, <4>2
      <4> QED BY <1>2, <4>1, <4>2, <4>3
    <3> QED BY <3>1, <3>2
  <2> QED BY <2>1 DEF Matched
<1>10. /\ fieldCand \subseteq fieldCand' /\ callCand \subseteq callCand'
       /\ found \subseteq found'
       /\ fieldCand' \subseteq Witnessing \X Target /\ callCand' \subseteq Witnessing \X Fact
  BY <1>1, <1>2, <1>3, <1>4, <1>5
<1>11. /\ \A p \in fieldCand' \ fieldCand : Called(p[1]) /\ FieldSeen(p[1], FactOf(p[2]))
       /\ \A p \in callCand' \ callCand : Called(p[1]) /\ CallSeen(p[1], p[2])
  BY <1>1, <1>2, <1>6
<1>12. \A j \in found' \ found :
         Called(j) /\ \E g \in Fact : FieldSeen(j, g) /\ CallSeen(j, g)
  BY <1>2, <1>5, <1>6, <1>7
<1> HIDE DEF f
<1> QED BY <1>1, <1>8, <1>9, <1>10, <1>11, <1>12, CandidateStep

LEMMA CallWitnessInv ==
    ASSUME IdealInv, NEW c \in Innermost, CallWitness(c),
           UNCHANGED <<phase, timedoutSolver, watch, weights, history>>
    PROVE  IdealInv'
<1> DEFINE i == c.i
           f == FactOf(c.t.target)
<1>1. /\ c.op = "callWitness" /\ Return(c, <<>>)
      /\ UNCHANGED <<automata, asked, fieldCand>>
  BY DEF CallWitness
<1>2. /\ f = NoFact => UNCHANGED <<callCand, found>>
      /\ f # NoFact => /\ callCand' = callCand \cup {<<i, f>>}
                       /\ found' = IF \E p \in fieldCand : p[1] = i /\ FactOf(p[2]) = f
                                   THEN found \cup {i} ELSE found
  BY DEF CallWitness
<1>3. /\ c \in Call /\ c \in Waiting /\ Matched /\ Grounded
      /\ fieldCand \subseteq Witnessing \X Target /\ callCand \subseteq Witnessing \X Fact
  BY <1>1, Returns DEF IdealInv, Types, WitnessInv
<1>4. i \in Witnessing /\ c.t \in CallEvents
  BY <1>1, <1>3, CallArguments
<1>5. f \in Fact \cup {NoFact}
  BY <1>4, WitnessAssumption
<1>6. Called(i) /\ (f # NoFact => CallSeen(i, f))
  BY <1>1, <1>3 DEF Grounded, CallSeen
<1>7. (\E p \in fieldCand : p[1] = i /\ FactOf(p[2]) = f) => FieldSeen(i, f)
  BY <1>3 DEF Grounded
<1>8. KnowsCall(i, c.t)'
  BY <1>2 DEF KnowsCall
<1>9. Matched'
  <2>1. ASSUME NEW p \in fieldCand', NEW q \in callCand', p[1] = q[1], FactOf(p[2]) = q[2]
        PROVE  p[1] \in found'
    <3>1. CASE q \in callCand
      BY <1>1, <1>2, <1>3, <2>1, <3>1 DEF Matched
    <3>2. CASE q \notin callCand
      <4>1. f # NoFact /\ q = <<i, f>>
        BY <1>2, <3>2
      <4> QED BY <1>1, <1>2, <2>1, <4>1
    <3> QED BY <3>1, <3>2
  <2> QED BY <2>1 DEF Matched
<1>10. /\ fieldCand \subseteq fieldCand' /\ callCand \subseteq callCand'
       /\ found \subseteq found'
       /\ fieldCand' \subseteq Witnessing \X Target /\ callCand' \subseteq Witnessing \X Fact
  BY <1>1, <1>2, <1>3, <1>4, <1>5
<1>11. /\ \A p \in fieldCand' \ fieldCand : Called(p[1]) /\ FieldSeen(p[1], FactOf(p[2]))
       /\ \A p \in callCand' \ callCand : Called(p[1]) /\ CallSeen(p[1], p[2])
  BY <1>1, <1>2, <1>6
<1>12. \A j \in found' \ found :
         Called(j) /\ \E g \in Fact : FieldSeen(j, g) /\ CallSeen(j, g)
  BY <1>2, <1>5, <1>6, <1>7
<1> HIDE DEF f
<1> QED BY <1>1, <1>8, <1>9, <1>10, <1>11, <1>12, CandidateStep

LEMMA WitnessCallInv ==
    ASSUME IdealInv, NEW c \in Innermost, WitnessCall(c),
           UNCHANGED <<phase, timedoutSolver, watch, weights, history>>
    PROVE  IdealInv'
<1>1. CASE SynchedReachable(c)
  BY <1>1, SynchedReachableInv
<1>2. CASE ListenToFields(c)
  BY <1>2, ListenToFieldsInv
<1>3. CASE ListenToCalls(c)
  BY <1>3, ListenToCallsInv
<1>4. CASE FieldWitness(c)
  BY <1>4, FieldWitnessInv
<1>5. CASE CallWitness(c)
  BY <1>5, CallWitnessInv
<1> QED BY <1>1, <1>2, <1>3, <1>4, <1>5 DEF WitnessCall

(***************************************************************************)
(* Rules and connects of the seed's solvers.                               *)
(***************************************************************************)
\* A rule or a connect announces its weight, or has none to announce.
LEMMA AnnounceStep ==
    ASSUME IdealInv, NEW A, \A d \in A : d \in Call /\ d.op = "addOther", Calls(A),
           timedoutSolver = NoTimeout,
           UNCHANGED <<witnesses, phase, timedoutSolver, watch, weights, foreign>>,
           strong' # strong => phase = "ValueFlow",
           \A r \in strong' \ strong : StmtOf(r.n) \notin weakUpdates
    PROVE  IdealInv'
<1>1. UNCHANGED <<solvers, fieldTrans, callTrans, reached, asked, fieldCand, callCand, found>>
  BY DEF witnesses, automata
<1>2. PICK n \in {0, 1} : StackStep(NoCall, n, <<A>>, A)
  BY CallsStack DEF IdealInv, Types
<1>3. Types'
  BY <1>1, <1>2 DEF IdealInv, Types, asked, weights, StackStep
<1>4. \A d \in A : d.op \notin WitnessOps /\ d.op # "nonOneFlow"
  BY DEF WitnessOps
<1>5. WitnessInv'
  BY <1>1, <1>2, <1>4, WitnessStays, NoCallIsNone DEF IdealInv, StackStep, WitnessOps
<1>6. PotentialInv'
  BY <1>2, <1>4, PotentialStays, NoCallIsNone DEF IdealInv, StackStep
<1>7. Shifted(NoCall, n, <<A>>)
      /\ \A i \in DOMAIN <<A>> : \A d \in <<A>>[i] :
           d.op \notin {"work", "solve", "solved", "runPhase"}
  BY <1>2 DEF StackStep
<1>8. WatchInv'
  BY <1>7, WatchStays, NoCallIsNone DEF IdealInv
<1>9. PhaseInv'
  <2>1. PhaseInv /\ \A i \in DOMAIN <<A>> : \A d \in <<A>>[i] : d.op # "runPhase"
    BY <1>7 DEF IdealInv
  <2>2. \A k \in DOMAIN agenda' : Second_ \in agenda'[k] =>
          /\ agenda'[k] = {Second_}
          /\ \A i \in DOMAIN agenda' : i # k => i < k
          /\ phase # "ValueFlow" /\ strong = {}
    BY <1>7, <2>1, LastStays
  <2>3. weakUpdates' = weakUpdates
    BY <1>1 DEF weakUpdates
  <2> QED BY <2>1, <2>2, <2>3 DEF PhaseInv, Second_
<1>10. StrongOnlyIfSure'
  BY DEF IdealInv, PhaseInv, StrongOnlyIfSure
<1> QED BY <1>3, <1>5, <1>6, <1>8, <1>9, <1>10 DEF IdealInv

LEMMA OtherCalls ==
    ASSUME NEW p \in Node \X Weight
    PROVE  [op |-> "addOther", p |-> p] \in Call
BY DEF Call, OtherCall

LEMMA SeedRuleInv ==
    ASSUME IdealInv, NEW b, NEW r \in Rule, SeedRule(b, r)
    PROVE  IdealInv'
<1> DEFINE A == IF phase = "ObjectFlow" /\ r.w # One /\ (r.kind = "push" \/ r.callsite)
                THEN {[op |-> "addOther", p |-> <<r.n, r.w>>]} ELSE {}
<1>1. <<r.n, r.w>> \in Node \X Weight
  BY IdealAssumption
<1>2. \A d \in A : d \in Call /\ d.op = "addOther"
  BY <1>1, OtherCalls
<1>3. /\ Calls(A)
      /\ strong' = IF b = Second /\ StronglyUpdated(r) THEN strong \cup {r} ELSE strong
      /\ UNCHANGED <<witnesses, phase, timedoutSolver, watch, weights, foreign>>
      /\ timedoutSolver = NoTimeout
  BY WorkingInTime DEF SeedRule, CreateRule
<1>4. /\ strong' # strong => phase = "ValueFlow"
      /\ \A q \in strong' \ strong : StmtOf(q.n) \notin weakUpdates
  BY <1>3 DEF StronglyUpdated
<1> HIDE DEF A
<1> QED BY <1>2, <1>3, <1>4, AnnounceStep

LEMMA ConnectInv ==
    ASSUME IdealInv, NEW b, NEW p \in Connects, Connect(b, p)
    PROVE  IdealInv'
<1> DEFINE A == IF p[2] = One THEN {} ELSE {[op |-> "addOther", p |-> p]}
<1>1. p \in Node \X Weight
  BY IdealAssumption
<1>2. \A d \in A : d \in Call /\ d.op = "addOther"
  BY <1>1, OtherCalls
<1>3. /\ Calls(A) /\ strong' = strong
      /\ UNCHANGED <<witnesses, phase, timedoutSolver, watch, weights, foreign>>
      /\ timedoutSolver = NoTimeout
  BY WorkingInTime DEF Connect
<1> HIDE DEF A
<1> QED BY <1>2, <1>3, AnnounceStep

(***************************************************************************)
(* Queries and their watch.                                                *)
(***************************************************************************)
Work(b) == [op |-> "work", b |-> b]

LEMMA OtherArguments ==
    ASSUME NEW c \in Call
    PROVE  /\ c.op \in {"runPhase", "solve", "solved", "register", "work"}
                => c.b \in Boomerang /\ c = [op |-> c.op, b |-> c.b]
           /\ c.op \in {"nonOneFlow", "ask"}
                => /\ c.b \in Boomerang /\ c.n \in Node /\ c.w \in Weight
                   /\ c = [op |-> c.op, b |-> c.b, n |-> c.n, w |-> c.w]
           /\ c.op = "addOther" => c.p \in Node \X Weight
BY DEF Call, AskedCall, FieldWitnessCall, CallWitnessCall, PhaseCall, FlowCall, OtherCall

LEMMA OtherTypes ==
    ASSUME NEW b \in Boomerang
    PROVE  /\ [op |-> "solve", b |-> b] \in Call /\ [op |-> "register", b |-> b] \in Call
           /\ [op |-> "solved", b |-> b] \in Call /\ Work(b) \in Call
           /\ \A n \in Node, w \in Weight : [op |-> "ask", b |-> b, n |-> n, w |-> w] \in Call
           /\ \A p \in Node \X Weight : Flow(b, p) \in Call
BY DEF Call, PhaseCall, FlowCall, Flow, Work

\* The ask that sets the watch of b is still to come, unless it was just made.
LEMMA StillSet ==
    ASSUME NEW c, NEW n, NEW body, Shifted(c, n, body), NEW b, NEW i \in DOMAIN agenda,
           AskedBetween(0, i, b), c.op = "ask" => c.b # b
    PROVE  AskedBetween(0, i + n, b)'
<1>1. PICK j \in DOMAIN agenda : j < i /\ \E d \in agenda[j] : d.op = "ask" /\ d.b = b
  BY DEF AskedBetween
<1>2. PICK d \in agenda[j] : d.op = "ask" /\ d.b = b
  BY <1>1
<1>3. j + n \in DOMAIN agenda' /\ d \in agenda'[j + n]
  BY <1>2 DEF Shifted
<1>4. 0 < j + n /\ j + n < i + n
  BY <1>1, <1>3 DEF Shifted
<1> QED BY <1>2, <1>3, <1>4 DEF AskedBetween

\* A loop of calls to boomerangs is put in front of those that work.
LEMMA WatchShifts ==
    ASSUME WatchInv, NEW c, NEW n, NEW body, Shifted(c, n, body),
           \A b \in Boomerang, i \in DOMAIN agenda : Work(b) \in agenda[i] =>
             /\ watch'[b] \/ AskedBetween(0, i + n, b)'
             /\ \A m \in DOMAIN body : \A d \in body[m] :
                  /\ d.op # "runPhase"
                  /\ d.op \in {"solve", "solved"} /\ d.b = b => AskedBetween(m, i + n, b)',
           \A b \in Boomerang, m \in DOMAIN body : Work(b) \in body[m] =>
             m = 1 /\ watch'[b] /\ \A d \in body[m] : d.op = "work"
    PROVE  WatchInv'
<1> SUFFICES ASSUME NEW b \in Boomerang, NEW j \in DOMAIN agenda', Work(b) \in agenda'[j]
             PROVE  /\ watch'[b] \/ AskedBetween(0, j, b)'
                    /\ \A m \in DOMAIN agenda' : m <= j =>
                         \A d \in agenda'[m] :
                           /\ d.op # "runPhase"
                           /\ d.op \in {"solve", "solved"} /\ d.b = b
                                => AskedBetween(m, j, b)'
  BY DEF WatchInv, Work
<1>1. CASE j \in DOMAIN body /\ agenda'[j] = body[j]
  <2>1. j = 1 /\ watch'[b] /\ \A d \in agenda'[j] : d.op = "work"
    BY <1>1
  <2>2. \A m \in DOMAIN agenda' : m <= j => m = 1
    BY <2>1 DEF Shifted
  <2> QED BY <2>1, <2>2
<1>2. CASE \E i \in DOMAIN agenda : j = i + n /\ agenda'[j] \subseteq agenda[i]
  <2>1. PICK i \in DOMAIN agenda : j = i + n /\ agenda'[j] \subseteq agenda[i]
    BY <1>2
  <2>2. Work(b) \in agenda[i]
    BY <2>1
  <2>3. watch'[b] \/ AskedBetween(0, j, b)'
    BY <2>1, <2>2
  <2>4. ASSUME NEW m \in DOMAIN agenda', m <= j, NEW d \in agenda'[m]
        PROVE  /\ d.op # "runPhase"
               /\ d.op \in {"solve", "solved"} /\ d.b = b => AskedBetween(m, j, b)'
    <3>1. CASE m \in DOMAIN body /\ agenda'[m] = body[m]
      BY <2>1, <2>2, <2>4, <3>1
    <3>2. CASE \E k \in DOMAIN agenda : m = k + n /\ agenda'[m] \subseteq agenda[k]
      <4>1. PICK k \in DOMAIN agenda : m = k + n /\ agenda'[m] \subseteq agenda[k]
        BY <3>2
      <4>2. k <= i /\ d \in agenda[k]
        BY <2>1, <2>4, <4>1 DEF Shifted
      <4> QED BY <2>1, <2>2, <4>1, <4>2, OldOrder DEF Work
    <3> QED BY <3>1, <3>2 DEF Shifted
  <2> QED BY <2>3, <2>4
<1> QED BY <1>1, <1>2 DEF Shifted

\* All but the watch, in a step that starts or ends a query, or asks.
LEMMA QueryStep ==
    ASSUME IdealInv, NEW c \in Innermost, NEW n, NEW body, NEW made,
           StackStep(c, n, body, made), c.op \in {"solve", "solved", "ask"},
           \A d \in made : d.op \in {"work", "solved", "subscribe"},
           UNCHANGED <<witnesses, phase, timedoutSolver, weights, history>>,
           watch' \in [Boomerang -> BOOLEAN], WatchInv'
    PROVE  IdealInv'
<1>1. /\ UNCHANGED <<solvers, fieldTrans, callTrans, reached, asked, fieldCand, callCand, found>>
      /\ UNCHANGED <<phase, timedoutSolver, weights, strong, foreign>>
      /\ timedoutSolver = NoTimeout
  BY InTime DEF witnesses, automata, history, IdealInv
<1>2. Types'
  BY <1>1 DEF IdealInv, Types, asked, weights, StackStep
<1>3. c.op \notin WitnessOps /\ \A d \in made : d.op \notin WitnessOps
  BY DEF WitnessOps
<1>4. WitnessInv'
  BY <1>1, <1>3, WitnessStays DEF IdealInv, StackStep
<1>5. c.op \notin {"nonOneFlow", "register", "runPhase"} /\ \A d \in made : d.op # "nonOneFlow"
  OBVIOUS
<1>6. PotentialInv'
  BY <1>1, <1>5, PotentialStays DEF IdealInv, StackStep
<1>7. \A i \in DOMAIN body : \A d \in body[i] : d.op # "runPhase"
  BY DEF StackStep
<1>8. PhaseInv'
  BY <1>1, <1>7, PhaseStays DEF IdealInv, StackStep
<1>9. StrongOnlyIfSure'
  BY <1>1 DEF IdealInv, StrongOnlyIfSure
<1> QED BY <1>2, <1>4, <1>6, <1>8, <1>9 DEF IdealInv

LEMMA SolveInv == ASSUME IdealInv, NEW c \in Innermost, Solve(c) PROVE IdealInv'
<1> DEFINE A == {Work(c.b)}
           B == {[op |-> "solved", b |-> c.b]}
           body == <<A, B>>
<1>1. /\ agenda \in Seq(SUBSET Call) /\ watch \in [Boomerang -> BOOLEAN] /\ WatchInv
      /\ c.op = "solve" /\ watch' = [watch EXCEPT ![c.b] = TRUE] /\ Return(c, body)
      /\ UNCHANGED <<witnesses, phase, timedoutSolver, weights, history>>
  BY DEF Solve, IdealInv, Types, Work
<1>2. c \in Call /\ 1 \in DOMAIN agenda /\ c \in agenda[1]
  BY <1>1, Returns
<1>3. c.b \in Boomerang
  BY <1>1, <1>2, OtherArguments
<1>4. A \in SUBSET Call /\ B \in SUBSET Call
  BY <1>3, OtherTypes
<1>5. /\ \A d \in A : d = Work(c.b) /\ d.op = "work"
      /\ \A d \in B : d.op = "solved" /\ d.b = c.b
      /\ \A d \in A \cup B : d.op \in {"work", "solved", "subscribe"}
  BY DEF Work
<1> HIDE DEF A, B
<1>6. DOMAIN body = {1, 2} /\ body[1] = A /\ body[2] = B
  BY BodyDomains
<1>7. StackStep(c, 2, body, A \cup B)
  BY <1>1, <1>4, Returns
<1> HIDE DEF body
<1>8. Shifted(c, 2, body)
  BY <1>7 DEF StackStep
<1>9. ASSUME NEW b \in Boomerang, NEW i \in DOMAIN agenda, Work(b) \in agenda[i]
      PROVE  /\ watch'[b] \/ AskedBetween(0, i + 2, b)'
             /\ \A m \in DOMAIN body : \A d \in body[m] :
                  /\ d.op # "runPhase"
                  /\ d.op \in {"solve", "solved"} /\ d.b = b => AskedBetween(m, i + 2, b)'
  <2>1. watch'[b] \/ AskedBetween(0, i + 2, b)'
    <3>1. watch[b] \/ AskedBetween(0, i, b)
      BY <1>1, <1>9 DEF WatchInv, Work
    <3>2. AskedBetween(0, i, b) => AskedBetween(0, i + 2, b)'
      BY <1>1, <1>8, StillSet
    <3> QED BY <1>1, <3>1, <3>2
  <2>2. ASSUME c.b = b PROVE AskedBetween(2, i + 2, b)'
    <3>1. i \in Int /\ 1 <= i
      BY <1>8 DEF Shifted
    <3>2. AskedBetween(1, i, b)
      BY <1>1, <1>2, <1>9, <2>2, <3>1 DEF WatchInv, Work
    <3>3. AskedBetween(1 + 2, i + 2, b)'
      BY <1>8, <3>1, <3>2, BetweenShifts
    <3>4. \A j \in DOMAIN agenda' : 1 + 2 < j => 2 < j
      BY <1>8 DEF Shifted
    <3> QED BY <3>3, <3>4 DEF AskedBetween
  <2> QED BY <1>5, <1>6, <2>1, <2>2
<1>10. ASSUME NEW b \in Boomerang, NEW m \in DOMAIN body, Work(b) \in body[m]
       PROVE  m = 1 /\ watch'[b] /\ \A d \in body[m] : d.op = "work"
  <2>1. Work(b).op = "work" /\ Work(b).b = b /\ Work(c.b).b = c.b
    BY DEF Work
  <2>2. m = 1
    BY <1>5, <1>6, <1>10, <2>1
  <2>3. b = c.b
    BY <1>5, <1>6, <1>10, <2>1, <2>2
  <2> QED BY <1>1, <1>3, <1>5, <1>6, <2>2, <2>3
<1>11. WatchInv'
  BY <1>1, <1>8, <1>9, <1>10, WatchShifts
<1> QED BY <1>1, <1>5, <1>7, <1>11, QueryStep

LEMMA SolvedInv == ASSUME IdealInv, NEW c \in Innermost, Solved(c) PROVE IdealInv'
<1>1. /\ agenda \in Seq(SUBSET Call) /\ watch \in [Boomerang -> BOOLEAN] /\ WatchInv
      /\ c.op = "solved" /\ watch' = [watch EXCEPT ![c.b] = FALSE] /\ Return(c, <<>>)
      /\ UNCHANGED <<witnesses, phase, timedoutSolver, weights, history>>
  BY DEF Solved, IdealInv, Types
<1>2. /\ c \in Call /\ 1 \in DOMAIN agenda /\ c \in agenda[1] /\ StackStep(c, 0, <<>>, {})
  <2>1. {} \in SUBSET Call
    OBVIOUS
  <2> QED BY <1>1, <2>1, Returns
<1>3. Shifted(c, 0, <<>>)
  BY <1>2 DEF StackStep
<1>4. ASSUME NEW b \in Boomerang, NEW i \in DOMAIN agenda, Work(b) \in agenda[i]
      PROVE  watch'[b] \/ AskedBetween(0, i + 0, b)'
  <2>1. i \in Int /\ 1 <= i
    BY <1>3 DEF Shifted
  <2>2. CASE c.b = b
    <3>1. AskedBetween(1, i, b)
      BY <1>1, <1>2, <1>4, <2>1, <2>2 DEF WatchInv, Work
    <3>2. AskedBetween(0, i, b)
      <4>1. \A j \in DOMAIN agenda : 1 < j => 0 < j
        BY <1>3 DEF Shifted
      <4> QED BY <3>1, <4>1 DEF AskedBetween
    <3> QED BY <1>1, <1>3, <3>2, StillSet
  <2>3. CASE c.b # b
    <3>1. watch[b] \/ AskedBetween(0, i, b)
      BY <1>1, <1>4 DEF WatchInv, Work
    <3>2. AskedBetween(0, i, b) => AskedBetween(0, i + 0, b)'
      BY <1>1, <1>3, StillSet
    <3> QED BY <1>1, <2>3, <3>1, <3>2
  <2> QED BY <2>2, <2>3
<1>5. WatchInv'
  BY <1>1, <1>3, <1>4, WatchShifts, BodyDomains
<1>6. \A d \in {} : d.op \in {"work", "solved", "subscribe"}
  OBVIOUS
<1>7. watch' \in [Boomerang -> BOOLEAN]
  BY <1>1
<1> QED BY <1>1, <1>2, <1>5, <1>6, <1>7, QueryStep

LEMMA AskSolversInv == ASSUME IdealInv, NEW c \in Innermost, AskSolvers(c) PROVE IdealInv'
<1> DEFINE A == {[op |-> "subscribe", i |-> [solver |-> s, n |-> c.n, w |-> c.w]] :
                   s \in {r \in solvers : r.b = c.b}}
           body == <<A>>
<1>1. /\ agenda \in Seq(SUBSET Call) /\ watch \in [Boomerang -> BOOLEAN] /\ WatchInv
      /\ c.op = "ask" /\ watch' = [watch EXCEPT ![c.b] = TRUE] /\ Return(c, body)
      /\ UNCHANGED <<witnesses, phase, timedoutSolver, weights, history>>
      /\ solvers \subseteq Solver
  BY DEF AskSolvers, IdealInv, Types
<1>2. c \in Call
  BY <1>1, Returns
<1>3. c.b \in Boomerang /\ c.n \in Node /\ c.w \in Weight
  BY <1>1, <1>2, OtherArguments
<1>4. A \in SUBSET Call
  <2>1. \A s \in solvers : [solver |-> s, n |-> c.n, w |-> c.w] \in Witnessing
    BY <1>1, <1>3 DEF Witnessing
  <2>2. \A s \in solvers :
          [op |-> "subscribe", i |-> [solver |-> s, n |-> c.n, w |-> c.w]] \in Call
    BY <2>1, CallTypes
  <2> QED BY <2>2
<1>5. \A d \in A : d.op = "subscribe"
  OBVIOUS
<1> HIDE DEF A
<1>6. DOMAIN body = {1} /\ body[1] = A
  BY BodyDomains
<1>7. StackStep(c, 1, body, A)
  BY <1>1, <1>4, Returns
<1> HIDE DEF body
<1>8. Shifted(c, 1, body)
  BY <1>7 DEF StackStep
<1>9. ASSUME NEW b \in Boomerang, NEW i \in DOMAIN agenda, Work(b) \in agenda[i]
      PROVE  watch'[b] \/ AskedBetween(0, i + 1, b)'
  <2>1. watch[b] \/ AskedBetween(0, i, b)
    BY <1>1, <1>9 DEF WatchInv, Work
  <2>2. c.b # b /\ AskedBetween(0, i, b) => AskedBetween(0, i + 1, b)'
    BY <1>8, StillSet
  <2> QED BY <1>1, <2>1, <2>2
<1>10. \A b \in Boomerang, m \in DOMAIN body : Work(b) \notin body[m]
  BY <1>5, <1>6 DEF Work
<1>11. \A m \in DOMAIN body : \A d \in body[m] : d.op = "subscribe"
  BY <1>5, <1>6
<1>12. WatchInv'
  BY <1>1, <1>8, <1>9, <1>10, <1>11, WatchShifts
<1>13. \A d \in A : d.op \in {"work", "solved", "subscribe"}
  BY <1>5
<1>14. watch' \in [Boomerang -> BOOLEAN]
  BY <1>1
<1> QED BY <1>1, <1>7, <1>12, <1>13, <1>14, QueryStep

(***************************************************************************)
(* Weights other than one.                                                 *)
(***************************************************************************)
LEMMA FlowFields ==
    ASSUME NEW b, NEW p
    PROVE  /\ Flow(b, p).op = "nonOneFlow" /\ Flow(b, p).b = b
           /\ Flow(b, p).n = p[1] /\ Flow(b, p).w = p[2]
BY DEF Flow

\* All but the potential strong updates, when a listener is added or told.
LEMMA FlowStep ==
    ASSUME IdealInv, NEW c \in Innermost, NEW A, StackStep(c, 1, <<A>>, A),
           c.op \in {"addOther", "register"},
           \A d \in A : d.op = "nonOneFlow",
           UNCHANGED <<witnesses, phase, timedoutSolver, watch, potentialStrongUpdates, history>>,
           nonOneFlowNodes' \subseteq Node \X Weight, listeners' \subseteq Boomerang,
           PotentialInv'
    PROVE  IdealInv'
<1>1. /\ UNCHANGED <<solvers, fieldTrans, callTrans, reached, asked, fieldCand, callCand, found>>
      /\ UNCHANGED <<phase, timedoutSolver, watch, strong, foreign>>
      /\ timedoutSolver = NoTimeout
  BY InTime DEF witnesses, automata, history, IdealInv
<1>2. Types'
  BY <1>1 DEF IdealInv, Types, asked, StackStep
<1>3. c.op \notin WitnessOps /\ \A d \in A : d.op \notin WitnessOps
  BY DEF WitnessOps
<1>4. WitnessInv'
  BY <1>1, <1>3, WitnessStays DEF IdealInv, StackStep
<1>5. /\ \A i \in DOMAIN <<A>> : \A d \in <<A>>[i] :
           d.op \notin {"work", "solve", "solved", "runPhase"}
      /\ Shifted(c, 1, <<A>>)
  BY DEF StackStep
<1>6. WatchInv'
  BY <1>1, <1>5, WatchStays DEF IdealInv
<1>7. PhaseInv'
  BY <1>1, <1>5, PhaseStays DEF IdealInv
<1>8. StrongOnlyIfSure'
  BY <1>1 DEF IdealInv, StrongOnlyIfSure
<1> QED BY <1>2, <1>4, <1>6, <1>7, <1>8 DEF IdealInv

LEMMA AddOtherThanOneWeightInv ==
    ASSUME IdealInv, NEW c \in Innermost, AddOtherThanOneWeight(c)
    PROVE  IdealInv'
<1> DEFINE A == IF c.p \in nonOneFlowNodes THEN {} ELSE {Flow(b, c.p) : b \in listeners}
<1>1. /\ agenda \in Seq(SUBSET Call) /\ timedoutSolver = NoTimeout
      /\ nonOneFlowNodes \subseteq Node \X Weight /\ listeners \subseteq Boomerang
      /\ c.op = "addOther" /\ nonOneFlowNodes' = nonOneFlowNodes \cup {c.p}
      /\ Return(c, <<A>>)
      /\ UNCHANGED <<witnesses, phase, timedoutSolver, watch, listeners,
                     potentialStrongUpdates, history>>
      /\ PotentialInv
  BY InTime DEF AddOtherThanOneWeight, IdealInv, Types
<1>2. c \in Call
  BY <1>1, Returns
<1>3. c.p \in Node \X Weight
  BY <1>1, <1>2, OtherArguments
<1>4. A \in SUBSET Call
  BY <1>1, <1>3, OtherTypes
<1>5. /\ \A d \in A : d.op = "nonOneFlow" /\ <<d.n, d.w>> = c.p
      /\ c.p \notin nonOneFlowNodes /\ First \in listeners => Flow(First, c.p) \in A
  BY <1>3, FlowFields
<1> HIDE DEF A
<1>6. StackStep(c, 1, <<A>>, A)
  BY <1>1, <1>4, Returns
<1>7. Waiting \ {c} \subseteq Waiting' /\ A \subseteq Waiting' /\ Waiting' \subseteq Waiting \cup A
  BY <1>6 DEF StackStep, Moves
<1>8. PotentialInv'
  <2>1. \/ First \in listeners'
        \/ [op |-> "register", b |-> First] \in Waiting'
        \/ [op |-> "runPhase", b |-> First] \in Waiting'
    BY <1>1, <1>7 DEF PotentialInv
  <2>2. ASSUME First \in listeners', NEW p \in nonOneFlowNodes'
        PROVE  Absorbed(p)' \/ Flow(First, p) \in Waiting'
    <3>1. CASE p \in nonOneFlowNodes
      <4>1. Absorbed(p) \/ Flow(First, p) \in Waiting
        BY <1>1, <2>2, <3>1 DEF PotentialInv
      <4>2. Flow(First, p) # c
        BY <1>1, FlowFields
      <4> QED BY <1>1, <1>7, <4>1, <4>2 DEF Absorbed
    <3>2. CASE p \notin nonOneFlowNodes
      BY <1>1, <1>5, <1>7, <2>2, <3>2
    <3> QED BY <3>1, <3>2
  <2>3. \A d \in Waiting' : d.op = "nonOneFlow" => <<d.n, d.w>> \in nonOneFlowNodes'
    BY <1>1, <1>5, <1>7 DEF PotentialInv
  <2>4. \A s \in Stmt : potentialStrongUpdates'[s] # NoWeight =>
          \E p \in nonOneFlowNodes' : StmtOf(p[1]) = s
    BY <1>1 DEF PotentialInv
  <2> QED BY <2>1, <2>2, <2>3, <2>4 DEF PotentialInv
<1>9. nonOneFlowNodes' \subseteq Node \X Weight /\ listeners' \subseteq Boomerang
  BY <1>1, <1>3
<1> QED BY <1>1, <1>5, <1>6, <1>8, <1>9, FlowStep

LEMMA RegisterListenerInv ==
    ASSUME IdealInv, NEW c \in Innermost, RegisterListener(c)
    PROVE  IdealInv'
<1> DEFINE A == {Flow(c.b, p) : p \in nonOneFlowNodes}
<1>1. /\ agenda \in Seq(SUBSET Call) /\ timedoutSolver = NoTimeout
      /\ nonOneFlowNodes \subseteq Node \X Weight /\ listeners \subseteq Boomerang
      /\ c.op = "register" /\ listeners' = listeners \cup {c.b} /\ Return(c, <<A>>)
      /\ UNCHANGED <<witnesses, phase, timedoutSolver, watch, nonOneFlowNodes,
                     potentialStrongUpdates, history>>
      /\ PotentialInv
  BY InTime DEF RegisterListener, IdealInv, Types
<1>2. c \in Call
  BY <1>1, Returns
<1>3. c.b \in Boomerang
  BY <1>1, <1>2, OtherArguments
<1>4. A \in SUBSET Call
  BY <1>1, <1>3, OtherTypes
<1>5. /\ \A d \in A : d.op = "nonOneFlow" /\ <<d.n, d.w>> \in nonOneFlowNodes
      /\ \A p \in nonOneFlowNodes : Flow(c.b, p) \in A
  BY <1>1, FlowFields
<1> HIDE DEF A
<1>6. StackStep(c, 1, <<A>>, A)
  BY <1>1, <1>4, Returns
<1>7. Waiting \ {c} \subseteq Waiting' /\ A \subseteq Waiting' /\ Waiting' \subseteq Waiting \cup A
  BY <1>6 DEF StackStep, Moves
<1>8. PotentialInv'
  <2>1. \/ First \in listeners'
        \/ [op |-> "register", b |-> First] \in Waiting'
        \/ [op |-> "runPhase", b |-> First] \in Waiting'
    <3>1. c = [op |-> "register", b |-> First] => First \in listeners'
      BY <1>1
    <3>2. c # [op |-> "runPhase", b |-> First]
      BY <1>1
    <3> QED BY <1>1, <1>7, <3>1, <3>2 DEF PotentialInv
  <2>2. ASSUME First \in listeners', NEW p \in nonOneFlowNodes'
        PROVE  Absorbed(p)' \/ Flow(First, p) \in Waiting'
    <3>1. CASE First \in listeners
      <4>1. Absorbed(p) \/ Flow(First, p) \in Waiting
        BY <1>1, <2>2, <3>1 DEF PotentialInv
      <4>2. Flow(First, p) # c
        BY <1>1, FlowFields
      <4> QED BY <1>1, <1>7, <4>1, <4>2 DEF Absorbed
    <3>2. CASE First \notin listeners
      BY <1>1, <1>5, <1>7, <2>2, <3>2
    <3> QED BY <3>1, <3>2
  <2>3. \A d \in Waiting' : d.op = "nonOneFlow" => <<d.n, d.w>> \in nonOneFlowNodes'
    BY <1>1, <1>5, <1>7 DEF PotentialInv
  <2>4. \A s \in Stmt : potentialStrongUpdates'[s] # NoWeight =>
          \E p \in nonOneFlowNodes' : StmtOf(p[1]) = s
    BY <1>1 DEF PotentialInv
  <2> QED BY <2>1, <2>2, <2>3, <2>4 DEF PotentialInv
<1>9. nonOneFlowNodes' \subseteq Node \X Weight /\ listeners' \subseteq Boomerang
  BY <1>1, <1>3
<1> QED BY <1>1, <1>5, <1>6, <1>8, <1>9, FlowStep

\* A combined weight absorbs the new one, and what the old one absorbed.
LEMMA CombinedAbsorbs ==
    ASSUME Types, NEW s \in Stmt, NEW w \in Weight
    PROVE  /\ Combined(s, w) \in Weight /\ Combined(s, w) # NoWeight
           /\ CombineWith(Combined(s, w), w) = Combined(s, w)
           /\ \A x \in Weight :
                /\ potentialStrongUpdates[s] # NoWeight
                /\ CombineWith(potentialStrongUpdates[s], x) = potentialStrongUpdates[s]
                => CombineWith(Combined(s, w), x) = Combined(s, w)
<1> DEFINE v == potentialStrongUpdates[s]
<1>1. v \in Weight \cup {NoWeight} /\ NoWeight \notin Weight
  BY IdealAssumption DEF Types
<1>2. Combined(s, w) = IF v = NoWeight THEN w ELSE CombineWith(v, w)
  BY DEF Combined
<1> HIDE DEF v
<1>3. CASE v = NoWeight
  <2>1. CombineWith(w, w) = w
    BY JoinAssumption
  <2> QED BY <1>1, <1>2, <1>3, <2>1 DEF v
<1>4. CASE v # NoWeight
  <2>1. v \in Weight /\ Combined(s, w) = CombineWith(v, w) /\ CombineWith(v, w) \in Weight
    BY <1>1, <1>2, <1>4, JoinAssumption
  <2>2. CombineWith(CombineWith(v, w), w) = CombineWith(v, w)
    <3>1. CombineWith(CombineWith(v, w), w) = CombineWith(v, CombineWith(w, w))
      BY <2>1, JoinAssumption
    <3> QED BY <3>1, JoinAssumption
  <2>3. ASSUME NEW x \in Weight, CombineWith(v, x) = v
        PROVE  CombineWith(CombineWith(v, w), x) = CombineWith(v, w)
    <3>1. CombineWith(CombineWith(v, w), x) = CombineWith(v, CombineWith(w, x))
      BY <2>1, JoinAssumption
    <3>2. CombineWith(w, x) = CombineWith(x, w)
      BY JoinAssumption
    <3>3. CombineWith(v, CombineWith(x, w)) = CombineWith(CombineWith(v, x), w)
      BY <2>1, JoinAssumption
    <3> QED BY <2>3, <3>1, <3>2, <3>3
  <2> QED BY <1>1, <2>1, <2>2, <2>3 DEF v
<1> QED BY <1>3, <1>4

\* All but the watch and the potential strong updates, when a weight is told.
LEMMA ToldStep ==
    ASSUME IdealInv, NEW c \in Innermost, NEW n, NEW body, NEW made,
           StackStep(c, n, body, made), c.op = "nonOneFlow",
           \A d \in made : d.op \in {"solve", "ask"},
           UNCHANGED <<witnesses, phase, timedoutSolver, watch, nonOneFlowNodes, listeners,
                       history>>,
           potentialStrongUpdates' \in [Stmt -> Weight \cup {NoWeight}],
           PotentialInv', WatchInv'
    PROVE  IdealInv'
<1>1. /\ UNCHANGED <<solvers, fieldTrans, callTrans, reached, asked, fieldCand, callCand, found>>
      /\ UNCHANGED <<phase, timedoutSolver, strong, foreign>>
      /\ timedoutSolver = NoTimeout
  BY InTime DEF witnesses, automata, history, IdealInv
<1>2. Types'
  BY <1>1 DEF IdealInv, Types, asked, StackStep
<1>3. c.op \notin WitnessOps /\ \A d \in made : d.op \notin WitnessOps
  BY DEF WitnessOps
<1>4. WitnessInv'
  BY <1>1, <1>3, WitnessStays DEF IdealInv, StackStep
<1>5. \A i \in DOMAIN body : \A d \in body[i] : d.op # "runPhase"
  BY DEF StackStep
<1>6. PhaseInv'
  BY <1>1, <1>5, PhaseStays DEF IdealInv, StackStep
<1>7. StrongOnlyIfSure'
  BY <1>1 DEF IdealInv, StrongOnlyIfSure
<1> QED BY <1>2, <1>4, <1>6, <1>7 DEF IdealInv

LEMMA SecondFlowInv ==
    ASSUME IdealInv, NEW c \in Innermost, NonOneFlow(c), c.b = Second
    PROVE  IdealInv'
<1>1. /\ agenda \in Seq(SUBSET Call) /\ timedoutSolver = NoTimeout
      /\ c.op = "nonOneFlow" /\ Return(c, <<>>) /\ UNCHANGED potentialStrongUpdates
      /\ UNCHANGED <<witnesses, phase, timedoutSolver, watch, nonOneFlowNodes, listeners,
                     history>>
      /\ potentialStrongUpdates \in [Stmt -> Weight \cup {NoWeight}]
      /\ PotentialInv /\ WatchInv
  BY InTime DEF NonOneFlow, IdealInv, Types
<1>2. StackStep(c, 0, <<>>, {})
  <2>1. {} \in SUBSET Call
    OBVIOUS
  <2> QED BY <1>1, <2>1, Returns
<1>3. Shifted(c, 0, <<>>) /\ Waiting \ {c} \subseteq Waiting' /\ Waiting' \subseteq Waiting
  BY <1>2 DEF StackStep, Moves
<1>4. PotentialInv'
  <2>1. \A p : Flow(First, p) # c
    BY <1>1, FlowFields DEF First, Second
  <2>2. /\ c # [op |-> "register", b |-> First] /\ c # [op |-> "runPhase", b |-> First]
    BY <1>1
  <2>3. \A p : Absorbed(p) => Absorbed(p)'
    BY <1>1 DEF Absorbed
  <2> QED BY <1>1, <1>3, <2>1, <2>2, <2>3 DEF PotentialInv
<1>5. WatchInv'
  BY <1>1, <1>3, WatchStays, BodyDomains
<1>6. \A d \in {} : d.op \in {"solve", "ask"}
  OBVIOUS
<1> QED BY <1>1, <1>2, <1>4, <1>5, <1>6, ToldStep

LEMMA FirstFlowInv ==
    ASSUME IdealInv, NEW c \in Innermost, NonOneFlow(c), c.b # Second
    PROVE  IdealInv'
<1> DEFINE A == {[op |-> "solve", b |-> c.b]}
           B == {[op |-> "ask", b |-> c.b, n |-> c.n, w |-> c.w]}
           body == <<A, B>>
           s == StmtOf(c.n)
           new == Combined(s, c.w)
<1>1. /\ agenda \in Seq(SUBSET Call) /\ timedoutSolver = NoTimeout /\ Types
      /\ c.op = "nonOneFlow" /\ Return(c, body)
      /\ potentialStrongUpdates' = [potentialStrongUpdates EXCEPT ![s] = new]
      /\ UNCHANGED <<witnesses, phase, timedoutSolver, watch, nonOneFlowNodes, listeners,
                     history>>
      /\ potentialStrongUpdates \in [Stmt -> Weight \cup {NoWeight}]
      /\ nonOneFlowNodes \subseteq Node \X Weight
      /\ PotentialInv /\ WatchInv
  BY InTime DEF NonOneFlow, IdealInv, Types
<1>2. c \in Call /\ c \in Waiting
  BY <1>1, Returns
<1>3. /\ c.b \in Boomerang /\ c.n \in Node /\ c.w \in Weight /\ s \in Stmt
      /\ c = [op |-> "nonOneFlow", b |-> c.b, n |-> c.n, w |-> c.w]
  BY <1>1, <1>2, OtherArguments, IdealAssumption
<1>4. A \in SUBSET Call /\ B \in SUBSET Call
  BY <1>3, OtherTypes
<1>5. /\ \A d \in A : d.op = "solve" /\ d.b = c.b
      /\ \A d \in B : d.op = "ask" /\ d.b = c.b
      /\ B # {}
  OBVIOUS
<1>6. /\ new \in Weight /\ new # NoWeight /\ CombineWith(new, c.w) = new
      /\ \A x \in Weight :
           /\ potentialStrongUpdates[s] # NoWeight
           /\ CombineWith(potentialStrongUpdates[s], x) = potentialStrongUpdates[s]
           => CombineWith(new, x) = new
  BY <1>1, <1>3, CombinedAbsorbs
<1> HIDE DEF A, B, new
<1>7. DOMAIN body = {1, 2} /\ body[1] = A /\ body[2] = B
  BY BodyDomains
<1>8. StackStep(c, 2, body, A \cup B)
  BY <1>1, <1>4, Returns
<1>13. body \in Seq(SUBSET Call)
  BY <1>4, LoopTypes
<1> HIDE DEF body
<1>9. /\ Shifted(c, 2, body) /\ Waiting \ {c} \subseteq Waiting'
      /\ Waiting' \subseteq Waiting \cup A \cup B
  BY <1>8 DEF StackStep, Moves
<1>10. /\ potentialStrongUpdates'[s] = new
       /\ \A r \in Stmt : r # s => potentialStrongUpdates'[r] = potentialStrongUpdates[r]
  BY <1>1, <1>3
<1>11. PotentialInv'
  <2>1. \/ First \in listeners'
        \/ [op |-> "register", b |-> First] \in Waiting'
        \/ [op |-> "runPhase", b |-> First] \in Waiting'
    BY <1>1, <1>9 DEF PotentialInv
  <2>2. \A p \in nonOneFlowNodes : StmtOf(p[1]) \in Stmt /\ p[2] \in Weight
    BY <1>1, IdealAssumption
  <2>3. ASSUME NEW p \in nonOneFlowNodes, Absorbed(p) PROVE Absorbed(p)'
    <3>1. CASE StmtOf(p[1]) = s
      BY <1>6, <1>10, <2>2, <2>3, <3>1 DEF Absorbed
    <3>2. CASE StmtOf(p[1]) # s
      BY <1>10, <2>2, <2>3, <3>2 DEF Absorbed
    <3> QED BY <3>1, <3>2
  <2>4. ASSUME NEW p \in nonOneFlowNodes, Flow(First, p) = c PROVE Absorbed(p)'
    <3>1. p[1] = c.n /\ p[2] = c.w
      BY <2>4, FlowFields
    <3> QED BY <1>6, <1>10, <3>1 DEF Absorbed
  <2>5. ASSUME First \in listeners', NEW p \in nonOneFlowNodes'
        PROVE  Absorbed(p)' \/ Flow(First, p) \in Waiting'
    <3>1. Absorbed(p) \/ Flow(First, p) \in Waiting
      BY <1>1, <2>5 DEF PotentialInv
    <3> QED BY <1>1, <1>9, <2>3, <2>4, <2>5, <3>1
  <2>6. \A d \in Waiting' : d.op = "nonOneFlow" => <<d.n, d.w>> \in nonOneFlowNodes'
    BY <1>1, <1>5, <1>9 DEF PotentialInv
  <2>7. \A r \in Stmt : potentialStrongUpdates'[r] # NoWeight =>
          \E p \in nonOneFlowNodes' : StmtOf(p[1]) = r
    <3>1. <<c.n, c.w>> \in nonOneFlowNodes
      BY <1>1, <1>2 DEF PotentialInv
    <3>2. \E p \in nonOneFlowNodes : StmtOf(p[1]) = s
      BY <3>1
    <3> QED BY <1>1, <1>10, <3>2 DEF PotentialInv
  <2> QED BY <2>1, <2>5, <2>6, <2>7 DEF PotentialInv
<1>12. ASSUME NEW b \in Boomerang, NEW i \in DOMAIN agenda, Work(b) \in agenda[i]
       PROVE  /\ watch'[b] \/ AskedBetween(0, i + 2, b)'
              /\ \A m \in DOMAIN body : \A d \in body[m] :
                   /\ d.op # "runPhase"
                   /\ d.op \in {"solve", "solved"} /\ d.b = b => AskedBetween(m, i + 2, b)'
  <2>1. watch'[b] \/ AskedBetween(0, i + 2, b)'
    <3>1. watch[b] \/ AskedBetween(0, i, b)
      BY <1>1, <1>12 DEF WatchInv, Work
    <3>2. AskedBetween(0, i, b) => AskedBetween(0, i + 2, b)'
      BY <1>1, <1>9, StillSet
    <3> QED BY <1>1, <3>1, <3>2
  <2>2. ASSUME c.b = b PROVE AskedBetween(1, i + 2, b)'
    <3>1. i \in Int /\ 1 <= i /\ 2 \in DOMAIN agenda' /\ agenda'[2] = B
      <4>1. Stacked(c, body)
        BY <1>1, <1>13, ReturnStack
      <4> QED BY <1>7, <1>9, <4>1 DEF Stacked, Shifted
    <3> QED BY <1>5, <2>2, <3>1 DEF AskedBetween
  <2> QED BY <1>5, <1>7, <2>1, <2>2
<1>14. \A b \in Boomerang, m \in DOMAIN body : Work(b) \notin body[m]
  BY <1>5, <1>7 DEF Work
<1>15. WatchInv'
  BY <1>1, <1>9, <1>12, <1>14, WatchShifts
<1>16. potentialStrongUpdates' \in [Stmt -> Weight \cup {NoWeight}]
  BY <1>1, <1>6
<1>17. \A d \in A \cup B : d.op \in {"solve", "ask"}
  BY <1>5
<1> QED BY <1>1, <1>8, <1>11, <1>15, <1>16, <1>17, ToldStep

(***************************************************************************)
(* A phase starts.                                                         *)
(***************************************************************************)
\* When no call of a listener is waiting, a listener with a witness has called
\* witnessFound, and only such a listener has.
LEMMA AllHeard ==
    ASSUME Types, WitnessInv, timedoutSolver = NoTimeout,
           \A d \in Waiting : d.op \notin WitnessOps
    PROVE  \A i \in subscribed : HasWitness(i.solver, i.n) => i \in found
<1> SUFFICES ASSUME NEW i \in subscribed, HasWitness(i.solver, i.n)
             PROVE  i \in found
  OBVIOUS
<1>1. Heard /\ Matched
  BY DEF WitnessInv
<1>2. PICK t \in fieldTrans, u \in callTrans :
        /\ t.solver = i.solver /\ t.n = i.n /\ u.solver = i.solver /\ u.n = i.n
        /\ FactOf(t.target) = FactOf(u.target) /\ FactOf(t.target) # NoFact
  BY DEF HasWitness
<1>3. Listens(i, t) /\ Listens(i, u)
  BY <1>2 DEF Listens
<1>4. i \in inFields
  BY <1>1 DEF Heard, InFields, HasWitness, WitnessOps
<1>5. i \in inCalls
  BY <1>1, <1>4 DEF Heard, InCalls, WitnessOps
<1>6. <<i, t.target>> \in fieldCand
  <2>1. KnowsField(i, t)
    BY <1>1, <1>3, <1>4 DEF Heard
  <2> QED BY <1>2, <2>1, CallFields DEF KnowsField, WitnessOps
<1>7. <<i, FactOf(u.target)>> \in callCand
  <2>1. KnowsCall(i, u)
    BY <1>1, <1>3, <1>5 DEF Heard
  <2> QED BY <1>2, <2>1, CallFields DEF KnowsCall, WitnessOps
<1>8. \A p \in fieldCand, q \in callCand :
        p[1] = q[1] /\ FactOf(p[2]) = q[2] => p[1] \in found
  BY <1>1 DEF Matched
<1>9. <<i, t.target>>[1] \in found
  BY <1>2, <1>6, <1>7, <1>8
<1> QED BY <1>9

\* The start of the second phase has nothing else to wait for.
LEMMA LastWaits ==
    ASSUME PhaseInv, 1 \in DOMAIN agenda, Second_ \in agenda[1],
           DOMAIN agenda \subseteq Nat \ {0}
    PROVE  Waiting = {Second_} /\ DOMAIN agenda = {1} /\ agenda[1] = {Second_} /\ strong = {}
<1>1. /\ agenda[1] = {Second_} /\ strong = {}
      /\ \A i \in DOMAIN agenda : i # 1 => i < 1
  BY DEF PhaseInv, Second_
<1>2. DOMAIN agenda = {1}
  BY <1>1
<1> QED BY <1>1, <1>2 DEF Waiting

LEMMA RunPhaseInv == ASSUME IdealInv, NEW c \in Innermost, RunPhase(c) PROVE IdealInv'
<1> DEFINE A == {[op |-> "solve", b |-> c.b]}
           B == {[op |-> "register", b |-> c.b]}
           body == <<A, B>>
<1>1. /\ agenda \in Seq(SUBSET Call) /\ timedoutSolver = NoTimeout
      /\ Types /\ WitnessInv /\ PotentialInv /\ WatchInv /\ PhaseInv /\ StrongOnlyIfSure
      /\ c.op = "runPhase" /\ Return(c, body)
      /\ phase' = IF c.b = First THEN "ObjectFlow" ELSE "ValueFlow"
      /\ foreign' = IF c.b = First THEN {} ELSE ForeignNow
      /\ solvers' = solvers \cup {[b |-> c.b, q |-> seed]}
      /\ UNCHANGED <<fieldTrans, callTrans, reached, asked, fieldCand, callCand, found>>
      /\ UNCHANGED <<timedoutSolver, watch, weights, strong>>
  BY InTime DEF RunPhase, IdealInv, Types
<1>2. c \in Call /\ c \in Waiting /\ 1 \in DOMAIN agenda /\ c \in agenda[1]
  BY <1>1, Returns
<1>3. c.b \in Boomerang /\ c = [op |-> "runPhase", b |-> c.b]
  BY <1>1, <1>2, OtherArguments
<1>4. A \in SUBSET Call /\ B \in SUBSET Call
  BY <1>3, OtherTypes
<1>5. /\ \A d \in A : d.op = "solve" /\ d.b = c.b
      /\ \A d \in B : d.op = "register" /\ d.b = c.b
      /\ [op |-> "register", b |-> c.b] \in B
  OBVIOUS
<1>6. body \in Seq(SUBSET Call)
  BY <1>4, LoopTypes
<1> HIDE DEF A, B
<1>7. DOMAIN body = {1, 2} /\ body[1] = A /\ body[2] = B /\ Len(body) = 2
  BY BodyDomains
<1>8. StackStep(c, 2, body, A \cup B)
  BY <1>1, <1>4, Returns
<1> HIDE DEF body
<1>9. /\ Shifted(c, 2, body) /\ Waiting \ {c} \subseteq Waiting'
      /\ Moves(c, A \cup B) /\ A \cup B \subseteq Waiting'
      /\ Waiting' \subseteq Waiting \cup A \cup B
  BY <1>8 DEF StackStep, Moves
<1>10. \A d \in A \cup B : d.op \in {"solve", "register"}
  BY <1>5
<1>11. Types'
  <2>1. solvers' \subseteq Solver
    BY <1>1, <1>3, IdealAssumption DEF Types, Solver
  <2> QED BY <1>1, <1>8, <2>1 DEF Types, asked, weights, StackStep
<1>12. WitnessInv'
  <2>1. c.op \notin WitnessOps /\ \A d \in A \cup B : d.op \notin WitnessOps
    BY <1>1, <1>10 DEF WitnessOps
  <2> QED BY <1>1, <1>9, <2>1, WitnessStays
<1>13. PotentialInv'
  <2>1. \/ First \in listeners'
        \/ [op |-> "register", b |-> First] \in Waiting'
        \/ [op |-> "runPhase", b |-> First] \in Waiting'
    <3>1. c = [op |-> "runPhase", b |-> First] => [op |-> "register", b |-> First] \in Waiting'
      BY <1>5, <1>9
    <3>2. c # [op |-> "register", b |-> First]
      BY <1>1
    <3> QED BY <1>1, <1>9, <3>1, <3>2 DEF PotentialInv, weights
  <2>2. \A p : (Absorbed(p) => Absorbed(p)') /\ Flow(First, p) # c
    BY <1>1, FlowFields DEF Absorbed, weights
  <2> QED BY <1>1, <1>9, <1>10, <2>1, <2>2 DEF PotentialInv, weights
<1>14. WatchInv'
  <2>1. \A b \in Boomerang, i \in DOMAIN agenda : Work(b) \notin agenda[i]
    <3>1. \A i \in DOMAIN agenda : 1 <= i
      BY <1>9 DEF Shifted
    <3> QED BY <1>1, <1>2, <3>1 DEF WatchInv, Work
  <2>2. \A b \in Boomerang, m \in DOMAIN body : Work(b) \notin body[m]
    BY <1>5, <1>7 DEF Work
  <2> QED BY <1>1, <1>9, <2>1, <2>2, WatchShifts
<1>15. CASE c.b = First
  <2>1. \A i \in DOMAIN body : \A d \in body[i] : d.op # "runPhase"
    BY <1>5, <1>7
  <2>2. \A k \in DOMAIN agenda' : Second_ \in agenda'[k] =>
          /\ agenda'[k] = {Second_}
          /\ \A i \in DOMAIN agenda' : i # k => i < k
          /\ phase # "ValueFlow" /\ strong = {}
    BY <1>1, <1>9, <2>1, LastStays
  <2>3. PhaseInv'
    BY <1>1, <1>15, <2>2 DEF PhaseInv, Second_
  <2>4. StrongOnlyIfSure'
    BY <1>1, <1>15 DEF StrongOnlyIfSure
  <2> QED BY <1>11, <1>12, <1>13, <1>14, <2>3, <2>4 DEF IdealInv
<1>16. CASE c.b # First
  <2>1. c = Second_
    BY <1>3, <1>16, IdealAssumption DEF Second_
  <2>2. DOMAIN agenda \subseteq Nat \ {0}
    BY <1>9 DEF Shifted
  <2>3. Waiting = {Second_} /\ DOMAIN agenda = {1} /\ agenda[1] = {Second_} /\ strong = {}
    BY <1>1, <1>2, <2>1, <2>2, LastWaits
  <2>4. \A k \in DOMAIN agenda' : Second_ \notin agenda'[k]
    <3>1. Stacked(c, body)
      BY <1>1, <1>6, ReturnStack
    <3>2. ASSUME NEW k \in DOMAIN agenda' PROVE Second_ \notin agenda'[k]
      <4>1. CASE k \in DOMAIN body /\ agenda'[k] = body[k]
        BY <1>5, <1>7, <4>1 DEF Second_
      <4>2. CASE \E m \in DOMAIN agenda : /\ k = m + Len(body)
                                          /\ agenda'[k] \subseteq agenda[m]
                                          /\ m = 1 => c \notin agenda'[k]
        BY <2>1, <2>3, <4>2
      <4> QED BY <3>1, <4>1, <4>2, LoopAfter
    <3> QED BY <3>2
  <2>5. ForeignNow \subseteq weakUpdates
    <3>1. \A d \in Waiting : d.op \notin WitnessOps
      BY <2>3 DEF Second_, WitnessOps
    <3>2. \A i \in subscribed : HasWitness(i.solver, i.n) => i \in found
      BY <1>1, <3>1, AllHeard
    <3> QED BY <3>2 DEF ForeignNow, weakUpdates
  <2>6. PhaseInv'
    BY <1>1, <1>16, <2>4, <2>5 DEF PhaseInv, Second_, weakUpdates
  <2>7. StrongOnlyIfSure'
    BY <1>1, <2>3 DEF StrongOnlyIfSure
  <2> QED BY <1>11, <1>12, <1>13, <1>14, <2>6, <2>7 DEF IdealInv
<1> QED BY <1>15, <1>16

(***************************************************************************)
(* The invariant, and what it says.                                        *)
(***************************************************************************)
LEMMA InitInv == Init => IdealInv
<1> SUFFICES ASSUME Init PROVE IdealInv
  OBVIOUS
<1> DEFINE A == {[op |-> "runPhase", b |-> First]}
           B == {[op |-> "runPhase", b |-> Second]}
<1>1. /\ solvers = {} /\ fieldTrans = {} /\ callTrans = {} /\ reached = {}
      /\ subscribed = {} /\ inFields = {} /\ inCalls = {}
      /\ fieldCand = {} /\ callCand = {} /\ found = {}
      /\ phase = "none" /\ timedoutSolver = NoTimeout
      /\ watch = [b \in Boomerang |-> FALSE]
      /\ nonOneFlowNodes = {} /\ listeners = {}
      /\ potentialStrongUpdates = [s \in Stmt |-> NoWeight]
      /\ strong = {} /\ foreign = {} /\ agenda = <<A, B>>
  BY DEF Init, WitnessInit
<1>2. A \in SUBSET Call /\ B \in SUBSET Call
  BY IdealAssumption DEF Call, PhaseCall
<1>3. /\ \A d : d \in A <=> d = [op |-> "runPhase", b |-> First]
      /\ \A d : d \in B <=> d = Second_
  BY DEF Second_
<1>4. B = {Second_}
  BY DEF Second_
<1> HIDE DEF A, B
<1>5. DOMAIN agenda = {1, 2} /\ agenda[1] = A /\ agenda[2] = B
  BY <1>1, BodyDomains
<1>6. agenda \in Seq(SUBSET Call)
  BY <1>1, <1>2, LoopTypes
<1>7. \A d \in Waiting : d.op = "runPhase"
  BY <1>3, <1>5 DEF Waiting, Second_
<1>8. [op |-> "runPhase", b |-> First] \in Waiting
  BY <1>3, <1>5 DEF Waiting
<1>9. Types
  BY <1>1, <1>6 DEF Types
<1>10. WitnessInv
  <2>1. Heard /\ Matched
    BY <1>1 DEF Heard, Matched
  <2>2. Grounded
    BY <1>1, <1>7 DEF Grounded
  <2> QED BY <2>1, <2>2 DEF WitnessInv
<1>11. PotentialInv
  BY <1>1, <1>7, <1>8 DEF PotentialInv
<1>12. WatchInv
  <2>1. \A b \in Boomerang, i \in DOMAIN agenda : Work(b) \notin agenda[i]
    BY <1>3, <1>5 DEF Work, Second_
  <2> QED BY <2>1 DEF WatchInv, Work
<1>13. PhaseInv
  <2>1. ASSUME NEW k \in DOMAIN agenda, Second_ \in agenda[k]
        PROVE  k = 2
    <3>1. Second_ # [op |-> "runPhase", b |-> First]
      BY DEF Second_, First, Second
    <3> QED BY <1>3, <1>5, <2>1, <3>1
  <2> QED BY <1>1, <1>4, <1>5, <2>1 DEF PhaseInv, Second_
<1>14. StrongOnlyIfSure
  BY <1>1 DEF StrongOnlyIfSure
<1> QED BY <1>9, <1>10, <1>11, <1>12, <1>13, <1>14 DEF IdealInv

LEMMA NextInv == IdealInv /\ [Next]_vars => IdealInv'
<1> SUFFICES ASSUME IdealInv, [Next]_vars PROVE IdealInv'
  OBVIOUS
<1>1. CASE EndLoop
  BY <1>1, EndLoopInv
<1>2. ASSUME NEW c \in Innermost,
             \/ RunPhase(c) \/ Solve(c) \/ Solved(c) \/ NonOneFlow(c) \/ AskSolvers(c)
             \/ AddOtherThanOneWeight(c) \/ RegisterListener(c) \/ WorkDone(c)
             \/ WitnessCall(c) /\ UNCHANGED <<phase, timedoutSolver, watch, weights, history>>
      PROVE  IdealInv'
  <2>1. CASE NonOneFlow(c)
    BY <2>1, FirstFlowInv, SecondFlowInv
  <2>2. CASE WitnessCall(c) /\ UNCHANGED <<phase, timedoutSolver, watch, weights, history>>
    BY <2>2, WitnessCallInv
  <2> QED BY <1>2, <2>1, <2>2, RunPhaseInv, SolveInv, SolvedInv, AskSolversInv,
             AddOtherThanOneWeightInv, RegisterListenerInv, WorkDoneInv
<1>3. CASE Step
  BY <1>1, <1>2, <1>3 DEF Step
<1>4. CASE Environment
  <2>1. ASSUME NEW b \in Boomerang, NEW q \in ForwardQuery, ForwardSolve(b, q)
        PROVE  IdealInv'
    BY <2>1, ForwardSolveInv
  <2>2. ASSUME NEW b \in Boomerang, NEW r \in Rule, SeedRule(b, r) PROVE IdealInv'
    BY <2>2, SeedRuleInv
  <2>3. ASSUME NEW b \in Boomerang, NEW p \in Connects, Connect(b, p) PROVE IdealInv'
    BY <2>3, ConnectInv
  <2>4. ASSUME NEW t, AddTransition(t) PROVE IdealInv'
    BY <2>4, AddTransitionInv
  <2>5. ASSUME NEW s \in solvers, NEW n \in Node, ReachNode(s, n) PROVE IdealInv'
    BY <2>5, ReachNodeInv
  <2>6. ASSUME NEW s \in solvers, Timeout(s) PROVE IdealInv'
    BY <2>6, TimeoutInv
  <2> QED BY <1>4, <2>1, <2>2, <2>3, <2>4, <2>5, <2>6 DEF Environment
<1>5. CASE UNCHANGED vars
  BY <1>5, StutterInv
<1> QED BY <1>3, <1>4, <1>5 DEF Next

\* In a finished analysis nobody waits.
LEMMA InvPotential == IdealInv => PotentialComplete
<1> SUFFICES ASSUME IdealInv, Finished, NEW s \in Stmt,
                    NEW ws, ws = {p[2] : p \in {f \in nonOneFlowNodes : StmtOf(f[1]) = s}}
             PROVE  IF ws = {} THEN potentialStrongUpdates[s] = NoWeight
                    ELSE /\ potentialStrongUpdates[s] # NoWeight
                         /\ \A w \in ws : CombineWith(potentialStrongUpdates[s], w)
                                            = potentialStrongUpdates[s]
  BY DEF PotentialComplete
<1>1. PotentialInv /\ timedoutSolver = NoTimeout /\ Waiting = {}
  BY DEF IdealInv, Finished, Idle, Waiting
<1>2. First \in listeners /\ \A p \in nonOneFlowNodes : Absorbed(p)
  BY <1>1 DEF PotentialInv
<1>3. CASE ws = {}
  <2>1. ~\E p \in nonOneFlowNodes : StmtOf(p[1]) = s
    BY <1>3
  <2> QED BY <1>1, <1>3, <2>1 DEF PotentialInv
<1>4. CASE ws # {}
  <2>1. ASSUME NEW w \in ws
        PROVE  /\ potentialStrongUpdates[s] # NoWeight
               /\ CombineWith(potentialStrongUpdates[s], w) = potentialStrongUpdates[s]
    <3>1. PICK p \in nonOneFlowNodes : StmtOf(p[1]) = s /\ p[2] = w
      BY <2>1
    <3> QED BY <1>2, <3>1 DEF Absorbed
  <2> QED BY <1>4, <2>1
<1> QED BY <1>3, <1>4

LEMMA InvWeakUpdates == IdealInv => WeakUpdatesExact
<1> SUFFICES ASSUME IdealInv, Finished PROVE weakUpdates = ForeignNow
  BY DEF WeakUpdatesExact
<1>1. /\ Types /\ WitnessInv /\ timedoutSolver = NoTimeout
      /\ \A d \in Waiting : d.op \notin WitnessOps
  BY DEF IdealInv, Finished, Idle, Waiting
<1>2. \A i \in subscribed : HasWitness(i.solver, i.n) => i \in found
  BY <1>1, AllHeard
<1>3. ASSUME NEW i \in found PROVE i \in subscribed /\ HasWitness(i.solver, i.n)
  <2>1. Called(i) /\ \E f \in Fact : FieldSeen(i, f) /\ CallSeen(i, f)
    BY <1>1 DEF WitnessInv, Grounded
  <2>2. PICK f \in Fact : FieldSeen(i, f) /\ CallSeen(i, f)
    BY <2>1
  <2>3. PICK t \in fieldTrans : Listens(i, t) /\ FactOf(t.target) = f /\ f # NoFact
    BY <2>2 DEF FieldSeen
  <2>4. PICK u \in callTrans : Listens(i, u) /\ FactOf(u.target) = f
    BY <2>2 DEF CallSeen
  <2> QED BY <2>1, <2>3, <2>4 DEF Called, HasWitness, Listens
<1> QED BY <1>2, <1>3 DEF weakUpdates, ForeignNow

LEMMA InvWatch == IdealInv => WatchRuns
<1> SUFFICES ASSUME IdealInv, NEW b \in Boomerang, Working(b) PROVE watch[b]
  BY DEF WatchRuns
<1>1. agenda \in Seq(SUBSET Call) /\ WatchInv
  BY DEF IdealInv, Types
<1>2. 1 \in DOMAIN agenda /\ Work(b) \in agenda[1] /\ DOMAIN agenda \subseteq Nat \ {0}
  BY <1>1 DEF Working, Innermost, Work
<1>3. watch[b] \/ AskedBetween(0, 1, b)
  BY <1>1, <1>2 DEF WatchInv, Work
<1>4. ~AskedBetween(0, 1, b)
  BY <1>2 DEF AskedBetween
<1> QED BY <1>3, <1>4

LEMMA InvAlways == Spec => []IdealInv
<1> QED BY InitInv, NextInv, PTL DEF Spec

\* When the analysis of a seed has finished in time, the potential strong
\* update of each statement combines exactly the weights announced for it,
\* whichever came before the listener registered.  (registerListener,
\* addOtherThanOneWeight, potentialStrongUpdate)
THEOREM AlwaysPotentialComplete == Spec => []PotentialComplete
<1> QED BY InvAlways, InvPotential, PTL

\* Then a statement is updated weakly exactly if a forward solver of another
\* site that was asked about one of its nodes has a witness for it, whatever
\* the order of question, node and transitions.  (synchedReachable,
\* synchedEmptyStackReachable, WitnessListener)
THEOREM AlwaysWeakUpdatesExact == Spec => []WeakUpdatesExact
<1> QED BY InvAlways, InvWeakUpdates, PTL

\* The second phase, however it interleaves with listeners of the first, makes
\* no strong update at a statement another allocation site was known to reach
\* when it started.  (IDEALWeightFunctions.push, normal; IDEALSeedSolver.run)
THEOREM AlwaysStrongOnlyIfSure == Spec => []StrongOnlyIfSure
<1>1. IdealInv => StrongOnlyIfSure
  BY DEF IdealInv
<1> QED BY <1>1, InvAlways, PTL

\* A boomerang that works has its watch running, however deep the queries are
\* nested that its weights have started.  (WeightedBoomerang.solve, nonOneFlow)
THEOREM AlwaysWatchRuns == Spec => []WatchRuns
<1> QED BY InvAlways, InvWatch, PTL
=============================================================================
