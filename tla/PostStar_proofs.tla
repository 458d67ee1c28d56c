--------------------------- MODULE PostStar_proofs ---------------------------
(***************************************************************************)
(* Theorems about PostStar, for every pushdown system, weight domain and   *)
(* order of calls: the type invariant, and that the automaton is saturated *)
(* whenever the outermost call has returned.                               *)
(***************************************************************************)
EXTENDS PostStarInvariant, CallStack_proofs, TLAPS

(***************************************************************************)
(* The calls in a sequence of loops, and how Return changes them.          *)
(***************************************************************************)
LEMMA CallsOfTuples ==
    ASSUME NEW A, NEW B, NEW C
    PROVE  /\ CallsOf(<<>>) = {}
           /\ CallsOf(<<A>>) = A
           /\ CallsOf(<<A, B>>) = A \cup B
           /\ CallsOf(<<A, B, C>>) = A \cup B \cup C
BY DEF CallsOf

LEMMA CallsOfConcat ==
    ASSUME NEW r \in Seq(SUBSET Call), NEW s \in Seq(SUBSET Call)
    PROVE  CallsOf(r \o s) = CallsOf(r) \cup CallsOf(s)
<1>1. CallsOf(r \o s) \subseteq CallsOf(r) \cup CallsOf(s)
  BY DEF CallsOf
<1>2. CallsOf(r) \subseteq CallsOf(r \o s)
  BY DEF CallsOf
<1>3. ASSUME NEW i \in DOMAIN s PROVE s[i] \subseteq CallsOf(r \o s)
  <2>1. Len(r) + i \in DOMAIN (r \o s) /\ (r \o s)[Len(r) + i] = s[i]
    OBVIOUS
  <2> QED BY <2>1 DEF CallsOf
<1> QED BY <1>1, <1>2, <1>3 DEF CallsOf

\* Return makes the calls of its body and drops no call but c.
LEMMA ReturnCalls ==
    ASSUME agenda \in Seq(SUBSET Call), agenda # <<>>,
           NEW c, NEW body \in Seq(SUBSET Call), Return(c, body)
    PROVE  /\ agenda' \in Seq(SUBSET Call)
           /\ Todo' \subseteq CallsOf(body) \cup Todo
           /\ CallsOf(body) \subseteq Todo'
           /\ Todo \ {c} \subseteq Todo'
<1> DEFINE rest == <<Head(agenda) \ {c}>>
<1>1. /\ rest \in Seq(SUBSET Call) /\ Tail(agenda) \in Seq(SUBSET Call)
      /\ <<Head(agenda)>> \in Seq(SUBSET Call)
      /\ agenda = <<Head(agenda)>> \o Tail(agenda)
  OBVIOUS
<1>2. Todo = Head(agenda) \cup CallsOf(Tail(agenda))
  <2>1. CallsOf(agenda) = CallsOf(<<Head(agenda)>>) \cup CallsOf(Tail(agenda))
    BY <1>1, CallsOfConcat
  <2> QED BY <2>1, CallsOfTuples DEF Todo
<1>3. agenda' = (body \o rest) \o Tail(agenda)
  BY DEF Return
<1>4. body \o rest \in Seq(SUBSET Call)
  BY <1>1
<1>5. CallsOf(body \o rest) = CallsOf(body) \cup (Head(agenda) \ {c})
  <2>1. CallsOf(body \o rest) = CallsOf(body) \cup CallsOf(rest)
    BY <1>1, CallsOfConcat
  <2> QED BY <2>1, CallsOfTuples
<1>6. Todo' = CallsOf(body) \cup (Head(agenda) \ {c}) \cup CallsOf(Tail(agenda))
  <2>1. CallsOf((body \o rest) \o Tail(agenda))
          = CallsOf(body \o rest) \cup CallsOf(Tail(agenda))
    BY <1>1, <1>4, CallsOfConcat
  <2>2. Todo' = CallsOf(agenda')
    BY DEF Todo
  <2> QED BY <2>1, <2>2, <1>3, <1>5
<1>7. agenda' \in Seq(SUBSET Call)
  <2> HIDE DEF rest
  <2> QED BY <1>1, <1>3, <1>4
<1> QED BY <1>2, <1>6, <1>7

\* A call of the client puts its loops on top.
LEMMA ClientCalls ==
    ASSUME agenda \in Seq(SUBSET Call), NEW body \in Seq(SUBSET Call),
           agenda' = body \o agenda
    PROVE  agenda' \in Seq(SUBSET Call) /\ Todo' = CallsOf(body) \cup Todo
<1>1. CallsOf(body \o agenda) = CallsOf(body) \cup CallsOf(agenda)
  BY CallsOfConcat
<1>2. Todo' = CallsOf(agenda')
  BY DEF Todo
<1> QED BY <1>1, <1>2 DEF Todo

(***************************************************************************)
(* Types.                                                                  *)
(***************************************************************************)
\* A call has the fields its operation needs.
LEMMA CallFields ==
    ASSUME NEW c \in Call
    PROVE  /\ c.op = "add" => c.t \in Transition /\ c.w \in Weight
           /\ c.op \in {"notifyOut", "notifyIn"} =>
                c.t \in Transition /\ c.w \in Weight
           /\ c.op = "hear" => /\ c.l \in Listener /\ c.t \in Transition
                               /\ c.w \in Weight
           /\ c.op = "replay" => c.l \in Listener /\ c.t \in Transition
           /\ c.op = "register" => c.l \in Listener
           /\ c.op = "unbalanced" => /\ c.s \in State /\ c.t \in Transition
                                     /\ c.w \in Weight
           /\ c.op = "reconnect" => c.e \in ReconnectEntry
BY DEF Call, EffectCall, AddCall, NotifyCall, HearCall, ReplayCall, RegisterCall,
       UnbalancedCall, ReconnectCall, ClientCall

\* A listener of each kind has the fields its handler reads.
LEMMA ListenerKinds ==
    ASSUME NEW l \in Listener
    PROVE  /\ l.kind = "normal" => l \in NormalRule
           /\ l.kind = "push" => l \in PushRule
           /\ l.kind = "pop" => l \in PopRule
           /\ l.kind = "transitive" => l \in TransitiveListener
           /\ l.kind = "epsilon" => l \in EpsilonListener
           /\ l.s1 \in State
BY DEF Listener, Rule, NormalRule, PushRule, PopRule, TransitiveListener,
       EpsilonListener

LEMMA AddType ==
    ASSUME NEW s \in State, NEW a \in Label, NEW q \in State, NEW v \in Weight
    PROVE  Add(s, a, q, v) \in SUBSET EffectCall
BY DEF Add, EffectCall, AddCall, Transition

LEMMA RegisterType ==
    ASSUME NEW l \in Listener
    PROVE  Register(l) \in SUBSET EffectCall
BY DEF Register, EffectCall, RegisterCall

LEMMA BodyType ==
    ASSUME NEW A \in SUBSET EffectCall, NEW B \in SUBSET EffectCall, NEW C \in SUBSET EffectCall
    PROVE  /\ <<>> \in Seq(SUBSET EffectCall)
           /\ <<A>> \in Seq(SUBSET EffectCall)
           /\ <<A, B>> \in Seq(SUBSET EffectCall)
           /\ <<A, B, C>> \in Seq(SUBSET EffectCall)
OBVIOUS

LEMMA NormalType ==
    ASSUME NEW r \in NormalRule, NEW t \in Transition, NEW w \in Weight
    PROVE  HandleNormal(r, t, w) \in Seq(SUBSET EffectCall)
<1>1. /\ r.s2 \in State /\ t.target \in State /\ t.label \in Label
      /\ r.l2 \in Label \cup Wildcard /\ r.w \in Weight
  BY DEF NormalRule, Transition
<1>2. Extend(w, r.w) \in Weight
  BY <1>1, WeightAssumption
<1>3. Add(r.s2, IF r.l2 \in Wildcard THEN t.label ELSE r.l2, t.target,
          Extend(w, r.w)) \in SUBSET EffectCall
  BY <1>1, <1>2, AddType
<1> QED BY <1>3, BodyType DEF HandleNormal

LEMMA PushType ==
    ASSUME NEW r \in PushRule, NEW t \in Transition, NEW w \in Weight
    PROVE  HandlePush(r, t, w) \in Seq(SUBSET EffectCall)
<1> DEFINE ir == CreateState(r.s2, r.l2)
           site == IF r.callSite \in Wildcard THEN t.label ELSE r.callSite
           push == [start |-> ir, label |-> site, target |-> t.target]
<1>1. /\ r.s2 \in State /\ r.l2 \in Label /\ r.l1 \in Label \cup Wildcard
      /\ t.target \in State /\ t.label \in Label /\ r.w \in Weight
      /\ site \in Label
  BY DEF PushRule, Transition
<1>2. ir \in State /\ Extend(w, r.w) \in Weight /\ One \in Weight
  BY <1>1, WeightAssumption, StateAssumption
<1>3. UpdateEpsilonOnPush(push, r.l1) \in Listener
  BY <1>1, <1>2 DEF UpdateEpsilonOnPush, Listener, EpsilonListener, Transition
<1> HIDE DEF ir, site, push
<1>4. /\ Add(ir, site, t.target, Extend(w, r.w)) \in SUBSET EffectCall
      /\ Add(r.s2, r.l2, ir, One) \in SUBSET EffectCall
      /\ Register(UpdateEpsilonOnPush(push, r.l1)) \in SUBSET EffectCall
  BY <1>1, <1>2, <1>3, AddType, RegisterType
<1>5. <<Add(ir, site, t.target, Extend(w, r.w)), Add(r.s2, r.l2, ir, One),
        Register(UpdateEpsilonOnPush(push, r.l1))>> \in Seq(SUBSET EffectCall)
  BY <1>4
<1> QED BY <1>5, BodyType DEF HandlePush, CallSiteLabel, ir, site, push

LEMMA PopType ==
    ASSUME NEW r \in PopRule, NEW t \in Transition, NEW w \in Weight
    PROVE  /\ Pop(r, t, w) \in Seq(SUBSET EffectCall)
           /\ Forward(r, t) \in Seq(SUBSET EffectCall)
           /\ HandlePop(r, t, w) \in Seq(SUBSET EffectCall)
<1> DEFINE v == Extend(w, r.w)
           pop == [start |-> r.s2, label |-> Eps, target |-> t.target]
           lost == [op |-> "unbalanced", s |-> r.s2, t |-> t, w |-> w]
<1>1. /\ r.s2 \in State /\ t.target \in State /\ t.label \in Label
      /\ r.w \in Weight /\ Eps \in Label
  BY LabelAssumption DEF PopRule, Transition
<1>2. v \in Weight
  BY <1>1, WeightAssumption
<1>3. /\ UpdateTransitivePop(pop, v) \in Listener
      /\ [r EXCEPT !.s1 = t.target] \in Listener
  BY <1>1, <1>2 DEF UpdateTransitivePop, Listener, TransitiveListener,
     Transition, Rule, PopRule
<1>4. lost \in EffectCall
  BY <1>1 DEF EffectCall, UnbalancedCall
<1> HIDE DEF v, pop, lost
<1>5. /\ Add(r.s2, Eps, t.target, v) \in SUBSET EffectCall
      /\ Register(UpdateTransitivePop(pop, v)) \in SUBSET EffectCall
      /\ Register([r EXCEPT !.s1 = t.target]) \in SUBSET EffectCall
      /\ {lost} \in SUBSET EffectCall
  BY <1>1, <1>2, <1>3, <1>4, AddType, RegisterType
<1>6. Pop(r, t, w) \in Seq(SUBSET EffectCall)
  BY <1>5, BodyType DEF Pop, v, pop, lost
<1>7. Forward(r, t) \in Seq(SUBSET EffectCall)
  BY <1>5, BodyType DEF Forward
<1> QED BY <1>6, <1>7 DEF HandlePop

LEMMA TransitiveType ==
    ASSUME NEW l \in TransitiveListener, NEW t \in Transition, NEW w \in Weight
    PROVE  HandleTransitive(l, t, w) \in Seq(SUBSET EffectCall)
<1>1. /\ l.t.start \in State /\ t.label \in Label /\ t.target \in State
      /\ l.w \in Weight
  BY DEF TransitiveListener, Transition
<1>2. Extend(w, l.w) \in Weight
  BY <1>1, WeightAssumption
<1>3. Add(l.t.start, t.label, t.target, Extend(w, l.w)) \in SUBSET EffectCall
  BY <1>1, <1>2, AddType
<1> QED BY <1>3 DEF HandleTransitive

LEMMA EpsilonType ==
    ASSUME TypeOK, NEW l \in EpsilonListener, NEW t \in Transition,
           NEW w \in Weight
    PROVE  HandleEpsilon(l, t, w) \in Seq(SUBSET EffectCall)
<1> DEFINE e == [callSite |-> l.callSite, returnSite |-> l.t.label,
                 fact |-> t.start, combined |-> GetWeightFor(l.t),
                 returned |-> w]
<1>1. GetWeightFor(l.t) \in SUBSET Weight
  BY DEF GetWeightFor, TypeOK
<1>2. e \in ReconnectEntry
  BY <1>1 DEF ReconnectEntry, EpsilonListener, Transition
<1> HIDE DEF e
<1>3. {[op |-> "reconnect", e |-> e]} \in SUBSET EffectCall
  BY <1>2 DEF EffectCall, ReconnectCall
<1> QED BY <1>3, BodyType DEF HandleEpsilon, e

LEMMA EffectCalls == EffectCall \subseteq Call
                       /\ Seq(SUBSET EffectCall) \subseteq Seq(SUBSET Call)
                       /\ \A c \in EffectCall : c.op # "replay"
<1>1. EffectCall \subseteq Call
  BY DEF Call
<1>2. \A c \in EffectCall : c.op # "replay"
  BY DEF EffectCall, AddCall, RegisterCall, UnbalancedCall, ReconnectCall
<1>3. ASSUME NEW s \in Seq(SUBSET EffectCall) PROVE s \in Seq(SUBSET Call)
  BY <1>1
<1> QED BY <1>1, <1>2, <1>3

\* The calls of the innermost loop are calls to be made.
LEMMA InnermostTodo ==
    ASSUME TypeOK
    PROVE  /\ Innermost \subseteq Todo /\ Todo \subseteq Call
           /\ Innermost # {} => agenda # <<>>
BY DEF TypeOK, Innermost, Todo, CallsOf

\* An effect of a listener is a call, made with arguments of the right types.
LEMMA HeardType ==
    ASSUME TypeInv, NEW c \in Innermost, c.op \in {"hear", "replay"}
    PROVE  /\ c \in Call /\ c.l \in Listener /\ c.t \in Transition
           /\ WeightOf(c) \in Weight
<1>1. c \in Call /\ c \in Todo
  BY InnermostTodo DEF TypeInv, ReplaysFind
<1>2. c.op = "replay" => weight[c.t] \in Weight
  BY <1>1 DEF TypeInv, ReplaysFind, TypeOK
<1>3. /\ c.op = "hear" => c.l \in Listener /\ c.t \in Transition /\ c.w \in Weight
      /\ c.op = "replay" => c.l \in Listener /\ c.t \in Transition
  BY <1>1, CallFields
<1> QED BY <1>1, <1>2, <1>3 DEF WeightOf

\* A listener's turn leaves the types alone, whichever effects it has.
LEMMA EffectsKeepTypes ==
    ASSUME TypeInv, NEW c \in Innermost, UNCHANGED data,
           NEW body \in Seq(SUBSET EffectCall), Return(c, body)
    PROVE  TypeInv'
<1>1. agenda \in Seq(SUBSET Call) /\ agenda # <<>> /\ body \in Seq(SUBSET Call)
  BY InnermostTodo, EffectCalls DEF TypeInv, ReplaysFind, TypeOK
<1>2. agenda' \in Seq(SUBSET Call) /\ Todo' \subseteq CallsOf(body) \cup Todo
  BY <1>1, ReturnCalls
<1>3. \A d \in CallsOf(body) : d.op # "replay"
  <2>1. CallsOf(body) \subseteq EffectCall
    BY DEF CallsOf
  <2> QED BY <2>1, EffectCalls
<1>4. TypeOK'
  BY <1>2 DEF TypeInv, ReplaysFind, TypeOK, data
<1>5. \A d \in Todo' : d.op = "replay" => d.t \in DOMAIN weight'
  BY <1>2, <1>3 DEF TypeInv, ReplaysFind, data
<1> QED BY <1>4, <1>5 DEF TypeInv, ReplaysFind

\* Combining w into an entry of m keeps its other entries.
LEMMA PutType ==
    ASSUME NEW m, NEW k, NEW w \in Weight,
           \A j \in DOMAIN m : m[j] \in Weight
    PROVE  /\ DOMAIN Put(m, k, w) = DOMAIN m \cup {k}
           /\ \A j \in DOMAIN Put(m, k, w) : Put(m, k, w)[j] \in Weight
BY WeightAssumption DEF Put

LEMMA NotifyType ==
    ASSUME NEW t \in Transition, NEW w \in Weight, NEW event
    PROVE  /\ Notify("notifyOut", t, w) \in SUBSET Call
           /\ Notify("notifyIn", t, w) \in SUBSET Call
           /\ TellClient(event) \in SUBSET Call
           /\ \A d \in Notify("notifyOut", t, w) \cup Notify("notifyIn", t, w)
                         \cup TellClient(event) : d.op # "replay"
BY DEF Notify, TellClient, Call, NotifyCall, ClientCall

LEMMA LoopType ==
    ASSUME NEW A \in SUBSET Call, NEW B \in SUBSET Call, NEW C \in SUBSET Call
    PROVE  /\ <<>> \in Seq(SUBSET Call)
           /\ <<A>> \in Seq(SUBSET Call)
           /\ <<A, B>> \in Seq(SUBSET Call)
           /\ <<A, B, C>> \in Seq(SUBSET Call)
OBVIOUS

LEMMA InitType == Init => TypeInv
<1> SUFFICES ASSUME Init PROVE TypeInv
  OBVIOUS
<1>1. TypeOK
  <2>1. agenda \in Seq(SUBSET Call)
    BY LoopType DEF Init
  <2>2. /\ DOMAIN weight \subseteq Transition
        /\ \A t \in DOMAIN weight : weight[t] \in Weight
        /\ DOMAIN unbalanced \subseteq State \X Transition
        /\ \A e \in DOMAIN unbalanced : unbalanced[e] \in Weight
    BY DEF Init
  <2> QED BY <2>1, <2>2 DEF Init, TypeOK
<1>2. Todo = {}
  BY CallsOfTuples DEF Init, Todo
<1> QED BY <1>1, <1>2 DEF TypeInv, ReplaysFind

\* Every step of the solver and of its client preserves the types.
LEMMA NextType == TypeInv /\ [Next]_vars => TypeInv'
<1> SUFFICES ASSUME TypeInv, [Next]_vars PROVE TypeInv'
  OBVIOUS
<1>1. ASSUME NEW r \in Rules, AddRule(r) PROVE TypeInv'
  <2>1. r \in Listener
    BY ClientAssumption DEF Listener
  <2>2. Register(r) \in SUBSET Call /\ \A d \in Register(r) : d.op # "replay"
    BY <2>1, RegisterType, EffectCalls
  <2>3. (IF started THEN <<Register(r)>> ELSE <<>>) \in Seq(SUBSET Call)
    BY <2>2, LoopType
  <2>4. CallsOf(IF started THEN <<Register(r)>> ELSE <<>>) \subseteq Register(r)
    BY CallsOfTuples
  <2>5. /\ agenda' \in Seq(SUBSET Call)
        /\ Todo' \subseteq Register(r) \cup Todo
    BY <1>1, <2>3, <2>4, ClientCalls DEF AddRule, TypeInv, ReplaysFind, TypeOK
  <2> QED BY <1>1, <2>2, <2>5 DEF AddRule, TypeInv, ReplaysFind, TypeOK
<1>2. ASSUME NEW f \in Seeds, AddSeed(f) PROVE TypeInv'
  <2> DEFINE first == {[op |-> "add", t |-> f.t, w |-> f.w]}
  <2>1. first \in SUBSET Call /\ \A d \in first : d.op # "replay"
    BY ClientAssumption DEF Fact, Call, EffectCall, AddCall
  <2>2. agenda' = <<first>> \o agenda
    BY <1>2 DEF AddSeed
  <2> HIDE DEF first
  <2>3. <<first>> \in Seq(SUBSET Call) /\ CallsOf(<<first>>) = first
    BY <2>1, LoopType, CallsOfTuples
  <2>4. /\ agenda' \in Seq(SUBSET Call)
        /\ Todo' \subseteq first \cup Todo
    BY <2>2, <2>3, ClientCalls DEF TypeInv, ReplaysFind, TypeOK
  <2> QED BY <1>2, <2>1, <2>4 DEF AddSeed, TypeInv, ReplaysFind, TypeOK
<1>3. CASE Poststar
  <2> DEFINE first == {[op |-> "register", l |-> r] : r \in rules}
  <2>1. first \in SUBSET Call /\ \A d \in first : d.op # "replay"
    BY ClientAssumption DEF TypeInv, ReplaysFind, TypeOK, Call, EffectCall, RegisterCall,
       Listener
  <2>2. agenda' = <<first>>
    BY <1>3 DEF Poststar
  <2> HIDE DEF first
  <2>3. agenda' \in Seq(SUBSET Call) /\ Todo' = first
    BY <2>1, <2>2, LoopType, CallsOfTuples DEF Todo
  <2> QED BY <1>3, <2>1, <2>3 DEF Poststar, TypeInv, ReplaysFind, TypeOK
<1>4. CASE EndLoop
  <2>1. /\ agenda' \in Seq(SUBSET Call)
        /\ \A i \in DOMAIN agenda' : agenda'[i] = agenda[i + 1] /\ i + 1 \in DOMAIN agenda
    BY <1>4 DEF EndLoop, TypeInv, ReplaysFind, TypeOK
  <2>2. Todo' \subseteq Todo
    BY <2>1 DEF Todo, CallsOf
  <2> QED BY <1>4, <2>1, <2>2 DEF EndLoop, TypeInv, ReplaysFind, TypeOK, data
<1>5. ASSUME NEW c \in Innermost, ClientReturn(c) PROVE TypeInv'
  BY <1>5, BodyType, EffectsKeepTypes DEF ClientReturn
<1>6. ASSUME NEW c \in Innermost, AddWeightForTransition(c) PROVE TypeInv'
  <2>1. c \in Call /\ c.t \in Transition /\ c.w \in Weight
    BY <1>6, InnermostTodo, CallFields DEF AddWeightForTransition, TypeInv, ReplaysFind
  <2> DEFINE new == Put(weight, c.t, c.w)
             client == TellClient("weight")
             out == Notify("notifyOut", c.t, new[c.t])
             in == Notify("notifyIn", c.t, new[c.t])
             body == <<client, out, in>>
  <2>2. /\ DOMAIN new = DOMAIN weight \cup {c.t}
        /\ DOMAIN new \subseteq Transition
        /\ \A t \in DOMAIN new : new[t] \in Weight
    <3>1. /\ DOMAIN weight \subseteq Transition
          /\ \A t \in DOMAIN weight : weight[t] \in Weight
      BY DEF TypeInv, ReplaysFind, TypeOK
    <3>2. /\ DOMAIN Put(weight, c.t, c.w) = DOMAIN weight \cup {c.t}
          /\ \A t \in DOMAIN Put(weight, c.t, c.w) :
                Put(weight, c.t, c.w)[t] \in Weight
      BY <2>1, <3>1, PutType
    <3> QED BY <2>1, <3>1, <3>2
  <2>3. CASE weight' = weight /\ Return(c, <<>>)
    BY <1>6, <2>3, BodyType, EffectsKeepTypes DEF AddWeightForTransition, data
  <2>4. CASE weight' = new /\ Return(c, body)
    <3>1. /\ client \in SUBSET Call /\ out \in SUBSET Call /\ in \in SUBSET Call
          /\ \A d \in client \cup out \cup in : d.op # "replay"
      BY <2>1, <2>2, NotifyType
    <3> HIDE DEF new, client, out, in
    <3>2. body \in Seq(SUBSET Call)
      BY <3>1, LoopType
    <3>6. CallsOf(body) = client \cup out \cup in
      BY DEF CallsOf
    <3> HIDE DEF body
    <3>3. agenda' \in Seq(SUBSET Call) /\ Todo' \subseteq CallsOf(body) \cup Todo
      BY <2>4, <3>2, InnermostTodo, ReturnCalls DEF TypeInv, ReplaysFind, TypeOK
    <3>4. TypeOK'
      BY <1>6, <2>2, <2>4, <3>3 DEF AddWeightForTransition, TypeInv, ReplaysFind, TypeOK
    <3>5. \A d \in Todo' : d.op = "replay" => d.t \in DOMAIN weight'
      BY <2>2, <2>4, <3>1, <3>3, <3>6 DEF TypeInv, ReplaysFind
    <3> QED BY <3>4, <3>5 DEF TypeInv, ReplaysFind
  <2> QED BY <1>6, <2>3, <2>4 DEF AddWeightForTransition
<1>7. ASSUME NEW c \in Innermost, NotifyListeners(c) PROVE TypeInv'
  <2> DEFINE told == {k \in listeners :
                        /\ Hears(k, c.t)
                        /\ (k.kind = "epsilon") <=> (c.op = "notifyIn")}
             first == {[op |-> "hear", l |-> l, t |-> c.t, w |-> c.w] : l \in told}
  <2>1. c \in Call /\ c.t \in Transition /\ c.w \in Weight
    BY <1>7, InnermostTodo, CallFields DEF NotifyListeners, TypeInv, ReplaysFind
  <2>2. told \subseteq Listener
    BY DEF TypeInv, ReplaysFind, TypeOK
  <2>3. Return(c, <<first>>)
    BY <1>7 DEF NotifyListeners
  <2> HIDE DEF told
  <2>4. first \in SUBSET Call /\ \A d \in first : d.op # "replay"
    BY <2>1, <2>2 DEF Call, HearCall
  <2> HIDE DEF first
  <2>5. <<first>> \in Seq(SUBSET Call) /\ CallsOf(<<first>>) = first
    BY <2>4, LoopType, CallsOfTuples
  <2>6. agenda' \in Seq(SUBSET Call) /\ Todo' \subseteq first \cup Todo
    BY <2>3, <2>5, InnermostTodo, ReturnCalls DEF TypeInv, ReplaysFind, TypeOK
  <2> QED BY <1>7, <2>4, <2>6 DEF NotifyListeners, TypeInv, ReplaysFind, TypeOK, data
<1>8. ASSUME NEW c \in Innermost, RegisterListener(c) PROVE TypeInv'
  <2>1. c \in Call /\ c.l \in Listener
    BY <1>8, InnermostTodo, CallFields DEF RegisterListener, TypeInv, ReplaysFind
  <2>2. /\ Replay(c.l) \in SUBSET Call
        /\ \A d \in Replay(c.l) : d.t \in DOMAIN weight
    BY <2>1 DEF Replay, TypeInv, ReplaysFind, TypeOK, Call, ReplayCall
  <2> DEFINE body == IF c.l \in listeners THEN <<>> ELSE <<Replay(c.l)>>
  <2>3. body \in Seq(SUBSET Call) /\ CallsOf(body) \subseteq Replay(c.l)
    BY <2>2, LoopType, CallsOfTuples
  <2>4. Return(c, body)
    BY <1>8 DEF RegisterListener
  <2> HIDE DEF body
  <2>5. agenda' \in Seq(SUBSET Call) /\ Todo' \subseteq Replay(c.l) \cup Todo
    BY <2>3, <2>4, InnermostTodo, ReturnCalls DEF TypeInv, ReplaysFind, TypeOK
  <2> QED BY <1>8, <2>1, <2>2, <2>5 DEF RegisterListener, TypeInv, ReplaysFind, TypeOK
<1>9. ASSUME NEW c \in Innermost, OnNormal(c) PROVE TypeInv'
  <2>1. HandleNormal(c.l, c.t, WeightOf(c)) \in Seq(SUBSET EffectCall)
    BY <1>9, HeardType, ListenerKinds, NormalType DEF OnNormal, Heard
  <2> QED BY <1>9, <2>1, EffectsKeepTypes DEF OnNormal
<1>10. ASSUME NEW c \in Innermost, OnPush(c) PROVE TypeInv'
  <2>1. HandlePush(c.l, c.t, WeightOf(c)) \in Seq(SUBSET EffectCall)
    BY <1>10, HeardType, ListenerKinds, PushType DEF OnPush, Heard
  <2> QED BY <1>10, <2>1, EffectsKeepTypes DEF OnPush
<1>11. ASSUME NEW c \in Innermost, OnPop(c) PROVE TypeInv'
  <2>1. HandlePop(c.l, c.t, WeightOf(c)) \in Seq(SUBSET EffectCall)
    BY <1>11, HeardType, ListenerKinds, PopType DEF OnPop, Heard
  <2> QED BY <1>11, <2>1, EffectsKeepTypes DEF OnPop
<1>12. ASSUME NEW c \in Innermost, OnTransitive(c) PROVE TypeInv'
  <2>1. HandleTransitive(c.l, c.t, WeightOf(c)) \in Seq(SUBSET EffectCall)
    BY <1>12, HeardType, ListenerKinds, TransitiveType DEF OnTransitive, Heard
  <2> QED BY <1>12, <2>1, EffectsKeepTypes DEF OnTransitive
<1>13. ASSUME NEW c \in Innermost, OnEpsilon(c) PROVE TypeInv'
  <2>1. HandleEpsilon(c.l, c.t, WeightOf(c)) \in Seq(SUBSET EffectCall)
    BY <1>13, HeardType, ListenerKinds, EpsilonType DEF OnEpsilon, Heard, TypeInv, ReplaysFind
  <2> QED BY <1>13, <2>1, EffectsKeepTypes DEF OnEpsilon
<1>14. ASSUME NEW c \in Innermost, ReconnectPush(c) PROVE TypeInv'
  <2>1. c \in Call /\ c.e \in ReconnectEntry
    BY <1>14, InnermostTodo, CallFields DEF ReconnectPush, TypeInv, ReplaysFind
  <2> DEFINE told == IF c.e \in connected THEN {} ELSE TellClient("connect")
  <2>2. told \in SUBSET Call /\ \A d \in told : d.op # "replay"
    BY DEF TellClient, Call, ClientCall
  <2>3. Return(c, <<told>>)
    BY <1>14 DEF ReconnectPush
  <2> HIDE DEF told
  <2>4. <<told>> \in Seq(SUBSET Call) /\ CallsOf(<<told>>) = told
    BY <2>2, LoopType, CallsOfTuples
  <2>5. agenda' \in Seq(SUBSET Call) /\ Todo' \subseteq told \cup Todo
    BY <2>3, <2>4, InnermostTodo, ReturnCalls DEF TypeInv, ReplaysFind, TypeOK
  <2> QED BY <1>14, <2>1, <2>2, <2>5 DEF ReconnectPush, TypeInv, ReplaysFind, TypeOK
<1>15. ASSUME NEW c \in Innermost, UnbalancedPop(c) PROVE TypeInv'
  <2>1. c \in Call /\ c.s \in State /\ c.t \in Transition /\ c.w \in Weight
    BY <1>15, InnermostTodo, CallFields DEF UnbalancedPop, TypeInv, ReplaysFind
  <2> DEFINE told == IF unbalanced' = unbalanced THEN {} ELSE TellClient("unbalanced")
  <2>2. told \in SUBSET Call /\ \A d \in told : d.op # "replay"
    BY DEF TellClient, Call, ClientCall
  <2>3. Return(c, <<told>>)
    BY <1>15 DEF UnbalancedPop
  <2> HIDE DEF told
  <2>4. <<told>> \in Seq(SUBSET Call) /\ CallsOf(<<told>>) = told
    BY <2>2, LoopType, CallsOfTuples
  <2>5. agenda' \in Seq(SUBSET Call) /\ Todo' \subseteq told \cup Todo
    BY <2>3, <2>4, InnermostTodo, ReturnCalls DEF TypeInv, ReplaysFind, TypeOK
  <2>6. /\ DOMAIN unbalanced' \subseteq State \X Transition
        /\ \A e \in DOMAIN unbalanced' : unbalanced'[e] \in Weight
    <3>1. /\ DOMAIN unbalanced \subseteq State \X Transition
          /\ \A e \in DOMAIN unbalanced : unbalanced[e] \in Weight
          /\ <<c.s, c.t>> \in State \X Transition
      BY <2>1 DEF TypeInv, ReplaysFind, TypeOK
    <3>2. /\ DOMAIN Put(unbalanced, <<c.s, c.t>>, c.w)
               = DOMAIN unbalanced \cup {<<c.s, c.t>>}
          /\ \A e \in DOMAIN Put(unbalanced, <<c.s, c.t>>, c.w) :
                Put(unbalanced, <<c.s, c.t>>, c.w)[e] \in Weight
      BY <2>1, <3>1, PutType
    <3> QED BY <1>15, <3>1, <3>2 DEF UnbalancedPop
  <2> QED BY <1>15, <2>2, <2>5, <2>6 DEF UnbalancedPop, TypeInv, ReplaysFind, TypeOK
<1>16. CASE UNCHANGED vars
  BY <1>16 DEF vars, data, TypeInv, ReplaysFind, TypeOK, Todo
<1> QED
  BY <1>1, <1>2, <1>3, <1>4, <1>5, <1>6, <1>7, <1>8, <1>9, <1>10, <1>11,
     <1>12, <1>13, <1>14, <1>15, <1>16 DEF Next, Step

\* Every variable holds values of its kind in every reachable state, for every
\* pushdown system, weight domain and order of calls.
THEOREM TypeCorrect == Spec => []TypeOK
<1>1. TypeInv => TypeOK
  BY DEF TypeInv, ReplaysFind
<1> QED BY InitType, NextType, <1>1, PTL DEF Spec

-----------------------------------------------------------------------------
(***************************************************************************)
(* The automaton is saturated whenever the outermost call has returned.    *)
(* SaturationInv is inductive: a step takes one call c off the stack, and  *)
(* its effect is either visible at once or pushed on the stack.            *)
(***************************************************************************)
\* What every step guarantees: nothing recorded is lost, and of the calls on
\* the stack only those of S may go, with their effect visible or pushed.
Progress(S) ==
    /\ Improves(weight', weight) /\ Improves(unbalanced', unbalanced)
    /\ connected \subseteq connected' /\ listeners \subseteq listeners'
    /\ Todo \ S \subseteq Todo'
    /\ \A c \in S :
          c.op \in {"add", "register", "unbalanced", "reconnect"} => Done(c)'

LEMMA AbsorbsTransitive ==
    ASSUME NEW a \in Weight, NEW b \in Weight, NEW c \in Weight,
           Combine(a, b) = a, Combine(b, c) = b
    PROVE  Combine(a, c) = a
<1>1. Combine(Combine(a, b), c) = Combine(a, Combine(b, c))
  BY CombineAssumption
<1> QED BY <1>1

LEMMA ImprovesRefl ==
    ASSUME NEW m, \A k \in DOMAIN m : m[k] \in Weight
    PROVE  Improves(m, m)
BY CombineAssumption DEF Improves

\* Combining w into an entry improves the map, and accounts for w.
LEMMA PutImproves ==
    ASSUME NEW m, NEW k, NEW w \in Weight,
           \A j \in DOMAIN m : m[j] \in Weight
    PROVE  /\ Improves(Put(m, k, w), m)
           /\ k \in DOMAIN Put(m, k, w)
           /\ Combine(Put(m, k, w)[k], w) = Put(m, k, w)[k]
<1>1. DOMAIN Put(m, k, w) = DOMAIN m \cup {k}
  BY DEF Put
<1>2. ASSUME NEW j \in DOMAIN m PROVE Combine(Put(m, k, w)[j], m[j]) = Put(m, k, w)[j]
  <2>1. CASE j # k
    BY <2>1, CombineAssumption DEF Put
  <2>2. CASE j = k
    <3>1. Put(m, k, w)[j] = Combine(m[j], w)
      BY <2>2 DEF Put
    <3>2. Combine(m[j], w) = Combine(w, m[j]) /\ Combine(m[j], m[j]) = m[j]
      BY CombineAssumption
    <3>3. Combine(Combine(w, m[j]), m[j]) = Combine(w, Combine(m[j], m[j]))
      BY CombineAssumption
    <3> QED BY <3>1, <3>2, <3>3
  <2> QED BY <2>1, <2>2
<1>3. Combine(Put(m, k, w)[k], w) = Put(m, k, w)[k]
  <2>1. CASE k \in DOMAIN m
    <3>1. Put(m, k, w)[k] = Combine(m[k], w)
      BY <2>1 DEF Put
    <3>2. /\ Combine(Combine(m[k], w), w) = Combine(m[k], Combine(w, w))
          /\ Combine(w, w) = w
      BY <2>1, CombineAssumption
    <3> QED BY <3>1, <3>2
  <2>2. CASE k \notin DOMAIN m
    BY <2>2, CombineAssumption DEF Put
  <2> QED BY <2>1, <2>2
<1> QED BY <1>1, <1>2, <1>3 DEF Improves

\* What is accounted for stays accounted for.
LEMMA AccountsStays ==
    ASSUME TypeInv, TypeInv', Improves(weight', weight),
           NEW t \in Transition, NEW w \in Weight, Accounts(t, w)
    PROVE  Accounts(t, w)'
<1>1. CASE t.start = t.target /\ t.label = Eps
  BY <1>1 DEF Accounts
<1>2. CASE t \in DOMAIN weight /\ Combine(weight[t], w) = weight[t]
  <2>1. /\ t \in DOMAIN weight' /\ Combine(weight'[t], weight[t]) = weight'[t]
        /\ weight[t] \in Weight /\ weight'[t] \in Weight
    BY <1>2 DEF Improves, TypeInv, TypeOK
  <2>2. Combine(weight'[t], w) = weight'[t]
    BY <1>2, <2>1, AbsorbsTransitive
  <2> QED BY <2>1, <2>2 DEF Accounts
<1> QED BY <1>1, <1>2 DEF Accounts

\* What is done, or on the stack to be done, stays so.
LEMMA DoneStays ==
    ASSUME TypeInv, TypeInv', NEW S, Progress(S), NEW d \in EffectCall, Done(d)
    PROVE  Done(d)'
<1>1. d.op \in {"add", "register", "unbalanced", "reconnect"}
  BY DEF EffectCall, AddCall, RegisterCall, UnbalancedCall, ReconnectCall
<1>2. CASE d \in Todo
  BY <1>1, <1>2 DEF Progress, Done
<1>3. CASE d.op = "add" /\ Accounts(d.t, d.w)
  <2>1. d.t \in Transition /\ d.w \in Weight
    BY <1>3, EffectCalls, CallFields
  <2> QED BY <1>3, <2>1, AccountsStays DEF Progress, Done
<1>4. CASE d.op = "register" /\ d.l \in listeners
  BY <1>4 DEF Progress, Done
<1>5. CASE /\ d.op = "unbalanced"
           /\ <<d.s, d.t>> \in DOMAIN unbalanced
           /\ Combine(unbalanced[<<d.s, d.t>>], d.w) = unbalanced[<<d.s, d.t>>]
  <2> DEFINE k == <<d.s, d.t>>
  <2>1. d.w \in Weight
    BY <1>5, EffectCalls, CallFields
  <2>2. /\ k \in DOMAIN unbalanced'
        /\ Combine(unbalanced'[k], unbalanced[k]) = unbalanced'[k]
        /\ unbalanced[k] \in Weight /\ unbalanced'[k] \in Weight
    BY <1>5 DEF Progress, Improves, TypeInv, TypeOK
  <2>3. Combine(unbalanced'[k], d.w) = unbalanced'[k]
    BY <1>5, <2>1, <2>2, AbsorbsTransitive
  <2> QED BY <1>5, <2>2, <2>3 DEF Done
<1>6. CASE d.op = "reconnect" /\ \E e \in connected : Same(e, d.e)
  BY <1>6 DEF Progress, Done, Same
<1>7. CASE /\ d.op = "reconnect"
           /\ \E c \in Todo : c.op = "reconnect" /\ Same(c.e, d.e)
  <2>1. PICK c \in Todo : c.op = "reconnect" /\ Same(c.e, d.e)
    BY <1>7
  <2>2. Done(c)'
    <3>1. CASE c \in S
      BY <2>1, <3>1 DEF Progress
    <3>2. CASE c \notin S
      BY <3>2 DEF Progress, Done
    <3> QED BY <3>1, <3>2
  <2>3. \/ \E e \in connected' : Same(e, c.e)
        \/ \E b \in Todo' : b.op = "reconnect" /\ Same(b.e, c.e)
    BY <2>1, <2>2 DEF Done, Same
  <2>4. \/ \E e \in connected' : Same(e, d.e)
        \/ \E b \in Todo' : b.op = "reconnect" /\ Same(b.e, d.e)
    BY <2>1, <2>3 DEF Same
  <2> QED BY <1>7, <2>4 DEF Done, Same
<1> QED BY <1>2, <1>3, <1>4, <1>5, <1>6, <1>7 DEF Done

\* The effects of a listener are calls.
LEMMA EffectsType ==
    ASSUME TypeOK, NEW l \in Listener, NEW t \in Transition, NEW w \in Weight
    PROVE  /\ Effects(l, t, w) \in Seq(SUBSET EffectCall)
           /\ CallsOf(Effects(l, t, w)) \subseteq EffectCall
<1>1. l.kind \in {"normal", "push", "pop", "transitive", "epsilon"}
  BY DEF Listener, Rule, NormalRule, PushRule, PopRule, TransitiveListener,
     EpsilonListener
<1>2. Effects(l, t, w) \in Seq(SUBSET EffectCall)
  BY <1>1, ListenerKinds, NormalType, PushType, PopType, TransitiveType,
     EpsilonType DEF Effects
<1> QED BY <1>2 DEF CallsOf

\* A listener that has reacted to a weight has reacted to it for good.
LEMMA HandledStays ==
    ASSUME TypeInv, TypeInv', NEW S, Progress(S), NEW l \in Listener,
           NEW t \in Transition, NEW w \in Weight, Handled(l, t, w)
    PROVE  Handled(l, t, w)'
<1>1. \A d \in CallsOf(Effects(l, t, w)) : d \in EffectCall /\ Done(d)'
  BY EffectsType, DoneStays DEF Handled, TypeInv
<1>2. CASE l.kind # "epsilon"
  <2>1. Effects(l, t, w)' = Effects(l, t, w)
    BY <1>2 DEF Effects
  <2> QED BY <1>1, <2>1 DEF Handled, CallsOf
<1>3. CASE l.kind = "epsilon" /\ t.label # Eps
  <2>1. Effects(l, t, w)' = <<>>
    BY <1>3 DEF Effects, HandleEpsilon
  <2> QED BY <2>1, CallsOfTuples DEF Handled, CallsOf
<1>4. CASE l.kind = "epsilon" /\ t.label = Eps
  <2> DEFINE e(G) == [callSite |-> l.callSite, returnSite |-> l.t.label,
                      fact |-> t.start, combined |-> G, returned |-> w]
             d(G) == [op |-> "reconnect", e |-> e(G)]
  <2>1. PICK g, h : g = GetWeightFor(l.t) /\ h = GetWeightFor(l.t)'
    OBVIOUS
  <2>2. Effects(l, t, w) = <<{d(g)}>> /\ Effects(l, t, w)' = <<{d(h)}>>
    BY <1>4, <2>1 DEF Effects, HandleEpsilon
  <2>3. /\ d(g).op = "reconnect" /\ d(g).e = e(g)
        /\ d(h).op = "reconnect" /\ d(h).e = e(h)
    OBVIOUS
  <2>4. Same(e(g), e(h)) /\ \A x : Same(x, e(g)) <=> Same(x, e(h))
    BY DEF Same
  <2> HIDE DEF d, e
  <2>5. Done(d(g))'
    <3>1. CallsOf(<<{d(g)}>>) = {d(g)}
      BY CallsOfTuples
    <3>2. d(g) \in CallsOf(Effects(l, t, w))
      BY <2>2, <3>1
    <3> QED BY <1>1, <3>2
  <2>6. Done(d(h))'
    BY <2>3, <2>4, <2>5 DEF Done, Same
  <2>7. CallsOf(<<{d(h)}>>) = {d(h)}
    BY CallsOfTuples
  <2> QED BY <2>2, <2>6, <2>7 DEF Handled, CallsOf
<1> QED BY <1>2, <1>3, <1>4

\* A listener that will be told of a transition still will be, as long as the
\* step makes none of the calls that tell it and leaves the weight alone.
LEMMA ToldStays ==
    ASSUME TypeInv, TypeInv', NEW S, Progress(S), NEW l \in Listener,
           NEW t \in DOMAIN weight, weight'[t] = weight[t], Told(l, t),
           [op |-> "hear", l |-> l, t |-> t, w |-> weight[t]] \notin S,
           [op |-> "replay", l |-> l, t |-> t] \notin S,
           [op |-> IF l.kind = "epsilon" THEN "notifyIn" ELSE "notifyOut",
            t |-> t, w |-> weight[t]] \notin S
    PROVE  Told(l, t)'
<1>1. t \in Transition /\ weight[t] \in Weight
  BY DEF TypeInv, TypeOK
<1>2. CASE Handled(l, t, weight[t])
  <2>1. PICK w \in Weight : w = weight[t]
    BY <1>1
  <2>2. Handled(l, t, w)'
    BY <1>1, <1>2, <2>1, HandledStays
  <2>3. Handled(l, t, weight[t])'
    BY <2>1, <2>2
  <2> QED BY <2>3 DEF Told
<1>3. CASE ~Handled(l, t, weight[t])
  BY <1>3 DEF Told, Progress
<1> QED BY <1>2, <1>3

LEMMA NoneMissedStays ==
    ASSUME TypeInv, TypeInv', NEW S, Progress(S), NoneMissed,
           weight' = weight, listeners' = listeners,
           \A c \in S : c.op \notin {"hear", "replay", "notifyOut", "notifyIn"}
    PROVE  NoneMissed'
<1> SUFFICES ASSUME NEW l \in listeners, NEW t \in DOMAIN weight, Hears(l, t)
             PROVE  Told(l, t)'
  BY DEF NoneMissed, Hears
<1>1. l \in Listener /\ Told(l, t)
  BY DEF NoneMissed, TypeInv, TypeOK
<1>2. /\ [op |-> "hear", l |-> l, t |-> t, w |-> weight[t]] \notin S
      /\ [op |-> "replay", l |-> l, t |-> t] \notin S
      /\ [op |-> IF l.kind = "epsilon" THEN "notifyIn" ELSE "notifyOut",
          t |-> t, w |-> weight[t]] \notin S
  OBVIOUS
<1> QED BY <1>1, <1>2, ToldStays

LEMMA RulesHeededStays ==
    ASSUME TypeInv, TypeInv', NEW S, Progress(S), RulesHeeded,
           rules' = rules, started' = started
    PROVE  RulesHeeded'
<1> SUFFICES ASSUME started, NEW r \in rules
             PROVE  Done([op |-> "register", l |-> r])'
  BY DEF RulesHeeded
<1>1. [op |-> "register", l |-> r] \in EffectCall
  BY ClientAssumption DEF TypeInv, TypeOK, EffectCall, RegisterCall, Listener
<1>2. Done([op |-> "register", l |-> r])
  BY DEF RulesHeeded
<1> QED BY <1>1, <1>2, DoneStays

\* A step that changes only the agenda makes progress if it drops no call but
\* those of S, and those are no effects.
LEMMA AgendaProgress ==
    ASSUME TypeInv, UNCHANGED <<weight, listeners, connected, unbalanced>>,
           NEW S, Todo \ S \subseteq Todo',
           \A c \in S : c.op \notin {"add", "register", "unbalanced", "reconnect"}
    PROVE  Progress(S)
<1>1. Improves(weight, weight) /\ Improves(unbalanced, unbalanced)
  BY ImprovesRefl DEF TypeInv, TypeOK
<1> QED BY <1>1 DEF Progress

\* A listener's turn: its effects are on the stack, so it has reacted to the
\* weight it was told.
LEMMA ListenersTurn ==
    ASSUME SaturationInv, TypeInv', NEW c \in Innermost,
           c.op \in {"hear", "replay"}, UNCHANGED data,
           Return(c, Effects(c.l, c.t, WeightOf(c)))
    PROVE  Progress({c}) /\ RulesHeeded' /\ NoneMissed'
<1> USE DEF SaturationInv
<1>1. /\ c \in Call /\ c.l \in Listener /\ c.t \in Transition
      /\ WeightOf(c) \in Weight
  BY HeardType
<1> DEFINE body == Effects(c.l, c.t, WeightOf(c))
<1>2. body \in Seq(SUBSET EffectCall) /\ CallsOf(body) \subseteq EffectCall
  BY <1>1, EffectsType DEF TypeInv
<1>3. CallsOf(body) \subseteq Todo' /\ Todo \ {c} \subseteq Todo'
  BY <1>2, EffectCalls, InnermostTodo, ReturnCalls DEF TypeInv, TypeOK
<1>4. Progress({c})
  BY <1>3, AgendaProgress DEF data
<1>5. ASSUME NEW l \in listeners, NEW t \in DOMAIN weight, Hears(l, t)
      PROVE  Told(l, t)'
  <2>1. l \in Listener /\ Told(l, t)
    BY <1>5 DEF NoneMissed, TypeInv, TypeOK
  <2>2. CASE \/ c = [op |-> "hear", l |-> l, t |-> t, w |-> weight[t]]
             \/ c = [op |-> "replay", l |-> l, t |-> t]
    <3>1. c.l = l /\ c.t = t /\ WeightOf(c) = weight[t]
      BY <2>2 DEF WeightOf
    <3>2. \A d \in CallsOf(Effects(l, t, weight[t])) : Done(d)'
      BY <1>3, <3>1 DEF Done
    <3>3. Effects(l, t, weight[t])' = Effects(l, t, weight[t])
      BY DEF data, Effects, HandleNormal, HandlePush, HandlePop, Pop, Forward,
         HandleTransitive, HandleEpsilon, GetWeightFor
    <3>4. Handled(l, t, weight[t])'
      BY <3>2, <3>3 DEF Handled, CallsOf
    <3> QED BY <3>4 DEF Told
  <2>3. CASE /\ c # [op |-> "hear", l |-> l, t |-> t, w |-> weight[t]]
             /\ c # [op |-> "replay", l |-> l, t |-> t]
    <3>1. /\ [op |-> "hear", l |-> l, t |-> t, w |-> weight[t]] \notin {c}
          /\ [op |-> "replay", l |-> l, t |-> t] \notin {c}
          /\ [op |-> IF l.kind = "epsilon" THEN "notifyIn" ELSE "notifyOut",
              t |-> t, w |-> weight[t]] \notin {c}
      BY <2>3
    <3>2. weight'[t] = weight[t]
      BY DEF data
    <3> QED BY <1>4, <2>1, <3>1, <3>2, ToldStays
  <2> QED BY <2>2, <2>3
<1>6. NoneMissed'
  BY <1>5 DEF NoneMissed, Hears, data
<1>7. RulesHeeded'
  BY <1>4, RulesHeededStays DEF data
<1> QED BY <1>4, <1>6, <1>7

\* Adding a weight: the transition's listeners are told of it in the loops
\* pushed on the stack.
LEMMA AddProgress ==
    ASSUME SaturationInv, TypeInv', NEW c \in Innermost,
           AddWeightForTransition(c)
    PROVE  Progress({c}) /\ RulesHeeded' /\ NoneMissed'
<1> USE DEF SaturationInv
<1> DEFINE new == Put(weight, c.t, c.w)
           client == TellClient("weight")
           out == Notify("notifyOut", c.t, new[c.t])
           in == Notify("notifyIn", c.t, new[c.t])
           body == <<client, out, in>>
<1>1. c \in Call /\ c.op = "add" /\ c.t \in Transition /\ c.w \in Weight
  BY InnermostTodo, CallFields DEF AddWeightForTransition, TypeInv
<1>2. /\ Improves(new, weight) /\ c.t \in DOMAIN new
      /\ Combine(new[c.t], c.w) = new[c.t]
  BY <1>1, PutImproves DEF TypeInv, TypeOK
<1>3. new[c.t] \in Weight /\ \A t \in DOMAIN weight : t # c.t => new[t] = weight[t]
  BY <1>1, WeightAssumption DEF Put, TypeInv, TypeOK
<1>4. DOMAIN new = DOMAIN weight \cup {c.t}
  BY DEF Put
<1>5. Improves(unbalanced, unbalanced) /\ Improves(weight, weight)
  BY ImprovesRefl DEF TypeInv, TypeOK
<1>6. UNCHANGED <<rules, started, seeded, listeners, connected, unbalanced>>
  BY DEF AddWeightForTransition
<1>7. agenda \in Seq(SUBSET Call) /\ agenda # <<>>
  BY InnermostTodo DEF TypeInv, TypeOK
<1>8. CASE /\ (c.t.start = c.t.target /\ c.t.label = Eps) \/ new = weight
           /\ weight' = weight /\ Return(c, <<>>)
  <2>1. Todo \ {c} \subseteq Todo'
    BY <1>7, <1>8, LoopType, ReturnCalls
  <2>2. Done(c)'
    BY <1>1, <1>2, <1>8 DEF Done, Accounts
  <2>3. Progress({c})
    BY <1>5, <1>6, <1>8, <2>1, <2>2 DEF Progress
  <2> QED BY <1>1, <1>6, <1>8, <2>3, NoneMissedStays, RulesHeededStays
<1>9. CASE weight' = new /\ Return(c, body)
  <2>1. client \in SUBSET Call /\ out \in SUBSET Call /\ in \in SUBSET Call
    BY <1>1, <1>3, NotifyType
  <2> HIDE DEF client, out, in, new
  <2>2. body \in Seq(SUBSET Call)
    BY <2>1, LoopType
  <2>3. CallsOf(body) = client \cup out \cup in
    BY DEF CallsOf
  <2> HIDE DEF body
  <2>4. Todo \ {c} \subseteq Todo' /\ out \subseteq Todo' /\ in \subseteq Todo'
    BY <1>7, <1>9, <2>2, <2>3, ReturnCalls
  <2>5. Done(c)'
    BY <1>1, <1>2, <1>9 DEF Done, Accounts
  <2>6. Progress({c})
    BY <1>2, <1>5, <1>6, <1>9, <2>4, <2>5 DEF Progress
  <2>7. ASSUME NEW l \in listeners, NEW t \in DOMAIN weight', Hears(l, t)
        PROVE  Told(l, t)'
    <3>1. CASE t = c.t
      <4>1. /\ [op |-> "notifyOut", t |-> t, w |-> weight'[t]] \in Todo'
            /\ [op |-> "notifyIn", t |-> t, w |-> weight'[t]] \in Todo'
        BY <1>9, <2>4, <3>1 DEF out, in, Notify
      <4> QED BY <4>1 DEF Told
    <3>2. CASE t # c.t
      <4>1. /\ t \in DOMAIN weight /\ weight'[t] = weight[t]
            /\ l \in Listener
        BY <1>3, <1>4, <1>9, <3>2 DEF TypeInv, TypeOK
      <4>2. Told(l, t)
        BY <2>7, <4>1 DEF NoneMissed
      <4>3. /\ [op |-> "hear", l |-> l, t |-> t, w |-> weight[t]] \notin {c}
            /\ [op |-> "replay", l |-> l, t |-> t] \notin {c}
            /\ [op |-> IF l.kind = "epsilon" THEN "notifyIn" ELSE "notifyOut",
                t |-> t, w |-> weight[t]] \notin {c}
        BY <1>1
      <4> QED BY <2>6, <4>1, <4>2, <4>3, ToldStays
    <3> QED BY <3>1, <3>2
  <2>8. NoneMissed'
    BY <1>6, <2>7 DEF NoneMissed, Hears
  <2> QED BY <1>6, <2>6, <2>8, RulesHeededStays
<1> QED BY <1>8, <1>9 DEF AddWeightForTransition

\* Notifying: the listeners registered by now are each told in turn.
LEMMA NotifyProgress ==
    ASSUME SaturationInv, TypeInv', NEW c \in Innermost, NotifyListeners(c)
    PROVE  Progress({c}) /\ RulesHeeded' /\ NoneMissed'
<1> USE DEF SaturationInv
<1> DEFINE told == {k \in listeners :
                      /\ Hears(k, c.t)
                      /\ (k.kind = "epsilon") <=> (c.op = "notifyIn")}
           first == {[op |-> "hear", l |-> l, t |-> c.t, w |-> c.w] : l \in told}
<1>1. /\ c \in Call /\ c.op \in {"notifyOut", "notifyIn"}
      /\ c.t \in Transition /\ c.w \in Weight
  BY InnermostTodo, CallFields DEF NotifyListeners, TypeInv
<1>2. Return(c, <<first>>) /\ UNCHANGED data
  BY DEF NotifyListeners
<1>3. agenda \in Seq(SUBSET Call) /\ agenda # <<>>
  BY InnermostTodo DEF TypeInv, TypeOK
<1>4. first \in SUBSET Call
  BY <1>1 DEF Call, HearCall, TypeInv, TypeOK
<1> HIDE DEF first
<1>5. Todo \ {c} \subseteq Todo' /\ first \subseteq Todo'
  <2>1. <<first>> \in Seq(SUBSET Call) /\ CallsOf(<<first>>) = first
    BY <1>4, LoopType, CallsOfTuples
  <2> QED BY <1>2, <1>3, <2>1, ReturnCalls
<1>6. Progress({c})
  BY <1>1, <1>2, <1>5, AgendaProgress DEF data
<1>7. ASSUME NEW l \in listeners, NEW t \in DOMAIN weight, Hears(l, t)
      PROVE  Told(l, t)'
  <2>1. l \in Listener /\ Told(l, t) /\ weight'[t] = weight[t]
    BY <1>2, <1>7 DEF NoneMissed, TypeInv, TypeOK, data
  <2>2. CASE c = [op |-> IF l.kind = "epsilon" THEN "notifyIn" ELSE "notifyOut",
                  t |-> t, w |-> weight[t]]
    <3>1. c.t = t /\ c.w = weight[t] /\ l \in told
      BY <1>7, <2>2
    <3>2. [op |-> "hear", l |-> l, t |-> t, w |-> weight[t]] \in first
      BY <3>1 DEF first
    <3> QED BY <1>5, <2>1, <3>2 DEF Told
  <2>3. CASE c # [op |-> IF l.kind = "epsilon" THEN "notifyIn" ELSE "notifyOut",
                  t |-> t, w |-> weight[t]]
    <3>1. /\ [op |-> "hear", l |-> l, t |-> t, w |-> weight[t]] \notin {c}
          /\ [op |-> "replay", l |-> l, t |-> t] \notin {c}
          /\ [op |-> IF l.kind = "epsilon" THEN "notifyIn" ELSE "notifyOut",
              t |-> t, w |-> weight[t]] \notin {c}
      BY <1>1, <2>3
    <3> QED BY <1>6, <2>1, <3>1, ToldStays
  <2> QED BY <2>2, <2>3
<1>8. NoneMissed'
  BY <1>2, <1>7 DEF NoneMissed, Hears, data
<1> QED BY <1>2, <1>6, <1>8, RulesHeededStays DEF data

\* Registering: a new listener is told of every transition of its state.
LEMMA RegisterProgress ==
    ASSUME SaturationInv, TypeInv', NEW c \in Innermost, RegisterListener(c)
    PROVE  Progress({c}) /\ RulesHeeded' /\ NoneMissed'
<1> USE DEF SaturationInv
<1> DEFINE body == IF c.l \in listeners THEN <<>> ELSE <<Replay(c.l)>>
<1>1. c \in Call /\ c.op = "register" /\ c.l \in Listener
  BY InnermostTodo, CallFields DEF RegisterListener, TypeInv
<1>2. /\ Return(c, body) /\ listeners' = listeners \cup {c.l}
      /\ UNCHANGED <<rules, started, seeded, weight, connected, unbalanced>>
  BY DEF RegisterListener
<1>3. agenda \in Seq(SUBSET Call) /\ agenda # <<>>
  BY InnermostTodo DEF TypeInv, TypeOK
<1>4. /\ body \in Seq(SUBSET Call)
      /\ c.l \notin listeners => CallsOf(body) = Replay(c.l)
  <2>1. Replay(c.l) \in SUBSET Call
    BY <1>1 DEF Replay, TypeInv, TypeOK, Call, ReplayCall
  <2> QED BY <2>1, LoopType, CallsOfTuples
<1> HIDE DEF body
<1>5. /\ Todo \ {c} \subseteq Todo'
      /\ c.l \notin listeners => Replay(c.l) \subseteq Todo'
  BY <1>2, <1>3, <1>4, ReturnCalls
<1>6. Done(c)'
  BY <1>1, <1>2 DEF Done
<1>7. Improves(unbalanced, unbalanced) /\ Improves(weight, weight)
  BY ImprovesRefl DEF TypeInv, TypeOK
<1>8. Progress({c})
  BY <1>2, <1>5, <1>6, <1>7 DEF Progress
<1>9. ASSUME NEW l \in listeners', NEW t \in DOMAIN weight, Hears(l, t)
      PROVE  Told(l, t)'
  <2>1. CASE l \in listeners
    <3>1. l \in Listener /\ Told(l, t) /\ weight'[t] = weight[t]
      BY <1>2, <1>9, <2>1 DEF NoneMissed, TypeInv, TypeOK
    <3>2. /\ [op |-> "hear", l |-> l, t |-> t, w |-> weight[t]] \notin {c}
          /\ [op |-> "replay", l |-> l, t |-> t] \notin {c}
          /\ [op |-> IF l.kind = "epsilon" THEN "notifyIn" ELSE "notifyOut",
              t |-> t, w |-> weight[t]] \notin {c}
      BY <1>1
    <3> QED BY <1>8, <3>1, <3>2, ToldStays
  <2>2. CASE l \notin listeners
    BY <1>2, <1>5, <1>9, <2>2 DEF Replay, Told
  <2> QED BY <2>1, <2>2
<1>10. NoneMissed'
  BY <1>2, <1>9 DEF NoneMissed, Hears
<1> QED BY <1>2, <1>8, <1>10, RulesHeededStays

\* Recording a connected push or an unbalanced pop tells at most the client.
LEMMA RecordProgress ==
    ASSUME SaturationInv, TypeInv', NEW c \in Innermost,
           ReconnectPush(c) \/ UnbalancedPop(c)
    PROVE  Progress({c}) /\ RulesHeeded' /\ NoneMissed'
<1> USE DEF SaturationInv
<1>1. /\ c \in Call /\ c.op \in {"reconnect", "unbalanced"}
      /\ c.op = "unbalanced" => c.w \in Weight
  BY InnermostTodo, CallFields DEF ReconnectPush, UnbalancedPop, TypeInv
<1>2. agenda \in Seq(SUBSET Call) /\ agenda # <<>>
  BY InnermostTodo DEF TypeInv, TypeOK
<1>3. \A event : TellClient(event) \in SUBSET Call
  BY DEF TellClient, Call, ClientCall
<1>4. PICK told \in SUBSET Call : Return(c, <<told>>)
  <2>1. /\ (IF c.e \in connected THEN {} ELSE TellClient("connect")) \in SUBSET Call
        /\ (IF unbalanced' = unbalanced THEN {} ELSE TellClient("unbalanced"))
             \in SUBSET Call
    BY <1>3
  <2> QED BY <2>1 DEF ReconnectPush, UnbalancedPop
<1>5. Todo \ {c} \subseteq Todo'
  BY <1>2, <1>4, LoopType, ReturnCalls
<1>6. Improves(unbalanced, unbalanced) /\ Improves(weight, weight)
  BY ImprovesRefl DEF TypeInv, TypeOK
<1>7. CASE ReconnectPush(c)
  <2>1. Done(c)'
    BY <1>7 DEF ReconnectPush, Done, Same
  <2>2. Progress({c})
    BY <1>5, <1>6, <1>7, <2>1 DEF ReconnectPush, Progress
  <2> QED BY <1>1, <1>7, <2>2, NoneMissedStays, RulesHeededStays
          DEF ReconnectPush
<1>8. CASE UnbalancedPop(c)
  <2>1. /\ Improves(Put(unbalanced, <<c.s, c.t>>, c.w), unbalanced)
        /\ <<c.s, c.t>> \in DOMAIN Put(unbalanced, <<c.s, c.t>>, c.w)
        /\ Combine(Put(unbalanced, <<c.s, c.t>>, c.w)[<<c.s, c.t>>], c.w)
             = Put(unbalanced, <<c.s, c.t>>, c.w)[<<c.s, c.t>>]
    BY <1>1, <1>8, PutImproves DEF UnbalancedPop, TypeInv, TypeOK
  <2>2. Done(c)'
    BY <1>8, <2>1 DEF UnbalancedPop, Done
  <2>3. Progress({c})
    BY <1>5, <1>6, <1>8, <2>1, <2>2 DEF UnbalancedPop, Progress
  <2> QED BY <1>1, <1>8, <2>3, NoneMissedStays, RulesHeededStays
          DEF UnbalancedPop
<1> QED BY <1>7, <1>8

\* The client's calls put their work on the stack.
LEMMA ClientProgress ==
    ASSUME SaturationInv, TypeInv',
           \/ \E r \in Rules : AddRule(r)
           \/ \E f \in Seeds : AddSeed(f)
           \/ Poststar
    PROVE  Progress({}) /\ RulesHeeded' /\ NoneMissed'
<1> USE DEF SaturationInv
<1>1. UNCHANGED <<weight, listeners, connected, unbalanced>>
  BY DEF AddRule, AddSeed, Poststar
<1>2. SUFFICES Todo \subseteq Todo' /\ RulesHeeded'
  <2>1. ASSUME Todo \subseteq Todo' PROVE Progress({})
    BY <1>1, <2>1, AgendaProgress
  <2> QED BY <1>1, <2>1, NoneMissedStays
<1>3. ASSUME NEW r \in Rules, AddRule(r) PROVE Todo \subseteq Todo' /\ RulesHeeded'
  <2>1. Register(r) \in SUBSET Call
    BY ClientAssumption, RegisterType, EffectCalls DEF Listener
  <2> DEFINE first == IF started THEN <<Register(r)>> ELSE <<>>
  <2>2. first \in Seq(SUBSET Call) /\ (started => CallsOf(first) = Register(r))
    BY <2>1, LoopType, CallsOfTuples
  <2>3. agenda' = first \o agenda
    BY <1>3 DEF AddRule
  <2> HIDE DEF first
  <2>4. Todo' = CallsOf(first) \cup Todo
    BY <2>2, <2>3, ClientCalls DEF TypeInv, TypeOK
  <2>5. Progress({})
    BY <1>1, <2>4, AgendaProgress
  <2>6. ASSUME started', NEW q \in rules' PROVE Done([op |-> "register", l |-> q])'
    <3>1. CASE q = r
      <4>1. [op |-> "register", l |-> q] \in Todo'
        BY <1>3, <2>2, <2>4, <2>6, <3>1 DEF AddRule, Register
      <4> QED BY <4>1 DEF Done
    <3>2. CASE q \in rules
      <4>1. /\ [op |-> "register", l |-> q] \in EffectCall
            /\ Done([op |-> "register", l |-> q])
        BY <1>3, <2>6, <3>2, ClientAssumption
           DEF AddRule, RulesHeeded, TypeInv, TypeOK, EffectCall,
               RegisterCall, Listener
      <4> QED BY <2>5, <4>1, DoneStays
    <3> QED BY <1>3, <3>1, <3>2 DEF AddRule
  <2> QED BY <2>4, <2>6 DEF RulesHeeded
<1>4. ASSUME NEW f \in Seeds, AddSeed(f) PROVE Todo \subseteq Todo' /\ RulesHeeded'
  <2> DEFINE first == {[op |-> "add", t |-> f.t, w |-> f.w]}
  <2>1. first \in SUBSET Call
    BY ClientAssumption DEF Fact, Call, EffectCall, AddCall
  <2>2. agenda' = <<first>> \o agenda
    BY <1>4 DEF AddSeed
  <2> HIDE DEF first
  <2>3. Todo \subseteq Todo'
    BY <2>1, <2>2, LoopType, ClientCalls DEF TypeInv, TypeOK
  <2>4. Progress({})
    BY <1>1, <2>3, AgendaProgress
  <2> QED BY <1>4, <2>3, <2>4, RulesHeededStays DEF AddSeed
<1>5. CASE Poststar
  <2> DEFINE first == {[op |-> "register", l |-> r] : r \in rules}
  <2>1. Todo = {} /\ Todo' = first /\ rules' = rules
    BY <1>5, CallsOfTuples DEF Poststar, Todo
  <2>2. \A r \in rules : Done([op |-> "register", l |-> r])'
    BY <2>1 DEF Done
  <2> QED BY <2>1, <2>2 DEF RulesHeeded
<1> QED BY <1>3, <1>4, <1>5

\* The end of a loop, or the return of the client's listener.
LEMMA ReturnProgress ==
    ASSUME SaturationInv, TypeInv',
           EndLoop \/ \E c \in Innermost : ClientReturn(c)
    PROVE  \E S : Progress(S) /\ RulesHeeded' /\ NoneMissed'
<1> USE DEF SaturationInv
<1>1. ASSUME NEW S, Todo \ S \subseteq Todo', UNCHANGED data,
             \A c \in S : c.op = "client"
      PROVE  Progress(S) /\ RulesHeeded' /\ NoneMissed'
  <2>1. Progress(S)
    BY <1>1, AgendaProgress DEF data
  <2> QED BY <1>1, <2>1, NoneMissedStays, RulesHeededStays DEF data
<1>2. CASE EndLoop
  <2>1. agenda \in Seq(SUBSET Call) /\ agenda # <<>> /\ Head(agenda) = {}
    BY <1>2 DEF EndLoop, TypeInv, TypeOK
  <2>2. ASSUME NEW i \in DOMAIN agenda, NEW d \in agenda[i]
        PROVE  i - 1 \in DOMAIN agenda' /\ agenda'[i - 1] = agenda[i]
    <3>1. i # 1
      BY <2>1, <2>2
    <3> QED BY <1>2, <2>1, <3>1 DEF EndLoop
  <2>3. Todo \subseteq Todo'
    BY <2>2 DEF Todo, CallsOf
  <2>4. UNCHANGED data
    BY <1>2 DEF EndLoop
  <2>5. Progress({})
    BY <2>3, <2>4, AgendaProgress DEF data
  <2> QED BY <2>4, <2>5, NoneMissedStays, RulesHeededStays DEF data
<1>3. ASSUME NEW c \in Innermost, ClientReturn(c)
      PROVE  Progress({c}) /\ RulesHeeded' /\ NoneMissed'
  <2>1. Todo \ {c} \subseteq Todo'
    BY <1>3, InnermostTodo, LoopType, ReturnCalls DEF ClientReturn, TypeInv, TypeOK
  <2>2. UNCHANGED data /\ \A d \in {c} : d.op = "client"
    BY <1>3 DEF ClientReturn
  <2> QED BY ONLY <1>1, <2>1, <2>2
<1> QED BY <1>2, <1>3

\* Every step makes progress and preserves the invariant.
LEMMA StepProgress ==
    ASSUME SaturationInv, [Next]_vars
    PROVE  SaturationInv' /\ \E S : Progress(S)
<1> USE DEF SaturationInv
<1>1. TypeInv'
  BY NextType
<1> SUFFICES \E S : Progress(S) /\ RulesHeeded' /\ NoneMissed'
  BY <1>1
<1>2. CASE \/ \E r \in Rules : AddRule(r)
           \/ \E f \in Seeds : AddSeed(f)
           \/ Poststar
  BY <1>1, <1>2, ClientProgress
<1>3. CASE EndLoop \/ \E c \in Innermost : ClientReturn(c)
  BY <1>1, <1>3, ReturnProgress
<1>4. ASSUME NEW c \in Innermost, AddWeightForTransition(c)
      PROVE  Progress({c}) /\ RulesHeeded' /\ NoneMissed'
  BY <1>1, <1>4, AddProgress
<1>5. ASSUME NEW c \in Innermost, NotifyListeners(c)
      PROVE  Progress({c}) /\ RulesHeeded' /\ NoneMissed'
  BY <1>1, <1>5, NotifyProgress
<1>6. ASSUME NEW c \in Innermost, RegisterListener(c)
      PROVE  Progress({c}) /\ RulesHeeded' /\ NoneMissed'
  BY <1>1, <1>6, RegisterProgress
<1>7. ASSUME NEW c \in Innermost, ReconnectPush(c) \/ UnbalancedPop(c)
      PROVE  Progress({c}) /\ RulesHeeded' /\ NoneMissed'
  BY <1>1, <1>7, RecordProgress
<1>8. ASSUME NEW c \in Innermost,
             OnNormal(c) \/ OnPush(c) \/ OnPop(c) \/ OnTransitive(c) \/ OnEpsilon(c)
      PROVE  Progress({c}) /\ RulesHeeded' /\ NoneMissed'
  <2>1. /\ c.op \in {"hear", "replay"} /\ UNCHANGED data
        /\ Return(c, Effects(c.l, c.t, WeightOf(c)))
    BY <1>8 DEF OnNormal, OnPush, OnPop, OnTransitive, OnEpsilon, Heard, Effects
  <2> QED BY <1>1, <2>1, ListenersTurn
<1>9. CASE UNCHANGED vars
  <2>1. Todo' = Todo /\ UNCHANGED data
    BY <1>9 DEF vars, Todo
  <2>2. Todo \ {} \subseteq Todo'
    BY <2>1
  <2>3. Progress({})
    BY <2>1, <2>2, AgendaProgress DEF data
  <2> QED BY <1>1, <2>1, <2>3, NoneMissedStays, RulesHeededStays DEF data
<1> QED
  BY <1>2, <1>3, <1>4, <1>5, <1>6, <1>7, <1>8, <1>9 DEF Next, Step

LEMMA InitSaturation == Init => SaturationInv
<1> SUFFICES ASSUME Init PROVE SaturationInv
  OBVIOUS
<1>1. TypeInv
  BY InitType
<1>2. RulesHeeded /\ NoneMissed
  BY DEF Init, RulesHeeded, NoneMissed
<1> QED BY <1>1, <1>2 DEF SaturationInv

\* With an empty stack, every effect of a listener is visible.
LEMMA QuietDone ==
    ASSUME SaturationInv, Quiet, NEW l \in listeners, NEW t \in DOMAIN weight,
           Hears(l, t)
    PROVE  /\ Todo = {} /\ l \in Listener /\ t \in Transition
           /\ weight[t] \in Weight
           /\ \A d \in CallsOf(Effects(l, t, weight[t])) :
                /\ Done(d) /\ d \in EffectCall
<1>1. Todo = {}
  BY CallsOfTuples DEF Quiet, Todo
<1>2. Told(l, t) /\ l \in Listener /\ t \in Transition /\ weight[t] \in Weight
  BY DEF SaturationInv, NoneMissed, TypeInv, TypeOK
<1>3. Handled(l, t, weight[t])
  BY <1>1, <1>2 DEF Told
<1>4. CallsOf(Effects(l, t, weight[t])) \subseteq EffectCall
  BY <1>2, EffectsType DEF SaturationInv, TypeInv
<1> QED BY <1>1, <1>2, <1>3, <1>4 DEF Handled

\* With an empty stack, every rule has its listener.
LEMMA QuietRules ==
    ASSUME SaturationInv, Quiet, NEW r \in rules
    PROVE  /\ r \in listeners /\ r \in Rule
           /\ \A t : r.s1 = t.start => Hears(r, t)
<1>1. r \in Rule /\ r.kind \in {"normal", "push", "pop"}
  BY ClientAssumption DEF SaturationInv, TypeInv, TypeOK, Rule, NormalRule,
     PushRule, PopRule
<1>2. Todo = {}
  BY CallsOfTuples DEF Quiet, Todo
<1>3. r \in listeners
  BY <1>2 DEF SaturationInv, RulesHeeded, Quiet, Done
<1> QED BY <1>1, <1>3 DEF Hears

\* An effect that adds a transition is accounted for.
LEMMA AddDone ==
    ASSUME Todo = {}, NEW s, NEW a, NEW q, NEW v,
           \A d \in Add(s, a, q, v) : Done(d)
    PROVE  Accounts([start |-> s, label |-> a, target |-> q], v)
BY DEF Add, Done

\* With an empty stack, what a listener for a rule derives is accounted for.
LEMMA NormalDone ==
    ASSUME SaturationInv, Quiet, NEW r \in listeners, r \in NormalRule,
           NEW t \in DOMAIN weight, r.s1 = t.start, NormalApplies(r, t.label),
           NEW a, a = IF r.l2 \in Wildcard THEN t.label ELSE r.l2
    PROVE  Accounts([start |-> r.s2, label |-> a, target |-> t.target],
                    Extend(weight[t], r.w))
<1> DEFINE A == Add(r.s2, a, t.target, Extend(weight[t], r.w))
<1>1. r.kind = "normal" /\ Hears(r, t)
  BY DEF NormalRule, Hears
<1>2. Effects(r, t, weight[t]) = <<A>>
  BY <1>1 DEF Effects, HandleNormal
<1>3. CallsOf(Effects(r, t, weight[t])) = A
  <2> HIDE DEF A
  <2>1. CallsOf(<<A>>) = A
    BY CallsOfTuples
  <2> QED BY <1>2, <2>1
<1>4. Todo = {} /\ \A d \in A : Done(d)
  BY <1>1, <1>3, QuietDone
<1> QED BY <1>4, AddDone

LEMMA PushDone ==
    ASSUME SaturationInv, Quiet, NEW r \in listeners, r \in PushRule,
           NEW t \in DOMAIN weight, r.s1 = t.start, Matches(r.l1, t.label),
           r.callSite \in Wildcard => t.label # Eps,
           NEW ir, ir = CreateState(r.s2, r.l2)
    PROVE  /\ Accounts([start |-> ir, label |-> CallSiteLabel(r, t.label),
                        target |-> t.target], Extend(weight[t], r.w))
           /\ Accounts([start |-> r.s2, label |-> r.l2, target |-> ir], One)
<1> DEFINE site == CallSiteLabel(r, t.label)
           push == [start |-> ir, label |-> site, target |-> t.target]
           A == Add(ir, site, t.target, Extend(weight[t], r.w))
           B == Add(r.s2, r.l2, ir, One)
           C == Register(UpdateEpsilonOnPush(push, r.l1))
<1>1. r.kind = "push" /\ Hears(r, t)
  BY DEF PushRule, Hears
<1>2. Effects(r, t, weight[t]) = <<A, B, C>>
  BY <1>1 DEF Effects, HandlePush
<1>3. A \cup B \subseteq CallsOf(Effects(r, t, weight[t]))
  <2> HIDE DEF A, B, C
  <2>1. CallsOf(<<A, B, C>>) = A \cup B \cup C
    BY DEF CallsOf
  <2> QED BY <1>2, <2>1
<1>4. Todo = {} /\ \A d \in A \cup B : Done(d)
  BY <1>1, <1>3, QuietDone
<1>5. (\A d \in A : Done(d)) /\ (\A d \in B : Done(d))
  BY <1>4
<1> HIDE DEF site
<1>6. Accounts(push, Extend(weight[t], r.w))
  BY <1>4, <1>5, AddDone
<1>7. Accounts([start |-> r.s2, label |-> r.l2, target |-> ir], One)
  BY <1>4, <1>5, AddDone
<1> QED BY <1>6, <1>7 DEF site

LEMMA PopDone ==
    ASSUME SaturationInv, Quiet, NEW r \in listeners, r \in PopRule,
           NEW t \in DOMAIN weight, r.s1 = t.start, r.l1 = t.label,
           t.target \in Generated, NEW v, v = Extend(weight[t], r.w)
    PROVE  /\ Accounts([start |-> r.s2, label |-> Eps, target |-> t.target], v)
           /\ \A u \in DOMAIN weight : u.start = t.target =>
                Accounts([start |-> r.s2, label |-> u.label, target |-> u.target],
                         Extend(weight[u], v))
<1> DEFINE q == t.target
           pop == [start |-> r.s2, label |-> Eps, target |-> q]
           l == UpdateTransitivePop(pop, v)
           A == Add(r.s2, Eps, q, v)
           B == Register(l)
<1>1. r.kind = "pop" /\ Hears(r, t)
  BY DEF PopRule, Hears
<1>2. /\ Todo = {} /\ t \in Transition /\ weight[t] \in Weight
      /\ \A d \in CallsOf(Effects(r, t, weight[t])) : Done(d)
  BY <1>1, QuietDone
<1>3. Pop(r, t, weight[t]) = <<A, B>>
  BY DEF Pop
<1>4. CallsOf(Pop(r, t, weight[t])) \subseteq CallsOf(Effects(r, t, weight[t]))
  <2>1. /\ Pop(r, t, weight[t]) \in Seq(SUBSET Call)
        /\ Forward(r, t) \in Seq(SUBSET Call)
    BY <1>2, PopType, EffectCalls
  <2>2. Effects(r, t, weight[t]) = Pop(r, t, weight[t]) \o Forward(r, t)
    BY <1>1 DEF Effects, HandlePop
  <2> QED BY <2>1, <2>2, CallsOfConcat
<1>5. (\A d \in A : Done(d)) /\ (\A d \in B : Done(d))
  <2> HIDE DEF A, B
  <2>1. CallsOf(<<A, B>>) = A \cup B
    BY CallsOfTuples
  <2> QED BY <1>2, <1>3, <1>4, <2>1
<1>6. Accounts(pop, v)
  BY <1>2, <1>5, AddDone
<1>7. l \in listeners
  <2>1. [op |-> "register", l |-> l] \in B
    BY DEF Register
  <2>2. Done([op |-> "register", l |-> l])
    BY <1>5, <2>1
  <2> HIDE DEF l
  <2> QED BY <1>2, <2>2 DEF Done
<1>8. l.kind = "transitive" /\ l.s1 = q /\ l.t = pop /\ l.w = v
  BY DEF UpdateTransitivePop
<1> HIDE DEF l
<1>9. ASSUME NEW u \in DOMAIN weight, u.start = q
      PROVE  Accounts([start |-> r.s2, label |-> u.label, target |-> u.target],
                      Extend(weight[u], v))
  <2> DEFINE C == Add(r.s2, u.label, u.target, Extend(weight[u], v))
  <2>1. \A d \in CallsOf(Effects(l, u, weight[u])) : Done(d)
    BY <1>7, <1>8, <1>9, QuietDone DEF Hears
  <2>2. Effects(l, u, weight[u]) = <<C>>
    BY <1>8 DEF Effects, HandleTransitive
  <2>3. CallsOf(<<C>>) = C
    <3> HIDE DEF C
    <3> QED BY CallsOfTuples
  <2>4. \A d \in C : Done(d)
    <3> HIDE DEF C
    <3> QED BY <2>1, <2>2, <2>3
  <2> QED BY <1>2, <2>4, AddDone
<1> QED BY <1>6, <1>9

\* Behind an Empty label a pop rule has its listener, too.
LEMMA ForwardDone ==
    ASSUME SaturationInv, Quiet, NEW r \in listeners, r \in PopRule,
           NEW t \in DOMAIN weight, r.s1 = t.start, t.label \in Empties
    PROVE  [r EXCEPT !.s1 = t.target] \in listeners
<1> DEFINE m == [r EXCEPT !.s1 = t.target]
           B == Register(m)
<1>1. r.kind = "pop" /\ Hears(r, t)
  BY DEF PopRule, Hears
<1>2. /\ Todo = {} /\ t \in Transition /\ weight[t] \in Weight
      /\ \A d \in CallsOf(Effects(r, t, weight[t])) : Done(d)
  BY <1>1, QuietDone
<1>3. Forward(r, t) = <<B>>
  BY DEF Forward
<1>4. CallsOf(Forward(r, t)) \subseteq CallsOf(Effects(r, t, weight[t]))
  <2>1. /\ Pop(r, t, weight[t]) \in Seq(SUBSET Call)
        /\ Forward(r, t) \in Seq(SUBSET Call)
    BY <1>2, PopType, EffectCalls
  <2>2. Effects(r, t, weight[t]) = Pop(r, t, weight[t]) \o Forward(r, t)
    BY <1>1 DEF Effects, HandlePop
  <2> QED BY <2>1, <2>2, CallsOfConcat
<1>5. \A d \in B : Done(d)
  <2> HIDE DEF B
  <2>1. CallsOf(<<B>>) = B
    BY CallsOfTuples
  <2> QED BY <1>2, <1>3, <1>4, <2>1
<1>6. Done([op |-> "register", l |-> m])
  BY <1>5 DEF Register
<1> HIDE DEF m
<1> QED BY <1>2, <1>6 DEF Done, m

LEMMA InvSaturated == SaturationInv => Saturated
<1> SUFFICES ASSUME SaturationInv, Quiet, NEW r \in rules, NEW t \in DOMAIN weight,
                    NEW f \in Consequences(r, t)
             PROVE  Accounts(f.t, f.w)
  BY DEF Saturated
<1>1. r.s1 = t.start /\ Matches(r.l1, t.label)
  BY DEF Consequences
<1>2. r \in listeners /\ r \in Rule
  BY QuietRules
<1>3. CASE r.kind = "normal"
  <2>1. f \in NormalFacts(r, t, weight[t]) /\ r \in NormalRule
    BY <1>1, <1>2, <1>3 DEF Consequences, Rule, PushRule, PopRule
  <2>2. PICK a \in Label :
           /\ \/ a = r.l2
              \/ /\ r.l2 \in Wildcard /\ a = t.label
                 /\ a # Eps /\ a \notin Excludes[r.l2]
           /\ f = [t |-> [start |-> r.s2, label |-> a, target |-> t.target],
                   w |-> Extend(weight[t], r.w)]
    BY <2>1 DEF NormalFacts
  <2>3. NormalApplies(r, t.label) /\ a = IF r.l2 \in Wildcard THEN t.label ELSE r.l2
    BY <1>1, <2>2, LabelAssumption DEF NormalApplies
  <2> QED BY <1>1, <1>2, <2>1, <2>2, <2>3, NormalDone
<1>4. CASE r.kind = "push"
  <2> DEFINE ir == CreateState(r.s2, r.l2)
  <2>1. f \in PushFacts(r, t, weight[t]) /\ r \in PushRule
    BY <1>1, <1>2, <1>4 DEF Consequences, Rule, NormalRule, PopRule
  <2>2. PICK a \in Label :
           /\ a = r.callSite \/ (r.callSite \in Wildcard /\ a = t.label /\ a # Eps)
           /\ \/ f = [t |-> [start |-> ir, label |-> a, target |-> t.target],
                      w |-> Extend(weight[t], r.w)]
              \/ f = [t |-> [start |-> r.s2, label |-> r.l2, target |-> ir],
                      w |-> One]
    BY <2>1 DEF PushFacts
  <2>3. /\ r.callSite \in Wildcard => t.label # Eps
        /\ a = CallSiteLabel(r, t.label)
    BY <2>2, LabelAssumption DEF CallSiteLabel
  <2>4. /\ Accounts([start |-> ir, label |-> CallSiteLabel(r, t.label),
                     target |-> t.target], Extend(weight[t], r.w))
        /\ Accounts([start |-> r.s2, label |-> r.l2, target |-> ir], One)
    BY <1>1, <1>2, <2>1, <2>3, PushDone
  <2> QED BY <2>2, <2>3, <2>4
<1>5. CASE r.kind = "pop"
  <2> DEFINE v == Extend(weight[t], r.w)
  <2>1. r \in PopRule
    BY <1>2, <1>5 DEF Rule, NormalRule, PushRule
  <2>2. t.target \in Generated /\ f \in PopFacts(r, t, weight[t])
    BY <1>1, <1>5 DEF Consequences
  <2>3. r.l1 = t.label
    BY <1>1, <2>1, LabelAssumption DEF Matches, PopRule
  <2>4. /\ Accounts([start |-> r.s2, label |-> Eps, target |-> t.target], v)
        /\ \A u \in DOMAIN weight : u.start = t.target =>
             Accounts([start |-> r.s2, label |-> u.label, target |-> u.target],
                      Extend(weight[u], v))
    BY <1>1, <1>2, <2>1, <2>2, <2>3, PopDone
  <2> QED BY <2>2, <2>4 DEF PopFacts
<1> QED BY <1>2, <1>3, <1>4, <1>5 DEF Rule, NormalRule, PushRule, PopRule

LEMMA InvPushesConnected == SaturationInv => PushesConnected
<1> SUFFICES ASSUME SaturationInv, Quiet, NEW r \in rules,
                    NEW t \in DOMAIN weight, NEW e \in DOMAIN weight,
                    r.kind = "push", r.s1 = t.start, Matches(r.l1, t.label),
                    r.callSite \in Wildcard => t.label # Eps,
                    e.label = Eps, e.target = CreateState(r.s2, r.l2)
             PROVE  \E c \in connected :
                      /\ c.callSite = r.l1
                      /\ c.returnSite = IF r.callSite \in Wildcard
                                        THEN t.label ELSE r.callSite
                      /\ c.fact = e.start /\ c.returned = weight[e]
  BY DEF PushesConnected
<1> DEFINE ir == CreateState(r.s2, r.l2)
           site == IF r.callSite \in Wildcard THEN t.label ELSE r.callSite
           push == [start |-> ir, label |-> site, target |-> t.target]
           l == UpdateEpsilonOnPush(push, r.l1)
           A == Add(ir, site, t.target, Extend(weight[t], r.w))
           B == Add(r.s2, r.l2, ir, One)
           C == Register(l)
<1>1. /\ Todo = {}
      /\ \A d \in CallsOf(Effects(r, t, weight[t])) : Done(d)
  BY QuietRules, QuietDone
<1>2. Effects(r, t, weight[t]) = <<A, B, C>>
  BY DEF Effects, HandlePush, CallSiteLabel
<1>3. l \in listeners
  <2>1. [op |-> "register", l |-> l] \in C
    BY DEF Register
  <2> HIDE DEF A, B, C, l
  <2>2. CallsOf(<<A, B, C>>) = A \cup B \cup C
    BY DEF CallsOf
  <2>3. Done([op |-> "register", l |-> l])
    BY <1>1, <1>2, <2>1, <2>2
  <2> QED BY <1>1, <2>3 DEF Done
<1>4. l.kind = "epsilon" /\ l.s1 = ir /\ l.t = push /\ l.callSite = r.l1
  BY DEF UpdateEpsilonOnPush
<1> HIDE DEF l
<1> DEFINE entry == [callSite |-> l.callSite, returnSite |-> l.t.label,
                     fact |-> e.start, combined |-> GetWeightFor(l.t),
                     returned |-> weight[e]]
           d == [op |-> "reconnect", e |-> entry]
<1>5. Done(d)
  <2>1. \A b \in CallsOf(Effects(l, e, weight[e])) : Done(b)
    BY <1>3, <1>4, QuietDone DEF Hears
  <2>2. Effects(l, e, weight[e]) = <<{d}>>
    BY <1>4 DEF Effects, HandleEpsilon
  <2> HIDE DEF d
  <2>3. CallsOf(<<{d}>>) = {d}
    BY CallsOfTuples
  <2> QED BY <2>1, <2>2, <2>3
<1>6. PICK c \in connected : Same(c, entry)
  BY <1>1, <1>5 DEF Done
<1> QED BY <1>4, <1>6 DEF Same

LEMMA SaturationInvariant == Spec => []SaturationInv
<1>1. SaturationInv /\ [Next]_vars => SaturationInv'
  BY StepProgress
<1> QED BY InitSaturation, <1>1, PTL DEF Spec

\* For every pushdown system, every weight domain whose Combine is a join, and
\* every order in which rules, transitions and callbacks arrive: whenever the
\* outermost call has returned, no rule yields a transition or a better weight
\* that the automaton lacks.
THEOREM SaturatedWhenQuiet == Spec => []Saturated
BY SaturationInvariant, InvSaturated, PTL

\* Likewise every return through a push has by then been reported to the
\* client with its final weight.
THEOREM PushesConnectedWhenQuiet == Spec => []PushesConnected
BY SaturationInvariant, InvPushesConnected, PTL

\* No step drops a transition, a listener or a report, and weights and
\* unbalanced pops only improve.
THEOREM OnlyImproves == Spec => WeightsOnlyImprove
<1>1. SaturationInv /\ [Next]_vars
        => [/\ Improves(weight', weight) /\ Improves(unbalanced', unbalanced)
            /\ connected \subseteq connected' /\ listeners \subseteq listeners']_vars
  BY StepProgress DEF Progress
<1> QED BY <1>1, SaturationInvariant, PTL DEF Spec, WeightsOnlyImprove

-----------------------------------------------------------------------------
(***************************************************************************)
(* What the client is told is true.  ReportInv is inductive, too: what the *)
(* automaton said when a call was made it says for good.                   *)
(***************************************************************************)
LEMMA KnownStays ==
    ASSUME TypeInv, TypeInv', Improves(weight', weight), NEW t, NEW w \in Weight,
           Known(t, w)
    PROVE  Known(t, w)'
<1>1. /\ t \in DOMAIN weight' /\ Combine(weight'[t], weight[t]) = weight'[t]
      /\ weight[t] \in Weight /\ weight'[t] \in Weight
  BY DEF Known, Improves, TypeInv, TypeOK
<1>2. Combine(weight'[t], w) = weight'[t]
  BY <1>1, AbsorbsTransitive DEF Known
<1> QED BY <1>1, <1>2 DEF Known

LEMMA ReturnsStays ==
    ASSUME Improves(weight', weight), NEW e, Returns(e)
    PROVE  Returns(e)'
BY DEF Returns, Improves

LEMMA JustifiedStays ==
    ASSUME TypeInv, TypeInv', Improves(weight', weight), listeners \subseteq listeners',
           NEW c \in Call, Justified(c)
    PROVE  Justified(c)'
<1>1. c.op \in {"notifyOut", "notifyIn", "hear", "unbalanced"} => Known(c.t, c.w)'
  BY CallFields, KnownStays DEF Justified
<1>2. c.op = "reconnect" => Returns(c.e)'
  BY ReturnsStays DEF Justified
<1> QED BY <1>1, <1>2 DEF Justified, ProperListener, Hears

\* A step that makes only justified calls and records nothing false.
LEMMA ReportStays ==
    ASSUME TypeInv, TypeInv', ReportInv, Improves(weight', weight),
           listeners \subseteq listeners', Recorded',
           NEW c, NEW body \in Seq(SUBSET Call), Stacked(c, body),
           c.op = "add" => c.t \in DOMAIN weight' \/ c.t.label = Eps,
           \A i \in DOMAIN body : \A d \in body[i] :
             /\ Justified(d)'
             /\ d.op = "register" /\ d.l.kind = "epsilon" =>
                  \E j \in DOMAIN body :
                    j < i /\ \E b \in body[j] : b.op = "add" /\ b.t = d.l.t
    PROVE  ReportInv'
<1>1. DOMAIN weight \subseteq DOMAIN weight'
  BY DEF Improves
<1>2. DOMAIN agenda \subseteq Nat /\ DOMAIN body \subseteq Nat /\ Len(body) \in Nat
  BY DEF TypeInv, TypeOK
<1>3. ASSUME NEW i \in DOMAIN agenda', NEW d \in agenda'[i] PROVE Justified(d)'
  <2>1. CASE i \in DOMAIN body /\ agenda'[i] = body[i]
    BY <1>3, <2>1
  <2>2. CASE \E k \in DOMAIN agenda : agenda'[i] \subseteq agenda[k]
    <3>1. d \in Todo
      BY <1>3, <2>2 DEF Todo, CallsOf
    <3>2. Justified(d) /\ d \in Call
      BY <3>1, InnermostTodo DEF ReportInv, CallsJustified, TypeInv
    <3> QED BY <3>2, JustifiedStays
  <2> QED BY <2>1, <2>2, LoopAfter
<1>4. CallsJustified'
  BY <1>3 DEF CallsJustified, Todo, CallsOf
<1>5. ASSUME NEW i \in DOMAIN agenda', NEW d \in agenda'[i],
             d.op = "register", d.l.kind = "epsilon"
      PROVE  \/ d.l.t \in DOMAIN weight'
             \/ \E j \in DOMAIN agenda' :
                  j < i /\ \E b \in agenda'[j] : b.op = "add" /\ b.t = d.l.t
  <2>1. CASE i \in DOMAIN body /\ agenda'[i] = body[i]
    <3>1. PICK j \in DOMAIN body :
             j < i /\ \E b \in body[j] : b.op = "add" /\ b.t = d.l.t
      BY <1>5, <2>1
    <3>2. j \in DOMAIN agenda' /\ agenda'[j] = body[j]
      BY DEF Stacked
    <3> QED BY <3>1, <3>2
  <2>2. CASE \E k \in DOMAIN agenda : i = k + Len(body) /\ agenda'[i] \subseteq agenda[k]
    <3>1. PICK k \in DOMAIN agenda : i = k + Len(body) /\ agenda'[i] \subseteq agenda[k]
      BY <2>2
    <3>2. d \in agenda[k]
      BY <1>5, <3>1
    <3>3. d.l.t.label # Eps
      <4>1. d \in Todo
        BY <3>2 DEF Todo, CallsOf
      <4> QED BY <1>5, <4>1 DEF ReportInv, CallsJustified, Justified, ProperListener
    <3>4. CASE d.l.t \in DOMAIN weight
      BY <1>1, <3>4
    <3>5. CASE \E j \in DOMAIN agenda :
                 j < k /\ \E b \in agenda[j] : b.op = "add" /\ b.t = d.l.t
      <4>1. PICK j \in DOMAIN agenda :
              j < k /\ \E b \in agenda[j] : b.op = "add" /\ b.t = d.l.t
        BY <3>5
      <4>2. PICK b \in agenda[j] : b.op = "add" /\ b.t = d.l.t
        BY <4>1
      <4>3. CASE b = c
        BY <3>3, <4>2, <4>3
      <4>4. CASE b # c
        <5> DEFINE n == j + Len(body)
        <5>1. n \in DOMAIN agenda' /\ agenda'[n] = IF j = 1 THEN agenda[1] \ {c} ELSE agenda[j]
          BY DEF Stacked
        <5>2. n < i
          BY <1>2, <3>1, <4>1
        <5> HIDE DEF n
        <5>3. b \in agenda'[n]
          BY <4>4, <5>1
        <5> QED BY <4>2, <5>1, <5>2, <5>3
      <4> QED BY <4>3, <4>4
    <3> QED BY <1>5, <3>2, <3>4, <3>5 DEF ReportInv, PushedFirst
  <2> QED BY <2>1, <2>2, LoopAfter
<1>6. PushedFirst'
  BY <1>5 DEF PushedFirst
<1> QED BY <1>4, <1>6 DEF ReportInv

LEMMA RecordedStays ==
    ASSUME TypeInv, TypeInv', Recorded, Improves(weight', weight),
           UNCHANGED <<listeners, connected, unbalanced>>
    PROVE  Recorded'
<1>1. \A l \in listeners : /\ ProperListener(l)'
                           /\ l.kind = "epsilon" => l.t \in DOMAIN weight'
  BY DEF Recorded, ProperListener, Improves
<1>2. \A e \in connected : Returns(e)'
  BY ReturnsStays DEF Recorded
<1>3. ASSUME NEW e \in DOMAIN unbalanced
      PROVE  Known(e[2], unbalanced[e])' /\ e[2].target \notin Generated
  <2>1. unbalanced[e] \in Weight /\ Known(e[2], unbalanced[e])
    BY DEF TypeInv, TypeOK, Recorded
  <2>2. PICK w \in Weight : w = unbalanced[e]
    BY <2>1
  <2>3. Known(e[2], w)'
    BY <2>1, <2>2, KnownStays
  <2> QED BY <2>2, <2>3 DEF Recorded
<1> QED BY <1>1, <1>2, <1>3 DEF Recorded

\* The stack after a call has run, or the client has called.
LEMMA RunStack ==
    ASSUME TypeInv, NEW c \in Innermost, NEW body \in Seq(SUBSET Call), Return(c, body)
    PROVE  Stacked(c, body) /\ c \in Call /\ c \in Todo
<1>1. agenda \in Seq(SUBSET Call)
  BY DEF TypeInv, TypeOK
<1>2. Stacked(c, body) /\ c \in Call
  BY <1>1, ReturnStack
<1> QED BY <1>2, InnermostTodo DEF TypeInv

Client == [op |-> "none"]

LEMMA ClientStack ==
    ASSUME TypeInv, NEW body \in Seq(SUBSET Call), agenda' = body \o agenda
    PROVE  Stacked(Client, body) /\ Client.op = "none"
<1>1. Client \notin Call /\ Client.op = "none"
  BY DEF Client, Call, EffectCall, AddCall, NotifyCall, HearCall, ReplayCall,
         RegisterCall, UnbalancedCall, ReconnectCall, ClientCall
<1>2. agenda \in Seq(SUBSET Call)
  BY DEF TypeInv, TypeOK
<1> QED BY <1>1, <1>2, PushedStack

\* The calls a listener makes when it is told of t with a weight t has had.
LEMMA EffectsJustified ==
    ASSUME TypeInv, Recorded, NEW l \in listeners, NEW t \in Transition,
           NEW w \in Weight, Known(t, w), Hears(l, t),
           NEW i \in DOMAIN Effects(l, t, w), NEW d \in Effects(l, t, w)[i]
    PROVE  /\ Justified(d)
           /\ d.op = "register" /\ d.l.kind = "epsilon" =>
                \E j \in DOMAIN Effects(l, t, w) :
                  j < i /\ \E b \in Effects(l, t, w)[j] : b.op = "add" /\ b.t = d.l.t
<1>1. l \in Listener /\ ProperListener(l)
  BY DEF TypeInv, TypeOK, Recorded
<1>2. CASE l.kind = "normal"
  <2>1. d.op = "add"
    BY <1>2 DEF Effects, HandleNormal, Add
  <2> QED BY <2>1 DEF Justified
<1>3. CASE l.kind = "push"
  <2> DEFINE ir == CreateState(l.s2, l.l2)
             site == CallSiteLabel(l, t.label)
             push == [start |-> ir, label |-> site, target |-> t.target]
             A == Add(ir, site, t.target, Extend(w, l.w))
             B == Add(l.s2, l.l2, ir, One)
             C == Register(UpdateEpsilonOnPush(push, l.l1))
  <2>1. /\ Effects(l, t, w) = <<A, B, C>>
        /\ l.callSite \in Wildcard => t.label # Eps
    BY <1>3 DEF Effects, HandlePush
  <2>2. push.label # Eps /\ push.start = ir
    BY <1>1, <1>3, <2>1, ClientAssumption DEF ProperListener, CallSiteLabel
  <2>3. /\ UpdateEpsilonOnPush(push, l.l1).kind = "epsilon"
        /\ UpdateEpsilonOnPush(push, l.l1).s1 = push.start
        /\ UpdateEpsilonOnPush(push, l.l1).t = push
    BY DEF UpdateEpsilonOnPush
  <2>4. \A b \in A : b.op = "add" /\ b.t = push
    BY DEF Add
  <2>5. \A b \in B : b.op = "add"
    BY DEF Add
  <2>6. \A b \in C : b.op = "register" /\ b.l = UpdateEpsilonOnPush(push, l.l1)
    BY DEF Register
  <2>7. A # {}
    BY DEF Add
  <2> HIDE DEF A, B, C, push
  <2>8. i \in {1, 2, 3} /\ DOMAIN Effects(l, t, w) = {1, 2, 3}
        /\ Effects(l, t, w)[1] = A /\ Effects(l, t, w)[2] = B /\ Effects(l, t, w)[3] = C
    BY <2>1
  <2>9. CASE i \in {1, 2}
    <3>1. d.op = "add"
      BY <2>4, <2>5, <2>8, <2>9
    <3> QED BY <3>1 DEF Justified
  <2>10. CASE i = 3
    <3>1. d.op = "register" /\ d.l.kind = "epsilon" /\ d.l.t = push /\ d.l.s1 = d.l.t.start
          /\ d.l.t.label # Eps
      BY <2>2, <2>3, <2>6, <2>8, <2>10
    <3>2. Justified(d)
      BY <3>1 DEF Justified, ProperListener
    <3> QED BY <2>4, <2>7, <2>8, <2>10, <3>1, <3>2
  <2> QED BY <2>8, <2>9, <2>10
<1>4. CASE l.kind = "pop"
  <2>1. Pop(l, t, w) \in Seq(SUBSET EffectCall) /\ Forward(l, t) \in Seq(SUBSET EffectCall)
    BY <1>1, <1>4, ListenerKinds, PopType
  <2>2. Effects(l, t, w) = Pop(l, t, w) \o Forward(l, t)
    BY <1>4 DEF Effects, HandlePop
  <2>3. \/ \E n \in DOMAIN Pop(l, t, w) : d \in Pop(l, t, w)[n]
        \/ \E n \in DOMAIN Forward(l, t) : d \in Forward(l, t)[n]
    <3>1. d \in CallsOf(Pop(l, t, w) \o Forward(l, t))
      BY <2>2 DEF CallsOf
    <3>2. d \in CallsOf(Pop(l, t, w)) \cup CallsOf(Forward(l, t))
      BY <2>1, <3>1, CallsOfConcat, EffectCalls
    <3> QED BY <3>2 DEF CallsOf
  <2>4. ASSUME d.op = "register" PROVE d.l.kind \in {"transitive", "pop"}
    BY <1>1, <1>4, <2>3, <2>4, ListenerKinds
       DEF Pop, Forward, Add, Register, UpdateTransitivePop, PopRule
  <2>5. /\ d.op \in {"add", "register", "unbalanced"}
        /\ d.op = "unbalanced" => d.t = t /\ d.w = w /\ t.target \notin Generated
    BY <2>3 DEF Pop, Forward, Add, Register
  <2> QED BY <2>4, <2>5 DEF Justified, ProperListener
<1>5. CASE l.kind = "transitive"
  <2>1. d.op = "add"
    BY <1>5 DEF Effects, HandleTransitive, Add
  <2> QED BY <2>1 DEF Justified
<1>6. CASE l.kind = "epsilon"
  <2>1. /\ t.label = Eps /\ d.op = "reconnect"
        /\ d.e.fact = t.start /\ d.e.returnSite = l.t.label
        /\ d.e.combined = GetWeightFor(l.t)
    BY <1>6 DEF Effects, HandleEpsilon
  <2>2. l.t \in DOMAIN weight /\ l.t.start = l.s1 /\ l.s1 = t.target /\ t \in DOMAIN weight
    BY <1>1, <1>6 DEF Recorded, ProperListener, Hears, Known
  <2>3. d.e.combined # {}
    BY <2>1, <2>2 DEF GetWeightFor
  <2>4. Returns(d.e)
    BY <2>1, <2>2, <2>3 DEF Returns
  <2> QED BY <2>1, <2>4 DEF Justified
<1> QED BY <1>1, <1>2, <1>3, <1>4, <1>5, <1>6
        DEF Listener, Rule, NormalRule, PushRule, PopRule, TransitiveListener,
            EpsilonListener

\* A listener's turn.
LEMMA ReportTurn ==
    ASSUME SaturationInv, TypeInv', ReportInv, NEW c \in Innermost,
           c.op \in {"hear", "replay"}, UNCHANGED data,
           Return(c, Effects(c.l, c.t, WeightOf(c)))
    PROVE  ReportInv'
<1> USE DEF SaturationInv
<1> DEFINE body == Effects(c.l, c.t, WeightOf(c))
<1>1. /\ c \in Call /\ c.l \in Listener /\ c.t \in Transition
      /\ WeightOf(c) \in Weight
  BY HeardType
<1>2. /\ body \in Seq(SUBSET Call) /\ Stacked(c, body) /\ c \in Todo
  BY <1>1, EffectsType, EffectCalls, RunStack DEF TypeInv
<1>3. c.l \in listeners /\ Hears(c.l, c.t) /\ Known(c.t, WeightOf(c))
  <2>1. Justified(c)
    BY <1>2 DEF ReportInv, CallsJustified
  <2>2. c.op = "replay" => Known(c.t, weight[c.t])
    BY <1>2, CombineAssumption DEF TypeInv, ReplaysFind, TypeOK, Known
  <2> QED BY <2>1, <2>2 DEF Justified, WeightOf
<1>4. ASSUME NEW i \in DOMAIN body, NEW d \in body[i]
      PROVE  /\ Justified(d)'
             /\ d.op = "register" /\ d.l.kind = "epsilon" =>
                  \E j \in DOMAIN body :
                    j < i /\ \E b \in body[j] : b.op = "add" /\ b.t = d.l.t
  <2>1. /\ Justified(d)
        /\ d.op = "register" /\ d.l.kind = "epsilon" =>
             \E j \in DOMAIN body :
               j < i /\ \E b \in body[j] : b.op = "add" /\ b.t = d.l.t
    BY <1>1, <1>3, EffectsJustified DEF ReportInv
  <2>2. Justified(d)'
    BY <2>1 DEF data, Justified, Known, Hears, ProperListener, Returns
  <2> QED BY <2>1, <2>2
<1>5. Improves(weight', weight) /\ listeners \subseteq listeners'
  BY ImprovesRefl DEF data, TypeInv, TypeOK
<1>6. Recorded'
  BY <1>5, RecordedStays DEF data, ReportInv
<1> HIDE DEF body
<1> QED BY <1>2, <1>4, <1>5, <1>6, ReportStays

LEMMA ReportAdd ==
    ASSUME SaturationInv, TypeInv', ReportInv, NEW c \in Innermost,
           AddWeightForTransition(c), Improves(weight', weight)
    PROVE  ReportInv'
<1> USE DEF SaturationInv
<1> DEFINE new == Put(weight, c.t, c.w)
           client == TellClient("weight")
           out == Notify("notifyOut", c.t, new[c.t])
           in == Notify("notifyIn", c.t, new[c.t])
           body == <<client, out, in>>
<1>1. c \in Call /\ c.op = "add" /\ c.t \in Transition /\ c.w \in Weight
  BY InnermostTodo, CallFields DEF AddWeightForTransition, TypeInv
<1>2. UNCHANGED <<rules, started, seeded, listeners, connected, unbalanced>>
  BY DEF AddWeightForTransition
<1>3. Recorded'
  BY <1>2, RecordedStays DEF ReportInv
<1>4. c.t \in DOMAIN new /\ new[c.t] \in Weight
  BY <1>1, WeightAssumption DEF Put, TypeInv, TypeOK
<1>5. CASE /\ (c.t.start = c.t.target /\ c.t.label = Eps) \/ new = weight
           /\ weight' = weight /\ Return(c, <<>>)
  <2>1. Stacked(c, <<>>) /\ <<>> \in Seq(SUBSET Call)
    BY <1>5, LoopType, RunStack
  <2>2. c.t \in DOMAIN weight' \/ c.t.label = Eps
    BY <1>4, <1>5
  <2>3. DOMAIN <<>> = {}
    OBVIOUS
  <2> QED BY <1>2, <1>3, <2>1, <2>2, <2>3, ReportStays
<1>6. CASE weight' = new /\ Return(c, body)
  <2>1. client \in SUBSET Call /\ out \in SUBSET Call /\ in \in SUBSET Call
    BY <1>1, <1>4, NotifyType
  <2>2. PICK v \in Weight : v = new[c.t] /\ v = weight'[c.t] /\ Combine(v, v) = v
    BY <1>4, <1>6, CombineAssumption
  <2>3. /\ \A d \in client : d.op = "client"
        /\ \A d \in out \cup in : /\ d.op \in {"notifyOut", "notifyIn"}
                                  /\ d.t = c.t /\ d.w = v
    BY <2>2 DEF TellClient, Notify
  <2>4. c.t \in DOMAIN weight' /\ Combine(weight'[c.t], v) = weight'[c.t]
    BY <1>4, <1>6, <2>2
  <2>5. ASSUME NEW d \in client \cup out \cup in
        PROVE  Justified(d)' /\ d.op # "register"
    <3>1. d.op = "client" \/ (d.op \in {"notifyOut", "notifyIn"} /\ d.t = c.t /\ d.w = v)
      BY <2>3
    <3> HIDE DEF client, out, in, new
    <3> QED BY <2>4, <3>1 DEF Justified, Known
  <2> HIDE DEF client, out, in, new
  <2>6. body \in Seq(SUBSET Call)
    BY <2>1, LoopType
  <2>7. \A i \in DOMAIN body : body[i] \subseteq client \cup out \cup in
    OBVIOUS
  <2> HIDE DEF body
  <2>8. Stacked(c, body)
    BY <1>6, <2>6, RunStack
  <2>9. \A i \in DOMAIN body : \A d \in body[i] : Justified(d)' /\ d.op # "register"
    BY <2>5, <2>7
  <2> QED BY <1>2, <1>3, <2>6, <2>8, <2>9, <2>4, ReportStays
<1> QED BY <1>5, <1>6 DEF AddWeightForTransition

LEMMA ReportNotify ==
    ASSUME SaturationInv, TypeInv', ReportInv, NEW c \in Innermost, NotifyListeners(c)
    PROVE  ReportInv'
<1> USE DEF SaturationInv
<1> DEFINE told == {k \in listeners :
                      /\ Hears(k, c.t)
                      /\ (k.kind = "epsilon") <=> (c.op = "notifyIn")}
           first == {[op |-> "hear", l |-> l, t |-> c.t, w |-> c.w] : l \in told}
           body == <<first>>
<1>1. /\ c \in Call /\ c.op \in {"notifyOut", "notifyIn"} /\ c \in Todo
      /\ c.t \in Transition /\ c.w \in Weight
  BY InnermostTodo, CallFields DEF NotifyListeners, TypeInv
<1>2. Return(c, body) /\ UNCHANGED data
  BY DEF NotifyListeners
<1>3. first \in SUBSET Call
  BY <1>1 DEF Call, HearCall, TypeInv, TypeOK
<1>4. Known(c.t, c.w)
  BY <1>1 DEF ReportInv, CallsJustified, Justified
<1>5. \A d \in first : Justified(d)' /\ d.op # "register"
  BY <1>2, <1>4 DEF Justified, data, Known, Hears
<1> HIDE DEF first
<1>6. body \in Seq(SUBSET Call)
  BY <1>3, LoopType
<1>7. \A i \in DOMAIN body : body[i] = first
  OBVIOUS
<1> HIDE DEF body
<1>8. Stacked(c, body)
  BY <1>2, <1>6, RunStack
<1>9. Improves(weight', weight) /\ listeners \subseteq listeners'
  BY <1>2, ImprovesRefl DEF data, TypeInv, TypeOK
<1>10. Recorded'
  BY <1>2, <1>9, RecordedStays DEF data, ReportInv
<1>11. \A i \in DOMAIN body : \A d \in body[i] : Justified(d)' /\ d.op # "register"
  BY <1>5, <1>7
<1> QED BY <1>1, <1>6, <1>8, <1>9, <1>10, <1>11, ReportStays

\* A listener for a push is registered once the transition that the push leaves
\* by is there: its addition came before.
LEMMA ReportRegister ==
    ASSUME SaturationInv, TypeInv', ReportInv, NEW c \in Innermost, RegisterListener(c)
    PROVE  ReportInv'
<1> USE DEF SaturationInv
<1> DEFINE body == IF c.l \in listeners THEN <<>> ELSE <<Replay(c.l)>>
<1>1. c \in Call /\ c \in Todo /\ c.op = "register" /\ c.l \in Listener
  BY InnermostTodo, CallFields DEF RegisterListener, TypeInv
<1>2. /\ Return(c, body) /\ listeners' = listeners \cup {c.l}
      /\ UNCHANGED <<rules, started, seeded, weight, connected, unbalanced>>
  BY DEF RegisterListener
<1>3. Replay(c.l) \in SUBSET Call
  BY <1>1 DEF Replay, TypeInv, TypeOK, Call, ReplayCall
<1>4. \A d \in Replay(c.l) : Justified(d)' /\ d.op # "register"
  BY <1>2 DEF Replay, Justified, Hears
<1>5. body \in Seq(SUBSET Call) /\ \A i \in DOMAIN body : body[i] = Replay(c.l)
  <2>1. CASE body = <<>>
    <3>1. DOMAIN <<>> = {} /\ <<>> \in Seq(SUBSET Call)
      BY LoopType
    <3> HIDE DEF body
    <3> QED BY <2>1, <3>1
  <2>2. CASE body = <<Replay(c.l)>>
    <3>1. <<Replay(c.l)>> \in Seq(SUBSET Call)
      BY <1>3, LoopType
    <3> HIDE DEF body
    <3> QED BY <2>2, <3>1
  <2> QED BY <2>1, <2>2
<1> HIDE DEF body
<1>6. Stacked(c, body)
  BY <1>2, <1>5, RunStack
<1>7. Improves(weight', weight) /\ listeners \subseteq listeners'
  BY <1>2, ImprovesRefl DEF TypeInv, TypeOK
<1>8. ProperListener(c.l) /\ (c.l.kind = "epsilon" => c.l.t \in DOMAIN weight)
  <2>1. ProperListener(c.l)
    BY <1>1 DEF ReportInv, CallsJustified, Justified
  <2>2. 1 \in DOMAIN agenda /\ c \in agenda[1] /\ DOMAIN agenda \subseteq Nat \ {0}
    BY DEF Innermost, TypeInv, TypeOK
  <2>3. ~\E j \in DOMAIN agenda : j < 1
    BY <2>2
  <2>4. c.l.kind = "epsilon" => c.l.t \in DOMAIN weight
    BY <1>1, <2>2, <2>3 DEF ReportInv, PushedFirst
  <2> QED BY <2>1, <2>4
<1>9. Recorded'
  BY <1>2, <1>8 DEF Recorded, ReportInv, ProperListener, Returns, Known
<1>10. \A i \in DOMAIN body : \A d \in body[i] : Justified(d)' /\ d.op # "register"
  BY <1>4, <1>5
<1> QED BY <1>1, <1>5, <1>6, <1>7, <1>9, <1>10, ReportStays

LEMMA JoinAbsorbs ==
    ASSUME NEW a \in Weight, NEW b \in Weight, NEW c \in Weight,
           Combine(a, b) = a, Combine(a, c) = a
    PROVE  Combine(a, Combine(b, c)) = a
<1>1. Combine(Combine(a, b), c) = Combine(a, Combine(b, c))
  BY CombineAssumption
<1> QED BY <1>1

\* A report is recorded, and at most the client is told of it.
LEMMA ReportRecord ==
    ASSUME SaturationInv, TypeInv', ReportInv, NEW c \in Innermost,
           ReconnectPush(c) \/ UnbalancedPop(c)
    PROVE  ReportInv'
<1> USE DEF SaturationInv
<1>1. c \in Call /\ c \in Todo /\ c.op \in {"reconnect", "unbalanced"} /\ Justified(c)
  BY InnermostTodo DEF ReconnectPush, UnbalancedPop, TypeInv, ReportInv, CallsJustified
<1>2. \A event : /\ TellClient(event) \in SUBSET Call
                 /\ \A d \in TellClient(event) : d.op = "client"
  BY DEF TellClient, Call, ClientCall
<1>3. PICK told \in SUBSET Call : Return(c, <<told>>) /\ \A d \in told : d.op = "client"
  <2>1. /\ (IF c.e \in connected THEN {} ELSE TellClient("connect")) \in SUBSET Call
        /\ (IF unbalanced' = unbalanced THEN {} ELSE TellClient("unbalanced"))
             \in SUBSET Call
    BY <1>2
  <2> QED BY <1>2, <2>1 DEF ReconnectPush, UnbalancedPop
<1> DEFINE body == <<told>>
<1>4. body \in Seq(SUBSET Call) /\ \A i \in DOMAIN body : body[i] = told
  BY LoopType
<1>5. Stacked(c, body)
  BY <1>3, <1>4, RunStack
<1> HIDE DEF body
<1>6. \A i \in DOMAIN body : \A d \in body[i] : Justified(d)' /\ d.op # "register"
  BY <1>3, <1>4 DEF Justified
<1>7. UNCHANGED <<weight, listeners>>
  BY DEF ReconnectPush, UnbalancedPop
<1>8. Improves(weight', weight) /\ listeners \subseteq listeners'
  BY <1>7, ImprovesRefl DEF TypeInv, TypeOK
<1>9. ASSUME ReconnectPush(c) PROVE Recorded'
  <2>1. connected' = connected \cup {c.e} /\ unbalanced' = unbalanced /\ Returns(c.e)
    BY <1>1, <1>9 DEF ReconnectPush, Justified
  <2> QED BY <1>7, <2>1 DEF Recorded, ReportInv, ProperListener, Returns, Known
<1>10. ASSUME UnbalancedPop(c) PROVE Recorded'
  <2> DEFINE k == <<c.s, c.t>>
  <2>1. /\ unbalanced' = Put(unbalanced, k, c.w) /\ connected' = connected
        /\ Known(c.t, c.w) /\ c.t.target \notin Generated
        /\ c.w \in Weight
    BY <1>1, <1>10, CallFields DEF UnbalancedPop, Justified
  <2>2. ASSUME NEW e \in DOMAIN unbalanced'
        PROVE  Known(e[2], unbalanced'[e]) /\ e[2].target \notin Generated
    <3>1. CASE e # k
      BY <2>1, <2>2, <3>1 DEF Put, ReportInv, Recorded
    <3>2. CASE e = k /\ k \notin DOMAIN unbalanced
      <4>1. unbalanced'[e] = c.w /\ e[2] = c.t
        BY <2>1, <2>2, <3>2 DEF Put
      <4> QED BY <2>1, <4>1
    <3>3. CASE e = k /\ k \in DOMAIN unbalanced
      <4>1. unbalanced'[e] = Combine(unbalanced[k], c.w) /\ e[2] = c.t
        BY <2>1, <2>2, <3>3 DEF Put
      <4>2. Known(c.t, unbalanced[k]) /\ unbalanced[k] \in Weight
        BY <3>3 DEF ReportInv, Recorded, TypeInv, TypeOK
      <4>3. weight[c.t] \in Weight /\ c.t \in DOMAIN weight
        BY <4>2 DEF Known, TypeInv, TypeOK
      <4>4. Combine(weight[c.t], Combine(unbalanced[k], c.w)) = weight[c.t]
        BY <2>1, <4>2, <4>3, JoinAbsorbs DEF Known
      <4> QED BY <2>1, <4>1, <4>3, <4>4 DEF Known
    <3> QED BY <3>1, <3>2, <3>3
  <2> QED BY <1>7, <2>1, <2>2 DEF Recorded, ReportInv, ProperListener, Returns, Known
<1> QED BY <1>1, <1>4, <1>5, <1>6, <1>8, <1>9, <1>10, ReportStays

\* The client's calls, and the return of its listener.
LEMMA ReportClient ==
    ASSUME SaturationInv, TypeInv', ReportInv,
           \/ \E r \in Rules : AddRule(r)
           \/ \E f \in Seeds : AddSeed(f)
           \/ Poststar
           \/ \E c \in Innermost : ClientReturn(c)
    PROVE  ReportInv'
<1> USE DEF SaturationInv
<1>1. UNCHANGED <<weight, listeners, connected, unbalanced>>
  BY DEF AddRule, AddSeed, Poststar, ClientReturn, data
<1>2. Improves(weight', weight) /\ listeners \subseteq listeners'
  BY <1>1, ImprovesRefl DEF TypeInv, TypeOK
<1>3. Recorded'
  BY <1>1, <1>2, RecordedStays DEF ReportInv
<1>4. ASSUME NEW body \in Seq(SUBSET Call), agenda' = body \o agenda,
             \A i \in DOMAIN body : \A d \in body[i] :
               \/ d.op = "add"
               \/ d.op = "register" /\ d.l \in Rules
      PROVE  ReportInv'
  <2>1. ASSUME NEW d, d.op = "add" \/ (d.op = "register" /\ d.l \in Rules)
        PROVE  Justified(d)' /\ (d.op = "register" => d.l.kind # "epsilon")
    <3>1. d.op = "register" => d.l.kind # "epsilon"
      BY <2>1, ClientAssumption DEF Rule, NormalRule, PushRule, PopRule
    <3> QED BY <2>1, <3>1 DEF Justified, ProperListener
  <2>2. Stacked(Client, body) /\ Client.op = "none"
    BY <1>4, ClientStack
  <2>3. \A i \in DOMAIN body : \A d \in body[i] :
          Justified(d)' /\ (d.op = "register" => d.l.kind # "epsilon")
    BY <1>4, <2>1
  <2> QED BY <1>2, <1>3, <1>4, <2>2, <2>3, ReportStays
<1>5. ASSUME NEW A \in SUBSET Call, agenda' = <<A>> \o agenda,
             \A d \in A : d.op = "add" \/ (d.op = "register" /\ d.l \in Rules)
      PROVE  ReportInv'
  <2>1. <<A>> \in Seq(SUBSET Call) /\ DOMAIN <<A>> = {1} /\ <<A>>[1] = A
    BY LoopType
  <2> QED BY <1>4, <1>5, <2>1
<1>6. ASSUME NEW r \in Rules, AddRule(r) PROVE ReportInv'
  <2>1. CASE started
    <3>1. Register(r) \in SUBSET Call
      BY ClientAssumption, RegisterType, EffectCalls DEF Listener
    <3>2. \A d \in Register(r) : d.op = "register" /\ d.l \in Rules
      BY DEF Register
    <3>3. agenda' = <<Register(r)>> \o agenda
      BY <1>6, <2>1 DEF AddRule
    <3> QED BY <1>5, <3>1, <3>2, <3>3
  <2>2. CASE ~started
    <3>1. agenda' = <<>> \o agenda /\ <<>> \in Seq(SUBSET Call) /\ DOMAIN <<>> = {}
      BY <1>6, <2>2, LoopType DEF AddRule
    <3> QED BY <1>4, <3>1
  <2> QED BY <2>1, <2>2
<1>7. ASSUME NEW f \in Seeds, AddSeed(f) PROVE ReportInv'
  <2>1. {[op |-> "add", t |-> f.t, w |-> f.w]} \in SUBSET Call
    BY ClientAssumption DEF Fact, Call, EffectCall, AddCall
  <2>2. agenda' = <<{[op |-> "add", t |-> f.t, w |-> f.w]}>> \o agenda
    BY <1>7 DEF AddSeed
  <2>3. \A d \in {[op |-> "add", t |-> f.t, w |-> f.w]} : d.op = "add"
    OBVIOUS
  <2> QED BY <1>5, <2>1, <2>2, <2>3
<1>8. CASE Poststar
  <2> DEFINE A == {[op |-> "register", l |-> r] : r \in rules}
  <2>1. A \in SUBSET Call
    BY ClientAssumption DEF TypeInv, TypeOK, Call, EffectCall, RegisterCall, Listener
  <2>2. \A d \in A : d.op = "register" /\ d.l \in Rules
    BY DEF TypeInv, TypeOK
  <2>3. agenda = <<>> /\ agenda' = <<A>>
    BY <1>8 DEF Poststar
  <2> HIDE DEF A
  <2>4. agenda' = <<A>> \o agenda
    BY <2>3
  <2> QED BY <1>5, <2>1, <2>2, <2>4
<1>9. ASSUME NEW c \in Innermost, ClientReturn(c) PROVE ReportInv'
  <2>1. <<>> \in Seq(SUBSET Call) /\ DOMAIN <<>> = {}
    BY LoopType
  <2>2. Return(c, <<>>) /\ c.op = "client"
    BY <1>9 DEF ClientReturn
  <2>3. Stacked(c, <<>>)
    BY <2>1, <2>2, RunStack
  <2> QED BY <1>2, <1>3, <2>1, <2>2, <2>3, ReportStays
<1> QED BY <1>6, <1>7, <1>8, <1>9

LEMMA ReportEnd ==
    ASSUME SaturationInv, TypeInv', ReportInv, EndLoop
    PROVE  ReportInv'
<1>1. /\ UNCHANGED data /\ agenda \in Seq(SUBSET Call) /\ LoopEnds
  BY DEF EndLoop, LoopEnds, SaturationInv, TypeInv, TypeOK
<1>2. /\ DOMAIN agenda' \subseteq Nat
      /\ \A i \in DOMAIN agenda' : i + 1 \in DOMAIN agenda /\ agenda'[i] = agenda[i + 1]
      /\ \A i \in DOMAIN agenda :
           agenda[i] # {} => \E k \in DOMAIN agenda' : i = k + 1
  BY <1>1, EndedStack
<1>3. CallsJustified'
  <2>1. Todo' \subseteq Todo
    BY <1>2 DEF Todo, CallsOf
  <2> QED BY <1>1, <2>1 DEF ReportInv, CallsJustified, Justified, Known, Hears,
                            ProperListener, Returns, data
<1>4. Recorded'
  BY <1>1 DEF data, Recorded, ReportInv, ProperListener, Returns, Known
<1>5. ASSUME NEW i \in DOMAIN agenda', NEW d \in agenda'[i],
             d.op = "register", d.l.kind = "epsilon", d.l.t \notin DOMAIN weight
      PROVE  \E j \in DOMAIN agenda' :
               j < i /\ \E b \in agenda'[j] : b.op = "add" /\ b.t = d.l.t
  <2>1. PICK j \in DOMAIN agenda :
          j < i + 1 /\ \E b \in agenda[j] : b.op = "add" /\ b.t = d.l.t
    BY <1>2, <1>5 DEF ReportInv, PushedFirst
  <2>2. PICK k \in DOMAIN agenda' : j = k + 1
    BY <1>2, <2>1
  <2>3. k < i /\ agenda'[k] = agenda[j]
    BY <1>2, <2>1, <2>2
  <2> QED BY <2>1, <2>3
<1>6. PushedFirst'
  BY <1>1, <1>5 DEF PushedFirst, data
<1> QED BY <1>3, <1>4, <1>6 DEF ReportInv

LEMMA StepReports ==
    ASSUME SaturationInv, ReportInv, [Next]_vars
    PROVE  ReportInv'
<1> USE DEF SaturationInv
<1>1. TypeInv' /\ Improves(weight', weight)
  BY StepProgress DEF Progress
<1>2. CASE \/ \E r \in Rules : AddRule(r)
           \/ \E f \in Seeds : AddSeed(f)
           \/ Poststar
           \/ \E c \in Innermost : ClientReturn(c)
  BY <1>1, <1>2, ReportClient
<1>3. CASE EndLoop
  BY <1>1, <1>3, ReportEnd
<1>4. ASSUME NEW c \in Innermost, AddWeightForTransition(c) PROVE ReportInv'
  BY <1>1, <1>4, ReportAdd
<1>5. ASSUME NEW c \in Innermost, NotifyListeners(c) PROVE ReportInv'
  BY <1>1, <1>5, ReportNotify
<1>6. ASSUME NEW c \in Innermost, RegisterListener(c) PROVE ReportInv'
  BY <1>1, <1>6, ReportRegister
<1>7. ASSUME NEW c \in Innermost, ReconnectPush(c) \/ UnbalancedPop(c) PROVE ReportInv'
  BY <1>1, <1>7, ReportRecord
<1>8. ASSUME NEW c \in Innermost,
             OnNormal(c) \/ OnPush(c) \/ OnPop(c) \/ OnTransitive(c) \/ OnEpsilon(c)
      PROVE  ReportInv'
  <2>1. /\ c.op \in {"hear", "replay"} /\ UNCHANGED data
        /\ Return(c, Effects(c.l, c.t, WeightOf(c)))
    BY <1>8 DEF OnNormal, OnPush, OnPop, OnTransitive, OnEpsilon, Heard, Effects
  <2> QED BY <1>1, <2>1, ReportTurn
<1>9. CASE UNCHANGED vars
  BY <1>9 DEF vars, data, ReportInv, CallsJustified, Justified, Known, Hears,
              ProperListener, Returns, Recorded, PushedFirst, Todo
<1> QED
  BY <1>2, <1>3, <1>4, <1>5, <1>6, <1>7, <1>8, <1>9 DEF Next, Step

LEMMA InitReports == Init => ReportInv
<1> SUFFICES ASSUME Init PROVE ReportInv
  OBVIOUS
<1>1. Todo = {} /\ DOMAIN agenda = {}
  <2>1. DOMAIN <<>> = {}
    OBVIOUS
  <2> QED BY <2>1, CallsOfTuples DEF Init, Todo
<1> QED BY <1>1 DEF Init, ReportInv, CallsJustified, Recorded, PushedFirst

LEMMA ReportInvariant == Spec => [](SaturationInv /\ ReportInv)
<1>1. SaturationInv /\ ReportInv /\ [Next]_vars => SaturationInv' /\ ReportInv'
  BY StepProgress, StepReports
<1>2. Init => SaturationInv /\ ReportInv
  BY InitSaturation, InitReports
<1> QED BY <1>1, <1>2, PTL DEF Spec

LEMMA InvPopsReported == SaturationInv /\ ReportInv => PopsReported
<1> SUFFICES ASSUME SaturationInv, ReportInv, Quiet,
                    NEW r \in rules, NEW t \in DOMAIN weight,
                    r.kind = "pop", r.s1 = t.start, r.l1 = t.label,
                    t.target \notin Generated
             PROVE  /\ <<r.s2, t>> \in DOMAIN unbalanced
                    /\ unbalanced[<<r.s2, t>>] = weight[t]
  BY DEF PopsReported
<1> DEFINE d == [op |-> "unbalanced", s |-> r.s2, t |-> t, w |-> weight[t]]
           k == <<r.s2, t>>
<1>1. r \in listeners /\ r \in Rule /\ Hears(r, t)
  BY QuietRules
<1>2. /\ Todo = {} /\ t \in Transition /\ weight[t] \in Weight
      /\ \A b \in CallsOf(Effects(r, t, weight[t])) : Done(b)
  BY <1>1, QuietDone
<1>3. r \in PopRule
  BY <1>1 DEF Rule, NormalRule, PushRule
<1>4. d \in CallsOf(Effects(r, t, weight[t]))
  <2>1. /\ Pop(r, t, weight[t]) \in Seq(SUBSET Call)
        /\ Forward(r, t) \in Seq(SUBSET Call)
    BY <1>2, <1>3, PopType, EffectCalls
  <2>2. Effects(r, t, weight[t]) = Pop(r, t, weight[t]) \o Forward(r, t)
    BY DEF Effects, HandlePop
  <2>3. Pop(r, t, weight[t]) = <<{d}>>
    BY DEF Pop
  <2>4. CallsOf(<<{d}>>) = {d}
    BY CallsOfTuples
  <2> HIDE DEF d
  <2> QED BY <2>1, <2>2, <2>3, <2>4, CallsOfConcat
<1>5. k \in DOMAIN unbalanced /\ Combine(unbalanced[k], weight[t]) = unbalanced[k]
  <2>1. Done(d) /\ d.op = "unbalanced" /\ d.s = r.s2 /\ d.t = t /\ d.w = weight[t]
    BY <1>2, <1>4
  <2> HIDE DEF d
  <2> QED BY <1>2, <2>1 DEF Done
<1>6. Combine(weight[t], unbalanced[k]) = weight[t] /\ unbalanced[k] \in Weight
  BY <1>5 DEF ReportInv, Recorded, Known, SaturationInv, TypeInv, TypeOK
<1>7. Combine(weight[t], unbalanced[k]) = Combine(unbalanced[k], weight[t])
  BY <1>2, <1>6, CombineAssumption
<1> QED BY <1>5, <1>6, <1>7

\* Whenever the outermost call has returned, every pop off the stack's bottom
\* has been reported, with exactly the weight the popped transition has.
THEOREM PopsReportedWhenQuiet == Spec => []PopsReported
BY ReportInvariant, InvPopsReported, PTL

\* At any time, what the client has been told is true of the automaton.
THEOREM ReportsAlwaysJustified == Spec => []ReportsJustified
<1>1. ReportInv => ReportsJustified
  BY DEF ReportInv, Recorded, Returns, Known, ReportsJustified
<1> QED BY <1>1, ReportInvariant, PTL

-----------------------------------------------------------------------------
(***************************************************************************)
(* The automaton is the least one that the rules add nothing to: PostStar  *)
(* implements LeastSaturation.                                             *)
(***************************************************************************)
LEMMA AutomatonType ==
    ASSUME NEW V \in Least!Automata
    PROVE  DOMAIN V \subseteq Transition /\ \A t \in DOMAIN V : V[t] \in Weight
BY DEF Least!Automata

\* What an automaton accounts for, it accounts for with any weight below.
LEMMA WithinWeaker ==
    ASSUME NEW V \in Least!Automata, NEW t, NEW v \in Weight, NEW w \in Weight,
           Within(V, t, v), Combine(v, w) = v
    PROVE  Within(V, t, w)
<1>1. CASE t.start = t.target /\ t.label = Eps
  BY <1>1 DEF Within, Least!Holds, Least!NotEmptyLoop
<1>2. CASE t \in DOMAIN V /\ Combine(V[t], v) = V[t]
  <2>1. V[t] \in Weight
    BY <1>2, AutomatonType
  <2>2. Combine(V[t], w) = V[t]
    BY <1>2, <2>1, AbsorbsTransitive
  <2> QED BY <1>2, <2>2 DEF Within, Least!Holds, Least!Absorbs
<1> QED BY <1>1, <1>2 DEF Within, Least!Holds, Least!Absorbs, Least!NotEmptyLoop

\* A transition of an automaton that the rules add nothing to, with a weight
\* below the automaton's: what each rule derives is within the automaton.
LEMMA NormalWithin ==
    ASSUME NEW V \in Least!Automata, NEW R \in SUBSET Rule, Least!Closed(V, R),
           NEW r \in R, r \in NormalRule, NEW t \in DOMAIN V, NEW w \in Weight,
           Combine(V[t], w) = V[t], r.s1 = t.start, NormalApplies(r, t.label),
           NEW a, a = IF r.l2 \in Wildcard THEN t.label ELSE r.l2
    PROVE  Within(V, [start |-> r.s2, label |-> a, target |-> t.target], Extend(w, r.w))
<1> DEFINE u == [start |-> r.s2, label |-> a, target |-> t.target]
           f == [t |-> u, w |-> Extend(V[t], r.w)]
           x == <<r, t>>
<1>1. r.w \in Weight /\ V[t] \in Weight
  BY AutomatonType DEF NormalRule
<1>2. f \in Least!Normal(V, R)
  <2>1. x \in R \X DOMAIN V /\ x[1] = r /\ x[2] = t
    OBVIOUS
  <2>2. r.kind = "normal" /\ Least!Fits(r, t)
    BY DEF NormalRule, NormalApplies, Matches, Least!Fits, Least!Wild
  <2>3. Least!Wild(r.l2) => t.label # Eps /\ t.label \notin Excludes[r.l2]
    BY DEF NormalApplies, Least!Wild
  <2>4. f = Least!WithWeight(Least!Edge(r.s2, IF Least!Wild(r.l2) THEN t.label ELSE r.l2,
                                        t.target), Extend(V[t], r.w))
    BY DEF Least!WithWeight, Least!Edge, Least!Wild
  <2> HIDE DEF f, x
  <2> QED BY <2>1, <2>2, <2>3, <2>4 DEF Least!Normal
<1>3. Within(V, u, Extend(V[t], r.w))
  BY <1>2 DEF Least!Closed, Within
<1>4. /\ Extend(V[t], r.w) \in Weight /\ Extend(w, r.w) \in Weight
      /\ Combine(Extend(V[t], r.w), Extend(w, r.w)) = Extend(V[t], r.w)
  BY <1>1, WeightAssumption, ExtendAssumption
<1> QED BY <1>3, <1>4, WithinWeaker

LEMMA PushWithin ==
    ASSUME NEW V \in Least!Automata, NEW R \in SUBSET Rule, Least!Closed(V, R),
           NEW r \in R, r \in PushRule, NEW t \in DOMAIN V, NEW w \in Weight,
           Combine(V[t], w) = V[t], r.s1 = t.start, Matches(r.l1, t.label),
           r.callSite \in Wildcard => t.label # Eps,
           NEW ir, ir = CreateState(r.s2, r.l2)
    PROVE  /\ Within(V, [start |-> ir, label |-> CallSiteLabel(r, t.label),
                         target |-> t.target], Extend(w, r.w))
           /\ Within(V, [start |-> r.s2, label |-> r.l2, target |-> ir], One)
<1> DEFINE u == [start |-> ir, label |-> CallSiteLabel(r, t.label), target |-> t.target]
           f == [t |-> u, w |-> Extend(V[t], r.w)]
           g == [t |-> [start |-> r.s2, label |-> r.l2, target |-> ir], w |-> One]
           x == <<r, t>>
<1>1. r.w \in Weight /\ V[t] \in Weight
  BY AutomatonType DEF PushRule
<1>2. f \in Least!Push(V, R) /\ g \in Least!Push(V, R)
  <2>1. x \in R \X DOMAIN V /\ x[1] = r /\ x[2] = t
    OBVIOUS
  <2>2. r.kind = "push" /\ Least!Fits(r, t)
    BY DEF PushRule, Matches, Least!Fits, Least!Wild
  <2>3. Least!Wild(r.callSite) => t.label # Eps
    BY DEF Least!Wild
  <2>4. /\ g = Least!WithWeight(Least!Edge(r.s2, r.l2, CreateState(r.s2, r.l2)), One)
        /\ f = Least!WithWeight(
                 Least!Edge(CreateState(r.s2, r.l2),
                            IF Least!Wild(r.callSite) THEN t.label ELSE r.callSite,
                            t.target), Extend(V[t], r.w))
    BY DEF Least!WithWeight, Least!Edge, Least!Wild, CallSiteLabel
  <2> HIDE DEF f, g, x
  <2> QED BY <2>1, <2>2, <2>3, <2>4 DEF Least!Push
<1>3. Within(V, u, Extend(V[t], r.w))
  BY <1>2 DEF Least!Closed, Within
<1>4. /\ Extend(V[t], r.w) \in Weight /\ Extend(w, r.w) \in Weight
      /\ Combine(Extend(V[t], r.w), Extend(w, r.w)) = Extend(V[t], r.w)
  BY <1>1, WeightAssumption, ExtendAssumption
<1>5. Within(V, u, Extend(w, r.w))
  BY <1>3, <1>4, WithinWeaker
<1>6. Within(V, [start |-> r.s2, label |-> r.l2, target |-> ir], One)
  BY <1>2 DEF Least!Closed, Within
<1> QED BY <1>5, <1>6

LEMMA PopWithin ==
    ASSUME NEW V \in Least!Automata, NEW R \in SUBSET Rule, Least!Closed(V, R),
           NEW r \in R, r \in PopRule, NEW t \in DOMAIN V, NEW w \in Weight,
           Combine(V[t], w) = V[t], r.s1 = t.start, r.l1 = t.label,
           t.target \in Generated
    PROVE  /\ Within(V, [start |-> r.s2, label |-> Eps, target |-> t.target],
                     Extend(w, r.w))
           /\ \A u \in DOMAIN V : u.start = t.target =>
                Within(V, [start |-> r.s2, label |-> u.label, target |-> u.target],
                       Extend(V[u], Extend(w, r.w)))
<1> DEFINE e == [start |-> r.s2, label |-> Eps, target |-> t.target]
           v == Extend(V[t], r.w)
           f == [t |-> e, w |-> v]
           x == <<r, t>>
<1>1. r.w \in Weight /\ V[t] \in Weight
  BY AutomatonType DEF PopRule
<1>2. /\ v \in Weight /\ Extend(w, r.w) \in Weight /\ Combine(v, Extend(w, r.w)) = v
  BY <1>1, WeightAssumption, ExtendAssumption
<1>3. x \in Least!Popped(V, R) /\ x[1] = r /\ x[2] = t
  <2>1. x \in R \X DOMAIN V /\ x[1] = r /\ x[2] = t
    OBVIOUS
  <2>2. r.kind = "pop" /\ Least!Fits(r, t)
    BY DEF PopRule, Least!Fits
  <2> HIDE DEF x
  <2> QED BY <2>1, <2>2 DEF Least!Popped
<1>4. f = Least!WithWeight(Least!Edge(r.s2, Eps, t.target), Extend(V[t], r.w))
  BY DEF Least!WithWeight, Least!Edge
<1>5. Within(V, e, Extend(w, r.w))
  <2>1. f \in Least!Pop(V, R)
    <3> HIDE DEF f, x, v
    <3> QED BY <1>3, <1>4 DEF Least!Pop, v
  <2>2. Within(V, e, v)
    BY <2>1 DEF Least!Closed, Within
  <2> HIDE DEF v
  <2> QED BY <1>2, <2>2, WithinWeaker
<1>6. ASSUME NEW u \in DOMAIN V, u.start = t.target
      PROVE  Within(V, [start |-> r.s2, label |-> u.label, target |-> u.target],
                    Extend(V[u], Extend(w, r.w)))
  <2> DEFINE q == [start |-> r.s2, label |-> u.label, target |-> u.target]
             g == [t |-> q, w |-> Extend(V[u], v)]
  <2>1. g = Least!WithWeight(Least!Edge(r.s2, u.label, u.target),
                             Extend(V[u], Extend(V[t], r.w)))
    BY DEF Least!WithWeight, Least!Edge
  <2>2. g \in Least!Pop(V, R)
    <3> HIDE DEF g, x, v
    <3> QED BY <1>3, <1>6, <2>1 DEF Least!Pop, v
  <2>3. Within(V, q, Extend(V[u], v))
    BY <2>2 DEF Least!Closed, Within
  <2> HIDE DEF v
  <2>4. /\ Extend(V[u], v) \in Weight /\ Extend(V[u], Extend(w, r.w)) \in Weight
        /\ Combine(Extend(V[u], v), Extend(V[u], Extend(w, r.w))) = Extend(V[u], v)
    BY <1>2, AutomatonType, WeightAssumption, ExtendAssumption
  <2> QED BY <2>3, <2>4, WithinWeaker
<1> QED BY <1>5, <1>6

LEMMA ForwardedIn ==
    ASSUME NEW V, NEW R, Least!Closed(V, R), NEW r \in R, r.kind = "pop",
           NEW t \in DOMAIN V, r.s1 = t.start, t.label \in Empties
    PROVE  [r EXCEPT !.s1 = t.target] \in R
<1> DEFINE x == <<r, t>>
<1>1. x \in R \X DOMAIN V /\ x[1] = r /\ x[2] = t
  OBVIOUS
<1> HIDE DEF x
<1>2. [x[1] EXCEPT !.s1 = x[2].target] \in Least!Forwarded(V, R)
  BY <1>1 DEF Least!Forwarded
<1> QED BY <1>1, <1>2 DEF Least!Closed

\* The calls of a listener that is told of a transition of V, with a weight
\* below V's, stay within V.
LEMMA EffectsWithin ==
    ASSUME NEW V \in Least!Automata, NEW R \in SUBSET Rule, Least!Closed(V, R),
           NEW l \in Listener, ListenerWithin(V, R, l), NEW t \in DOMAIN V,
           NEW w \in Weight, Combine(V[t], w) = V[t], Hears(l, t),
           NEW d \in CallsOf(Effects(l, t, w))
    PROVE  CallWithin(V, R, d)
<1>1. t \in Transition /\ V[t] \in Weight
  BY AutomatonType
<1>2. CASE l.kind = "normal"
  <2> DEFINE a == IF l.l2 \in Wildcard THEN t.label ELSE l.l2
             A == Add(l.s2, a, t.target, Extend(w, l.w))
  <2>1. l \in NormalRule /\ l \in R /\ l.s1 = t.start
    BY <1>2, ListenerKinds DEF ListenerWithin, Hears
  <2>2. NormalApplies(l, t.label) /\ Effects(l, t, w) = <<A>>
    <3>1. CASE NormalApplies(l, t.label)
      BY <1>2, <3>1 DEF Effects, HandleNormal
    <3>2. CASE ~NormalApplies(l, t.label)
      BY <1>2, <3>2, CallsOfTuples DEF Effects, HandleNormal
    <3> QED BY <3>1, <3>2
  <2>3. d \in A
    <3> HIDE DEF A
    <3>1. CallsOf(<<A>>) = A
      BY CallsOfTuples
    <3> QED BY <2>2, <3>1
  <2>4. Within(V, [start |-> l.s2, label |-> a, target |-> t.target], Extend(w, l.w))
    BY <2>1, <2>2, NormalWithin
  <2> HIDE DEF a
  <2> QED BY <2>3, <2>4 DEF Add, CallWithin
<1>3. CASE l.kind = "push"
  <2> DEFINE ir == CreateState(l.s2, l.l2)
             site == CallSiteLabel(l, t.label)
             push == [start |-> ir, label |-> site, target |-> t.target]
             A == Add(ir, site, t.target, Extend(w, l.w))
             B == Add(l.s2, l.l2, ir, One)
             C == Register(UpdateEpsilonOnPush(push, l.l1))
  <2>1. l \in PushRule /\ l \in R /\ l.s1 = t.start
    BY <1>3, ListenerKinds DEF ListenerWithin, Hears
  <2>2. /\ Matches(l.l1, t.label) /\ (l.callSite \in Wildcard => t.label # Eps)
        /\ Effects(l, t, w) = <<A, B, C>>
    <3>1. CASE Matches(l.l1, t.label) /\ (l.callSite \in Wildcard => t.label # Eps)
      BY <1>3, <3>1 DEF Effects, HandlePush
    <3>2. CASE ~(Matches(l.l1, t.label) /\ (l.callSite \in Wildcard => t.label # Eps))
      BY <1>3, <3>2, CallsOfTuples DEF Effects, HandlePush
    <3> QED BY <3>1, <3>2
  <2>3. d \in A \cup B \cup C
    <3> HIDE DEF A, B, C
    <3>1. CallsOf(<<A, B, C>>) = A \cup B \cup C
      BY DEF CallsOf
    <3> QED BY <2>2, <3>1
  <2>4. /\ Within(V, push, Extend(w, l.w))
        /\ Within(V, [start |-> l.s2, label |-> l.l2, target |-> ir], One)
    BY <2>1, <2>2, PushWithin
  <2>5. CASE d \in A
    <3> HIDE DEF ir, site
    <3> QED BY <2>4, <2>5 DEF Add, CallWithin
  <2>6. CASE d \in B
    <3> HIDE DEF ir
    <3> QED BY <2>4, <2>6 DEF Add, CallWithin
  <2>7. CASE d \in C
    BY <2>7 DEF Register, UpdateEpsilonOnPush, CallWithin, ListenerWithin
  <2> QED BY <2>3, <2>5, <2>6, <2>7
<1>4. CASE l.kind = "pop"
  <2>1. l \in PopRule /\ l \in R /\ l.s1 = t.start
    BY <1>4, ListenerKinds DEF ListenerWithin, Hears
  <2>2. d \in CallsOf(Pop(l, t, w)) \cup CallsOf(Forward(l, t))
    <3>1. Pop(l, t, w) \in Seq(SUBSET Call) /\ Forward(l, t) \in Seq(SUBSET Call)
      BY <1>1, <2>1, PopType, EffectCalls
    <3>2. Effects(l, t, w) = Pop(l, t, w) \o Forward(l, t)
      BY <1>4 DEF Effects, HandlePop
    <3> QED BY <3>1, <3>2, CallsOfConcat
  <2>3. CASE d \in CallsOf(Pop(l, t, w))
    <3> DEFINE v == Extend(w, l.w)
               pop == [start |-> l.s2, label |-> Eps, target |-> t.target]
               A == Add(l.s2, Eps, t.target, v)
               m == UpdateTransitivePop(pop, v)
               B == Register(m)
               C == {[op |-> "unbalanced", s |-> l.s2, t |-> t, w |-> w]}
    <3>1. CASE t.label # l.l1
      BY <2>3, <3>1, CallsOfTuples DEF Pop
    <3>2. CASE t.label = l.l1 /\ t.target \notin Generated
      <4>1. Pop(l, t, w) = <<C>>
        BY <3>2 DEF Pop
      <4>2. d \in C
        <5> HIDE DEF C
        <5>1. CallsOf(<<C>>) = C
          BY CallsOfTuples
        <5> QED BY <2>3, <4>1, <5>1
      <4> QED BY <4>2 DEF CallWithin
    <3>3. CASE t.label = l.l1 /\ t.target \in Generated
      <4>1. Pop(l, t, w) = <<A, B>>
        BY <3>3 DEF Pop
      <4>2. d \in A \cup B
        <5> HIDE DEF A, B
        <5>1. CallsOf(<<A, B>>) = A \cup B
          BY CallsOfTuples
        <5> QED BY <2>3, <4>1, <5>1
      <4>3. /\ Within(V, pop, v)
            /\ \A u \in DOMAIN V : u.start = t.target =>
                 Within(V, [start |-> l.s2, label |-> u.label, target |-> u.target],
                        Extend(V[u], v))
        BY <2>1, <3>3, PopWithin
      <4>4. CASE d \in A
        <5> HIDE DEF v
        <5> QED BY <4>3, <4>4 DEF Add, CallWithin
      <4>5. CASE d \in B
        <5>1. m.kind = "transitive" /\ m.s1 = t.target /\ m.t = pop /\ m.w = v
          BY DEF UpdateTransitivePop
        <5>2. d.op = "register" /\ d.l = m
          BY <4>5 DEF Register
        <5>3. pop.start = l.s2
          OBVIOUS
        <5> HIDE DEF m, v, pop
        <5>4. ListenerWithin(V, R, m)
          BY <4>3, <5>1, <5>3 DEF ListenerWithin
        <5> QED BY <5>2, <5>4 DEF CallWithin
      <4> QED BY <4>2, <4>4, <4>5
    <3> QED BY <3>1, <3>2, <3>3
  <2>4. CASE d \in CallsOf(Forward(l, t))
    <3> DEFINE m == [l EXCEPT !.s1 = t.target]
               B == Register(m)
    <3>1. t.label \in Empties /\ Forward(l, t) = <<B>>
      <4>1. CASE t.label \in Empties
        BY <4>1 DEF Forward
      <4>2. CASE t.label \notin Empties
        BY <2>4, <4>2, CallsOfTuples DEF Forward
      <4> QED BY <4>1, <4>2
    <3>2. d \in B
      <4> HIDE DEF B
      <4>1. CallsOf(<<B>>) = B
        BY CallsOfTuples
      <4> QED BY <2>4, <3>1, <4>1
    <3>3. m \in R /\ m.kind = "pop"
      BY <1>4, <2>1, <3>1, ForwardedIn DEF PopRule
    <3>4. d.op = "register" /\ d.l = m
      BY <3>2 DEF Register
    <3> HIDE DEF m
    <3> QED BY <3>3, <3>4 DEF CallWithin, ListenerWithin
  <2> QED BY <2>2, <2>3, <2>4
<1>5. CASE l.kind = "transitive"
  <2> DEFINE A == Add(l.t.start, t.label, t.target, Extend(w, l.w))
             q == [start |-> l.t.start, label |-> t.label, target |-> t.target]
  <2>1. l.w \in Weight /\ l.s1 = t.start
    BY <1>5, ListenerKinds DEF TransitiveListener, Hears
  <2>2. Effects(l, t, w) = <<A>>
    BY <1>5 DEF Effects, HandleTransitive
  <2>3. d \in A
    <3> HIDE DEF A
    <3>1. CallsOf(<<A>>) = A
      BY CallsOfTuples
    <3> QED BY <2>2, <3>1
  <2>4. Within(V, q, Extend(V[t], l.w))
    BY <1>5, <2>1 DEF ListenerWithin
  <2>5. /\ Extend(V[t], l.w) \in Weight /\ Extend(w, l.w) \in Weight
        /\ Combine(Extend(V[t], l.w), Extend(w, l.w)) = Extend(V[t], l.w)
    BY <1>1, <2>1, WeightAssumption, ExtendAssumption
  <2>6. Within(V, q, Extend(w, l.w))
    BY <2>4, <2>5, WithinWeaker
  <2> QED BY <2>3, <2>6 DEF Add, CallWithin
<1>6. CASE l.kind = "epsilon"
  <2>1. d.op = "reconnect"
    <3>1. CASE t.label # Eps
      BY <1>6, <3>1, CallsOfTuples DEF Effects, HandleEpsilon
    <3>2. CASE t.label = Eps
      <4>1. PICK e : Effects(l, t, w) = <<{[op |-> "reconnect", e |-> e]}>>
        BY <1>6, <3>2 DEF Effects, HandleEpsilon
      <4> DEFINE A == {[op |-> "reconnect", e |-> e]}
      <4>2. d \in A
        <5> HIDE DEF A
        <5>1. CallsOf(<<A>>) = A
          BY CallsOfTuples
        <5> QED BY <4>1, <5>1 DEF A
      <4> QED BY <4>2
    <3> QED BY <3>1, <3>2
  <2> QED BY <2>1 DEF CallWithin
<1>7. l.kind \in {"normal", "push", "pop", "transitive", "epsilon"}
  BY DEF Listener, Rule, NormalRule, PushRule, PopRule, TransitiveListener,
     EpsilonListener
<1> QED BY <1>2, <1>3, <1>4, <1>5, <1>6, <1>7

\* A step that only makes calls within V.
LEMMA CoveredStays ==
    ASSUME NEW V, NEW R, Covered(V, R), UNCHANGED <<weight, listeners>>,
           NEW M, Todo' \subseteq M \cup Todo, \A d \in M : CallWithin(V, R, d)
    PROVE  Covered(V, R)'
<1>1. Least!Below(weight, V)'
  BY DEF Covered, Least!Below
<1>2. \A l \in listeners' : ListenerWithin(V, R, l)
  BY DEF Covered
<1>3. \A d \in Todo' : CallWithin(V, R, d)
  BY DEF Covered
<1> QED BY <1>1, <1>2, <1>3 DEF Covered

\* The running call makes those of a body.
LEMMA RunCalls ==
    ASSUME TypeInv, NEW c \in Innermost, NEW body \in Seq(SUBSET Call), Return(c, body)
    PROVE  Todo' \subseteq CallsOf(body) \cup Todo
BY InnermostTodo, ReturnCalls DEF TypeInv, TypeOK

LEMMA CoveredTurn ==
    ASSUME SaturationInv, ReportInv, NEW c \in Innermost,
           c.op \in {"hear", "replay"}, UNCHANGED data,
           Return(c, Effects(c.l, c.t, WeightOf(c))),
           NEW V \in Least!Automata, NEW R \in SUBSET Rule, Least!Closed(V, R), Covered(V, R)
    PROVE  Covered(V, R)'
<1> USE DEF SaturationInv
<1> DEFINE body == Effects(c.l, c.t, WeightOf(c))
<1>1. /\ c \in Call /\ c.l \in Listener /\ c.t \in Transition
      /\ WeightOf(c) \in Weight /\ c \in Todo
  BY HeardType, InnermostTodo DEF TypeInv
<1>2. body \in Seq(SUBSET Call)
  BY <1>1, EffectsType, EffectCalls DEF TypeInv
<1>3. c.l \in listeners /\ Hears(c.l, c.t) /\ Known(c.t, WeightOf(c))
  <2>1. Justified(c)
    BY <1>1 DEF ReportInv, CallsJustified
  <2>2. c.op = "replay" => Known(c.t, weight[c.t])
    BY <1>1, CombineAssumption DEF TypeInv, ReplaysFind, TypeOK, Known
  <2> QED BY <2>1, <2>2 DEF Justified, WeightOf
<1>4. c.t \in DOMAIN V /\ Combine(V[c.t], WeightOf(c)) = V[c.t]
  <2>1. c.t \in DOMAIN weight /\ weight[c.t] \in Weight
        /\ Combine(weight[c.t], WeightOf(c)) = weight[c.t]
    BY <1>3 DEF Known, TypeInv, TypeOK
  <2>2. c.t \in DOMAIN V /\ Combine(V[c.t], weight[c.t]) = V[c.t]
    BY <2>1 DEF Covered, Least!Below, Least!Absorbs, Least!WithWeight
  <2>3. V[c.t] \in Weight
    BY <2>2, AutomatonType
  <2> QED BY <1>1, <2>1, <2>2, <2>3, AbsorbsTransitive
<1>5. ASSUME NEW d \in CallsOf(body) PROVE CallWithin(V, R, d)
  <2>1. ListenerWithin(V, R, c.l)
    BY <1>3 DEF Covered
  <2> QED BY <1>1, <1>3, <1>4, <1>5, <2>1, EffectsWithin
<1>6. Todo' \subseteq CallsOf(body) \cup Todo
  BY <1>2, RunCalls
<1> HIDE DEF body
<1>7. UNCHANGED <<weight, listeners>>
  BY DEF data
<1> QED BY <1>5, <1>6, <1>7, CoveredStays

LEMMA CoveredAdd ==
    ASSUME SaturationInv, NEW c \in Innermost, AddWeightForTransition(c),
           NEW V \in Least!Automata, NEW R \in SUBSET Rule, Covered(V, R)
    PROVE  Covered(V, R)'
<1> USE DEF SaturationInv
<1> DEFINE new == Put(weight, c.t, c.w)
           client == TellClient("weight")
           out == Notify("notifyOut", c.t, new[c.t])
           in == Notify("notifyIn", c.t, new[c.t])
           body == <<client, out, in>>
<1>1. c \in Call /\ c \in Todo /\ c.op = "add" /\ c.t \in Transition /\ c.w \in Weight
  BY InnermostTodo, CallFields DEF AddWeightForTransition, TypeInv
<1>2. listeners' = listeners
  BY DEF AddWeightForTransition
<1>3. CASE weight' = weight /\ Return(c, <<>>)
  <2>1. <<>> \in Seq(SUBSET Call) /\ CallsOf(<<>>) = {}
    BY LoopType, CallsOfTuples
  <2>2. Todo' \subseteq {} \cup Todo
    BY <1>3, <2>1, RunCalls
  <2> QED BY <1>2, <1>3, <2>2, CoveredStays
<1>4. CASE /\ ~(c.t.start = c.t.target /\ c.t.label = Eps)
           /\ weight' = new /\ Return(c, body)
  <2>1. DOMAIN new = DOMAIN weight \cup {c.t} /\ new[c.t] \in Weight
    BY <1>1, WeightAssumption DEF Put, TypeInv, TypeOK
  <2>2. c.t \in DOMAIN V /\ Combine(V[c.t], c.w) = V[c.t]
    BY <1>1, <1>4 DEF Covered, CallWithin, Within, Least!Holds, Least!NotEmptyLoop,
                      Least!Absorbs
  <2>3. ASSUME NEW t \in DOMAIN new
        PROVE  t \in DOMAIN V /\ Combine(V[t], new[t]) = V[t]
    <3>1. CASE t # c.t
      BY <2>1, <2>3, <3>1 DEF Put, Covered, Least!Below, Least!Absorbs, Least!WithWeight
    <3>2. CASE t = c.t /\ t \notin DOMAIN weight
      BY <2>1, <2>2, <3>2 DEF Put
    <3>3. CASE t = c.t /\ t \in DOMAIN weight
      <4>1. new[t] = Combine(weight[t], c.w) /\ weight[t] \in Weight
        BY <2>1, <3>3 DEF Put, TypeInv, TypeOK
      <4>2. Combine(V[t], weight[t]) = V[t] /\ V[t] \in Weight
        BY <2>2, <3>3, AutomatonType DEF Covered, Least!Below, Least!Absorbs,
                                          Least!WithWeight
      <4>3. Combine(V[t], Combine(weight[t], c.w)) = V[t]
        BY <1>1, <2>2, <3>3, <4>1, <4>2, JoinAbsorbs
      <4> QED BY <2>2, <3>3, <4>1, <4>3
    <3> QED BY <3>1, <3>2, <3>3
  <2>4. Least!Below(weight, V)'
    <3>1. \A t \in DOMAIN weight' : t \in DOMAIN V /\ Combine(V[t], weight'[t]) = V[t]
      BY <1>4, <2>3
    <3> QED BY <3>1 DEF Least!Below, Least!Absorbs, Least!WithWeight
  <2>5. client \in SUBSET Call /\ out \in SUBSET Call /\ in \in SUBSET Call
    BY <1>1, <2>1, NotifyType
  <2>6. \A d \in client \cup out \cup in : CallWithin(V, R, d)
    BY DEF TellClient, Notify, CallWithin
  <2> HIDE DEF client, out, in, new
  <2>7. body \in Seq(SUBSET Call) /\ CallsOf(body) = client \cup out \cup in
    <3>1. CallsOf(body) = client \cup out \cup in
      BY DEF CallsOf
    <3> QED BY <2>5, <3>1, LoopType
  <2> HIDE DEF body
  <2>8. Todo' \subseteq CallsOf(body) \cup Todo
    BY <1>4, <2>7, RunCalls
  <2>9. \A d \in Todo' : CallWithin(V, R, d)
    BY <2>6, <2>7, <2>8 DEF Covered
  <2> QED BY <1>2, <2>4, <2>9 DEF Covered
<1> QED BY <1>3, <1>4 DEF AddWeightForTransition

\* The calls that carry no transition to add and no listener to register.
LEMMA CoveredRest ==
    ASSUME SaturationInv, NEW c \in Innermost,
           \/ NotifyListeners(c) \/ RegisterListener(c) \/ ReconnectPush(c)
           \/ UnbalancedPop(c) \/ ClientReturn(c),
           NEW V, NEW R, Covered(V, R)
    PROVE  Covered(V, R)'
<1> USE DEF SaturationInv
<1>1. c \in Call /\ c \in Todo
  BY InnermostTodo DEF TypeInv
<1>2. ASSUME NEW A \in SUBSET Call, Return(c, <<A>>) \/ Return(c, <<>>),
             \A d \in A : d.op \notin {"add", "register"}
      PROVE  \A d \in Todo' : CallWithin(V, R, d)
  <2>1. /\ <<A>> \in Seq(SUBSET Call) /\ CallsOf(<<A>>) = A
        /\ <<>> \in Seq(SUBSET Call) /\ CallsOf(<<>>) = {}
    BY LoopType, CallsOfTuples
  <2>2. Todo' \subseteq A \cup Todo
    <3>1. CASE Return(c, <<A>>)
      <4>1. Todo' \subseteq CallsOf(<<A>>) \cup Todo
        BY <2>1, <3>1, RunCalls
      <4> QED BY <2>1, <4>1
    <3>2. CASE Return(c, <<>>)
      <4>1. Todo' \subseteq CallsOf(<<>>) \cup Todo
        BY <2>1, <3>2, RunCalls
      <4> QED BY <2>1, <4>1
    <3> QED BY <1>2, <3>1, <3>2
  <2> QED BY <1>2, <2>2 DEF Covered, CallWithin
<1>3. ASSUME UNCHANGED <<weight, listeners>>, \A d \in Todo' : CallWithin(V, R, d)
      PROVE  Covered(V, R)'
  BY <1>3 DEF Covered, Least!Below
<1>4. \A event : /\ TellClient(event) \in SUBSET Call
                 /\ \A d \in TellClient(event) : d.op = "client"
  BY DEF TellClient, Call, ClientCall
<1>5. CASE NotifyListeners(c)
  <2> DEFINE A == {[op |-> "hear", l |-> l, t |-> c.t, w |-> c.w] :
                     l \in {k \in listeners :
                              /\ Hears(k, c.t)
                              /\ (k.kind = "epsilon") <=> (c.op = "notifyIn")}}
  <2>1. c.t \in Transition /\ c.w \in Weight
    BY <1>1, <1>5, CallFields DEF NotifyListeners
  <2>2. A \in SUBSET Call /\ \A d \in A : d.op = "hear"
    BY <2>1 DEF Call, HearCall, TypeInv, TypeOK
  <2>3. Return(c, <<A>>) /\ UNCHANGED <<weight, listeners>>
    BY <1>5 DEF NotifyListeners, data
  <2> HIDE DEF A
  <2> QED BY <1>2, <1>3, <2>2, <2>3
<1>6. CASE RegisterListener(c)
  <2>1. c.op = "register" /\ c.l \in Listener
    BY <1>1, <1>6, CallFields DEF RegisterListener
  <2>2. Replay(c.l) \in SUBSET Call /\ \A d \in Replay(c.l) : d.op = "replay"
    BY <2>1 DEF Replay, TypeInv, TypeOK, Call, ReplayCall
  <2>3. Return(c, <<Replay(c.l)>>) \/ Return(c, <<>>)
    BY <1>6 DEF RegisterListener
  <2>4. \A d \in Todo' : CallWithin(V, R, d)
    BY <1>2, <2>2, <2>3
  <2>5. listeners' = listeners \cup {c.l} /\ weight' = weight /\ ListenerWithin(V, R, c.l)
    BY <1>1, <1>6, <2>1 DEF RegisterListener, Covered, CallWithin
  <2> QED BY <2>4, <2>5 DEF Covered, Least!Below
<1>7. CASE ReconnectPush(c) \/ UnbalancedPop(c)
  <2>1. PICK A \in SUBSET Call : Return(c, <<A>>) /\ \A d \in A : d.op = "client"
    <3>1. /\ (IF c.e \in connected THEN {} ELSE TellClient("connect")) \in SUBSET Call
          /\ (IF unbalanced' = unbalanced THEN {} ELSE TellClient("unbalanced"))
               \in SUBSET Call
      BY <1>4
    <3> QED BY <1>4, <1>7, <3>1 DEF ReconnectPush, UnbalancedPop
  <2>2. UNCHANGED <<weight, listeners>>
    BY <1>7 DEF ReconnectPush, UnbalancedPop
  <2> QED BY <1>2, <1>3, <2>1, <2>2
<1>8. CASE ClientReturn(c)
  <2>1. {} \in SUBSET Call /\ \A d \in {} : d.op \notin {"add", "register"}
    OBVIOUS
  <2>2. Return(c, <<>>) /\ UNCHANGED <<weight, listeners>>
    BY <1>8 DEF ClientReturn, data
  <2> QED BY <1>2, <1>3, <2>1, <2>2
<1> QED BY <1>5, <1>6, <1>7, <1>8

\* The client only adds rules and transitions: an automaton that they add
\* nothing to afterwards is one that they add nothing to before.
LEMMA ClosedBefore ==
    ASSUME rules \subseteq rules', started => started', seeded \subseteq seeded',
           NEW V, NEW R, Least!Closed(V, R)'
    PROVE  Least!Closed(V, R)
<1>1. (IF started THEN rules ELSE {}) \subseteq (IF started THEN rules ELSE {})'
  OBVIOUS
<1> QED BY <1>1 DEF Least!Closed

LEMMA CoveredClient ==
    ASSUME SaturationInv,
           \/ \E r \in Rules : AddRule(r)
           \/ \E f \in Seeds : AddSeed(f)
           \/ Poststar,
           NEW V, NEW R, Least!Closed(V, R)', Covered(V, R)
    PROVE  Covered(V, R)'
<1> USE DEF SaturationInv
<1>1. UNCHANGED <<weight, listeners>> /\ agenda \in Seq(SUBSET Call)
  BY DEF AddRule, AddSeed, Poststar, TypeInv, TypeOK
<1>2. ASSUME NEW A \in SUBSET Call, agenda' = <<A>> \o agenda,
             \A d \in A : CallWithin(V, R, d)
      PROVE  Covered(V, R)'
  <2>1. <<A>> \in Seq(SUBSET Call) /\ CallsOf(<<A>>) = A
    BY LoopType, CallsOfTuples
  <2>2. Todo' = CallsOf(<<A>>) \cup Todo
    BY <1>1, <1>2, <2>1, ClientCalls
  <2> QED BY <1>1, <1>2, <2>1, <2>2, CoveredStays
<1>3. ASSUME NEW r, r \in (IF started THEN rules ELSE {})', r \in Rules
      PROVE  CallWithin(V, R, [op |-> "register", l |-> r])
  <2>1. r \in R
    BY <1>3 DEF Least!Closed
  <2>2. r.kind # "transitive"
    BY <1>3, ClientAssumption DEF Rule, NormalRule, PushRule, PopRule
  <2> QED BY <2>1, <2>2 DEF CallWithin, ListenerWithin
<1>4. ASSUME NEW r \in Rules, AddRule(r) PROVE Covered(V, R)'
  <2>1. CASE started
    <3>1. r \in (IF started THEN rules ELSE {})'
      BY <1>4, <2>1 DEF AddRule
    <3>2. Register(r) \in SUBSET Call
      BY ClientAssumption, RegisterType, EffectCalls DEF Listener
    <3>3. \A d \in Register(r) : CallWithin(V, R, d)
      BY <1>3, <3>1 DEF Register
    <3>4. agenda' = <<Register(r)>> \o agenda
      BY <1>4, <2>1 DEF AddRule
    <3> QED BY <1>2, <3>2, <3>3, <3>4
  <2>2. CASE ~started
    <3>1. agenda' = agenda
      BY <1>1, <1>4, <2>2 DEF AddRule
    <3>2. Todo' = Todo
      BY <3>1 DEF Todo
    <3>3. Todo' \subseteq {} \cup Todo
      BY <3>2
    <3> QED BY <1>1, <3>3, CoveredStays
  <2> QED BY <2>1, <2>2
<1>5. ASSUME NEW f \in Seeds, AddSeed(f) PROVE Covered(V, R)'
  <2> DEFINE d == [op |-> "add", t |-> f.t, w |-> f.w]
  <2>1. {d} \in SUBSET Call
    BY ClientAssumption DEF Fact, Call, EffectCall, AddCall
  <2>2. agenda' = <<{d}>> \o agenda /\ f \in seeded'
    BY <1>5 DEF AddSeed
  <2>3. f = [t |-> f.t, w |-> f.w]
    BY ClientAssumption DEF Fact
  <2>4. Least!Holds(V, f)
    BY <2>2 DEF Least!Closed
  <2>5. d.op = "add" /\ d.t = f.t /\ d.w = f.w
    OBVIOUS
  <2>6. CallWithin(V, R, d)
    <3> HIDE DEF d
    <3> QED BY <2>3, <2>4, <2>5 DEF CallWithin, Within
  <2> HIDE DEF d
  <2> QED BY <1>2, <2>1, <2>2, <2>6
<1>6. CASE Poststar
  <2> DEFINE A == {[op |-> "register", l |-> r] : r \in rules}
  <2>1. A \in SUBSET Call
    BY ClientAssumption DEF TypeInv, TypeOK, Call, EffectCall, RegisterCall, Listener
  <2>2. \A d \in A : CallWithin(V, R, d)
    BY <1>3, <1>6 DEF Poststar, TypeInv, TypeOK
  <2>3. agenda = <<>> /\ agenda' = <<A>>
    BY <1>6 DEF Poststar
  <2> HIDE DEF A
  <2>4. agenda' = <<A>> \o agenda
    BY <2>3
  <2> QED BY <1>2, <2>1, <2>2, <2>4
<1> QED BY <1>4, <1>5, <1>6

\* One step stays within every automaton that nothing adds to.
LEMMA StepCovered ==
    ASSUME SaturationInv, ReportInv, AllCovered, [Next]_vars
    PROVE  AllCovered'
<1> USE DEF SaturationInv
<1>1. rules \subseteq rules' /\ (started => started') /\ seeded \subseteq seeded'
  <2>1. ASSUME NEW c \in Innermost,
               \/ ClientReturn(c) \/ AddWeightForTransition(c) \/ NotifyListeners(c)
               \/ RegisterListener(c) \/ OnNormal(c) \/ OnPush(c) \/ OnPop(c)
               \/ OnTransitive(c) \/ OnEpsilon(c) \/ ReconnectPush(c) \/ UnbalancedPop(c)
        PROVE  rules \subseteq rules' /\ (started => started') /\ seeded \subseteq seeded'
    BY <2>1 DEF ClientReturn, AddWeightForTransition, NotifyListeners, RegisterListener,
                OnNormal, OnPush, OnPop, OnTransitive, OnEpsilon, ReconnectPush,
                UnbalancedPop, data
  <2>2. CASE EndLoop \/ UNCHANGED vars
    BY <2>2 DEF EndLoop, vars, data
  <2>3. CASE \/ \E r \in Rules : AddRule(r)
             \/ \E f \in Seeds : AddSeed(f)
             \/ Poststar
    <3>1. /\ \A r : AddRule(r) =>
               rules' = rules \cup {r} /\ started' = started /\ seeded' = seeded
          /\ \A f : AddSeed(f) =>
               seeded' = seeded \cup {f} /\ rules' = rules /\ started' = started
          /\ Poststar => started' /\ rules' = rules /\ seeded' = seeded
      BY DEF AddRule, AddSeed, Poststar
    <3> QED BY <2>3, <3>1
  <2> QED BY <2>1, <2>2, <2>3 DEF Next, Step
<1> SUFFICES ASSUME NEW V \in Least!Automata, NEW R \in SUBSET Rule, Least!Closed(V, R)'
             PROVE  Covered(V, R)'
  BY DEF AllCovered, Least!Automata
<1>2. Least!Closed(V, R) /\ Covered(V, R)
  BY <1>1, ClosedBefore DEF AllCovered
<1>3. CASE \/ \E r \in Rules : AddRule(r)
           \/ \E f \in Seeds : AddSeed(f)
           \/ Poststar
  BY <1>2, <1>3, CoveredClient
<1>4. CASE EndLoop
  <2>1. /\ UNCHANGED data /\ agenda \in Seq(SUBSET Call) /\ LoopEnds
    BY <1>4 DEF EndLoop, LoopEnds, TypeInv, TypeOK
  <2>2. \A i \in DOMAIN agenda' : i + 1 \in DOMAIN agenda /\ agenda'[i] = agenda[i + 1]
    BY <2>1, EndedStack
  <2>3. Todo' \subseteq {} \cup Todo
    BY <2>2 DEF Todo, CallsOf
  <2>4. UNCHANGED <<weight, listeners>>
    BY <2>1 DEF data
  <2>5. PICK M : M = {} /\ Todo' \subseteq M \cup Todo
    BY <2>3
  <2>6. \A d \in M : CallWithin(V, R, d)
    BY <2>5
  <2> QED BY <1>2, <2>4, <2>5, <2>6, CoveredStays
<1>5. ASSUME NEW c \in Innermost, AddWeightForTransition(c) PROVE Covered(V, R)'
  BY <1>2, <1>5, CoveredAdd
<1>6. ASSUME NEW c \in Innermost,
             \/ NotifyListeners(c) \/ RegisterListener(c) \/ ReconnectPush(c)
             \/ UnbalancedPop(c) \/ ClientReturn(c)
      PROVE  Covered(V, R)'
  BY <1>2, <1>6, CoveredRest
<1>7. ASSUME NEW c \in Innermost,
             OnNormal(c) \/ OnPush(c) \/ OnPop(c) \/ OnTransitive(c) \/ OnEpsilon(c)
      PROVE  Covered(V, R)'
  <2>1. /\ c.op \in {"hear", "replay"} /\ UNCHANGED data
        /\ Return(c, Effects(c.l, c.t, WeightOf(c)))
    BY <1>7 DEF OnNormal, OnPush, OnPop, OnTransitive, OnEpsilon, Heard, Effects
  <2> QED BY <1>2, <2>1, CoveredTurn
<1>8. CASE UNCHANGED vars
  <2>1. Todo' \subseteq {} \cup Todo /\ UNCHANGED <<weight, listeners>>
    BY <1>8 DEF vars, data, Todo
  <2>2. PICK M : M = {} /\ Todo' \subseteq M \cup Todo
    BY <2>1
  <2>3. \A d \in M : CallWithin(V, R, d)
    BY <2>2
  <2> QED BY <1>2, <2>1, <2>2, <2>3, CoveredStays
<1> QED BY <1>3, <1>4, <1>5, <1>6, <1>7, <1>8 DEF Next, Step

LEMMA StepSeeds ==
    ASSUME SaturationInv, SeedsHeeded, [Next]_vars
    PROVE  SeedsHeeded'
<1> USE DEF SaturationInv
<1>1. TypeInv' /\ \E S : Progress(S)
  BY StepProgress
<1>2. ASSUME NEW f \in seeded PROVE Done([op |-> "add", t |-> f.t, w |-> f.w])'
  <2>1. [op |-> "add", t |-> f.t, w |-> f.w] \in EffectCall
    BY ClientAssumption DEF TypeInv, TypeOK, Fact, EffectCall, AddCall
  <2>2. Done([op |-> "add", t |-> f.t, w |-> f.w])
    BY DEF SeedsHeeded
  <2> QED BY <1>1, <2>1, <2>2, DoneStays
<1>3. ASSUME NEW f \in Seeds, AddSeed(f)
      PROVE  /\ seeded' = seeded \cup {f}
             /\ Done([op |-> "add", t |-> f.t, w |-> f.w])'
  <2> DEFINE d == [op |-> "add", t |-> f.t, w |-> f.w]
  <2>1. {d} \in SUBSET Call
    BY ClientAssumption DEF Fact, Call, EffectCall, AddCall
  <2>2. agenda' = <<{d}>> \o agenda
    BY <1>3 DEF AddSeed
  <2> HIDE DEF d
  <2>3. <<{d}>> \in Seq(SUBSET Call) /\ CallsOf(<<{d}>>) = {d}
    BY <2>1, LoopType, CallsOfTuples
  <2>4. Todo' = CallsOf(<<{d}>>) \cup Todo
    BY <2>2, <2>3, ClientCalls DEF TypeInv, TypeOK
  <2>5. Done(d)'
    BY <2>3, <2>4 DEF Done
  <2> QED BY <1>3, <2>5 DEF AddSeed, d
<1>4. seeded' = seeded \/ \E f \in Seeds : AddSeed(f)
  BY DEF Next, Step, AddRule, Poststar, EndLoop, ClientReturn,
         AddWeightForTransition, NotifyListeners, RegisterListener, OnNormal, OnPush,
         OnPop, OnTransitive, OnEpsilon, ReconnectPush, UnbalancedPop, data, vars
<1> QED BY <1>2, <1>3, <1>4 DEF SeedsHeeded

LEMMA StepAutomaton ==
    ASSUME SaturationInv, weight \in Least!Automata, [Next]_vars
    PROVE  (weight \in Least!Automata)'
<1> USE DEF SaturationInv
<1>1. weight' = weight \/ \E c \in Innermost : AddWeightForTransition(c)
  BY DEF Next, Step, AddRule, AddSeed, Poststar, EndLoop, ClientReturn,
         NotifyListeners, RegisterListener, OnNormal, OnPush,
         OnPop, OnTransitive, OnEpsilon, ReconnectPush, UnbalancedPop, data, vars
<1>2. ASSUME NEW c \in Innermost, AddWeightForTransition(c), weight' # weight
      PROVE  weight' \in Least!Automata
  <2>1. c.t \in Transition /\ c.w \in Weight
    BY <1>2, InnermostTodo, CallFields DEF AddWeightForTransition, TypeInv
  <2>2. weight' = Put(weight, c.t, c.w)
    BY <1>2 DEF AddWeightForTransition
  <2>3. /\ \A j \in DOMAIN weight : weight[j] \in Weight
        /\ DOMAIN weight \subseteq Transition
    BY DEF TypeInv, TypeOK
  <2> DEFINE D == DOMAIN weight \cup {c.t}
  <2>4. Put(weight, c.t, c.w) \in [D -> Weight]
    BY <2>1, <2>3, WeightAssumption DEF Put
  <2>5. D \in SUBSET Transition
    BY <2>1, <2>3
  <2> HIDE DEF D
  <2> QED BY <2>2, <2>4, <2>5 DEF Least!Automata
<1> QED BY <1>1, <1>2

LEMMA InitLeast == Init => LeastInv
<1> SUFFICES ASSUME Init PROVE LeastInv
  OBVIOUS
<1>1. Todo = {}
  BY CallsOfTuples DEF Init, Todo
<1>2. AllCovered
  BY <1>1 DEF Init, AllCovered, Covered, Least!Below
<1>3. weight \in [{} -> Weight] /\ {} \in SUBSET Transition
  BY DEF Init
<1>4. weight \in Least!Automata
  BY <1>3 DEF Least!Automata
<1> QED BY <1>2, <1>4 DEF Init, LeastInv, SeedsHeeded

LEMMA StepLeast ==
    ASSUME SaturationInv, ReportInv, LeastInv, [Next]_vars
    PROVE  LeastInv'
BY StepCovered, StepSeeds, StepAutomaton DEF LeastInv

\* With an empty stack, the rules add nothing to the automaton.
LEMMA QuietFacts ==
    ASSUME SaturationInv, Quiet, NEW R, R = listeners \cap Rule,
           NEW f \in Least!Normal(weight, R) \cup Least!Push(weight, R)
                       \cup Least!Pop(weight, R)
    PROVE  Accounts(f.t, f.w)
<1>1. ASSUME NEW r \in R, NEW t \in DOMAIN weight, Least!Fits(r, t)
      PROVE  r \in listeners /\ r.s1 = t.start /\ Matches(r.l1, t.label)
  BY <1>1 DEF Least!Fits, Least!Wild, Matches
<1>2. CASE f \in Least!Normal(weight, R)
  <2>1. PICK x \in R \X DOMAIN weight :
           /\ x[1].kind = "normal" /\ Least!Fits(x[1], x[2])
           /\ Least!Wild(x[1].l2) => /\ x[2].label # Eps
                                     /\ x[2].label \notin Excludes[x[1].l2]
           /\ f = Least!WithWeight(
                    Least!Edge(x[1].s2, IF Least!Wild(x[1].l2) THEN x[2].label ELSE x[1].l2,
                               x[2].target), Extend(weight[x[2]], x[1].w))
    BY <1>2 DEF Least!Normal
  <2>2. PICK r \in R, t \in DOMAIN weight : r = x[1] /\ t = x[2]
    OBVIOUS
  <2>3. r \in NormalRule
    BY <2>1, <2>2 DEF Rule, PushRule, PopRule
  <2>4. NormalApplies(r, t.label)
    BY <1>1, <2>1, <2>2 DEF NormalApplies, Least!Wild
  <2>5. f = [t |-> [start |-> r.s2,
                    label |-> IF r.l2 \in Wildcard THEN t.label ELSE r.l2,
                    target |-> t.target],
             w |-> Extend(weight[t], r.w)]
    BY <2>1, <2>2 DEF Least!WithWeight, Least!Edge, Least!Wild
  <2>6. Accounts([start |-> r.s2, label |-> IF r.l2 \in Wildcard THEN t.label ELSE r.l2,
                  target |-> t.target], Extend(weight[t], r.w))
    BY <1>1, <2>1, <2>2, <2>3, <2>4, NormalDone
  <2> QED BY <2>5, <2>6
<1>3. CASE f \in Least!Push(weight, R)
  <2>1. PICK x \in R \X DOMAIN weight :
           /\ x[1].kind = "push" /\ Least!Fits(x[1], x[2])
           /\ Least!Wild(x[1].callSite) => x[2].label # Eps
           /\ \/ f = Least!WithWeight(
                       Least!Edge(x[1].s2, x[1].l2, CreateState(x[1].s2, x[1].l2)), One)
              \/ f = Least!WithWeight(
                       Least!Edge(CreateState(x[1].s2, x[1].l2),
                                  IF Least!Wild(x[1].callSite) THEN x[2].label
                                  ELSE x[1].callSite, x[2].target),
                       Extend(weight[x[2]], x[1].w))
    BY <1>3 DEF Least!Push
  <2>2. PICK r \in R, t \in DOMAIN weight : r = x[1] /\ t = x[2]
    OBVIOUS
  <2>3. r \in PushRule
    BY <2>1, <2>2 DEF Rule, NormalRule, PopRule
  <2> DEFINE ir == CreateState(r.s2, r.l2)
  <2>4. \/ f = [t |-> [start |-> r.s2, label |-> r.l2, target |-> ir], w |-> One]
        \/ f = [t |-> [start |-> ir, label |-> CallSiteLabel(r, t.label),
                       target |-> t.target], w |-> Extend(weight[t], r.w)]
    BY <2>1, <2>2 DEF Least!WithWeight, Least!Edge, Least!Wild, CallSiteLabel
  <2>5. /\ Accounts([start |-> ir, label |-> CallSiteLabel(r, t.label),
                     target |-> t.target], Extend(weight[t], r.w))
        /\ Accounts([start |-> r.s2, label |-> r.l2, target |-> ir], One)
    BY <1>1, <2>1, <2>2, <2>3, PushDone DEF Least!Wild
  <2> QED BY <2>4, <2>5
<1>4. CASE f \in Least!Pop(weight, R)
  <2>1. PICK x \in Least!Popped(weight, R) :
           \/ f = Least!WithWeight(Least!Edge(x[1].s2, Eps, x[2].target),
                                   Extend(weight[x[2]], x[1].w))
           \/ \E u \in DOMAIN weight :
                /\ u.start = x[2].target
                /\ f = Least!WithWeight(Least!Edge(x[1].s2, u.label, u.target),
                                        Extend(weight[u], Extend(weight[x[2]], x[1].w)))
    <3>1. PICK x \in Least!Popped(weight, R) :
            f \in {Least!WithWeight(Least!Edge(x[1].s2, Eps, x[2].target),
                                    Extend(weight[x[2]], x[1].w))}
                    \cup {Least!WithWeight(Least!Edge(x[1].s2, u.label, u.target),
                                           Extend(weight[u], Extend(weight[x[2]], x[1].w))) :
                            u \in {t \in DOMAIN weight : t.start = x[2].target}}
      BY <1>4, Zenon DEF Least!Pop
    <3> QED BY <3>1
  <2>2. PICK r \in R, t \in DOMAIN weight :
           /\ r = x[1] /\ t = x[2]
           /\ r.kind = "pop" /\ Least!Fits(r, t) /\ t.target \in Generated
    BY DEF Least!Popped
  <2>3. r \in PopRule /\ r.l1 = t.label
    BY <2>2, LabelAssumption DEF Rule, NormalRule, PushRule, PopRule, Least!Fits, Least!Wild
  <2> DEFINE v == Extend(weight[t], r.w)
  <2>4. /\ Accounts([start |-> r.s2, label |-> Eps, target |-> t.target], v)
        /\ \A u \in DOMAIN weight : u.start = t.target =>
             Accounts([start |-> r.s2, label |-> u.label, target |-> u.target],
                      Extend(weight[u], v))
    BY <1>1, <2>2, <2>3, PopDone
  <2>5. \/ f = [t |-> [start |-> r.s2, label |-> Eps, target |-> t.target], w |-> v]
        \/ \E u \in DOMAIN weight :
             /\ u.start = t.target
             /\ f = [t |-> [start |-> r.s2, label |-> u.label, target |-> u.target],
                     w |-> Extend(weight[u], v)]
    BY <2>1, <2>2 DEF Least!WithWeight, Least!Edge
  <2> QED BY <2>4, <2>5
<1> QED BY <1>2, <1>3, <1>4

LEMMA AccountsHolds ==
    ASSUME NEW f, Accounts(f.t, f.w)
    PROVE  Least!Holds(weight, f)
BY DEF Accounts, Least!Holds, Least!Absorbs, Least!NotEmptyLoop

LEMMA NothingMissingWhenDone ==
    ASSUME SaturationInv, SeedsHeeded, agenda = <<>>
    PROVE  Least!NothingMissing
<1>1. Todo = {}
  BY CallsOfTuples DEF Todo
<1>2. ASSUME NEW f \in seeded PROVE Accounts(f.t, f.w)
  BY <1>1 DEF SeedsHeeded, Done
<1>3. CASE ~started
  <2>1. PICK R : R = {}
    OBVIOUS
  <2>2. /\ Least!Normal(weight, R) = {} /\ Least!Push(weight, R) = {}
        /\ Least!Pop(weight, R) = {} /\ Least!Forwarded(weight, R) = {}
    BY <2>1 DEF Least!Normal, Least!Push, Least!Pop, Least!Popped, Least!Forwarded
  <2>3. Least!Closed(weight, R)
    BY <1>2, <1>3, <2>1, <2>2, AccountsHolds DEF Least!Closed
  <2>4. R \in SUBSET Rule
    BY <2>1
  <2> QED BY <2>3, <2>4 DEF Least!NothingMissing
<1>4. CASE started
  <2>1. PICK R : R = listeners \cap Rule
    OBVIOUS
  <2>2. Quiet
    BY <1>4 DEF Quiet
  <2>3. rules \subseteq R
    BY <2>1, <2>2, QuietRules
  <2>4. Least!Forwarded(weight, R) \subseteq R
    <3> SUFFICES ASSUME NEW m \in Least!Forwarded(weight, R) PROVE m \in R
      OBVIOUS
    <3>1. PICK x \in R \X DOMAIN weight :
             /\ x[1].kind = "pop" /\ x[1].s1 = x[2].start /\ x[2].label \in Empties
             /\ m = [x[1] EXCEPT !.s1 = x[2].target]
      BY DEF Least!Forwarded
    <3>2. PICK r \in R, t \in DOMAIN weight : r = x[1] /\ t = x[2]
      OBVIOUS
    <3>3. r \in PopRule /\ r \in listeners
      BY <2>1, <3>1, <3>2 DEF Rule, NormalRule, PushRule
    <3>4. t \in Transition
      BY DEF SaturationInv, TypeInv, TypeOK
    <3>5. m \in listeners
      BY <2>2, <3>1, <3>2, <3>3, ForwardDone
    <3>6. m \in PopRule
      BY <3>1, <3>2, <3>3, <3>4 DEF PopRule, Transition
    <3> QED BY <2>1, <3>5, <3>6 DEF Rule
  <2>5. \A f \in Least!Normal(weight, R) \cup Least!Push(weight, R)
                   \cup Least!Pop(weight, R) : Accounts(f.t, f.w)
    BY <2>1, <2>2, QuietFacts
  <2>6. \A f \in seeded \cup Least!Normal(weight, R) \cup Least!Push(weight, R)
                   \cup Least!Pop(weight, R) : Least!Holds(weight, f)
    BY <1>2, <2>5, AccountsHolds
  <2>7. Least!Closed(weight, R)
    BY <2>3, <2>4, <2>6 DEF Least!Closed
  <2>8. R \in SUBSET Rule
    BY <2>1
  <2> QED BY <2>7, <2>8 DEF Least!NothingMissing
<1> QED BY <1>3, <1>4

LEMMA LeastInvariant == Spec => [](SaturationInv /\ ReportInv /\ LeastInv)
<1>1. SaturationInv /\ ReportInv /\ LeastInv /\ [Next]_vars
        => SaturationInv' /\ ReportInv' /\ LeastInv'
  BY StepProgress, StepReports, StepLeast
<1>2. Init => SaturationInv /\ ReportInv /\ LeastInv
  BY InitSaturation, InitReports, InitLeast
<1> QED BY <1>1, <1>2, PTL DEF Spec

\* What the steps of PostStar refine: the automaton never says too much, and
\* nothing is missing from it whenever no call is in progress.
LEMMA LeastAlways ==
    SaturationInv /\ ReportInv /\ LeastInv
      => Least!NothingInvented /\ (agenda = <<>> => Least!NothingMissing)
<1>1. AllCovered => Least!NothingInvented
  BY DEF AllCovered, Covered, Least!NothingInvented
<1> QED BY <1>1, NothingMissingWhenDone DEF LeastInv

LEMMA BelowImproved ==
    ASSUME Improves(weight', weight)
    PROVE  Least!Below(weight, weight')
BY DEF Improves, Least!Below, Least!Absorbs, Least!WithWeight

\* A call of the client is one of LeastSaturation's, or changes nothing there.
LEMMA ClientRefines ==
    ASSUME SaturationInv,
           \/ \E r \in Rules : AddRule(r)
           \/ \E f \in Seeds : AddSeed(f)
           \/ Poststar
    PROVE  [Least!Next]_(Least!vars)
<1>1. agenda \in Seq(SUBSET Call) /\ rules \subseteq Rules /\ seeded \subseteq Seeds
  BY DEF SaturationInv, TypeInv, TypeOK
<1>2. ASSUME NEW A \in SUBSET Call, agenda' = <<A>> \o agenda
      PROVE  (agenda' # <<>>) = TRUE
  BY <1>1, <1>2
<1>3. ASSUME NEW r \in Rules, AddRule(r), started PROVE Least!Ask
  <2>1. Register(r) \in SUBSET Call
    BY ClientAssumption, RegisterType, EffectCalls DEF Listener
  <2>2. (agenda' # <<>>) = TRUE
    BY <1>2, <1>3, <2>1 DEF AddRule
  <2>3. /\ rules' = rules \cup {r} /\ started' = started /\ seeded' = seeded
        /\ weight' = weight
    BY <1>3 DEF AddRule
  <2> QED BY <1>1, <1>3, <2>2, <2>3 DEF Least!Ask
<1>4. ASSUME NEW r \in Rules, AddRule(r), ~started PROVE UNCHANGED Least!vars
  <2>1. agenda' = agenda /\ started' = started /\ seeded' = seeded /\ weight' = weight
    BY <1>1, <1>4 DEF AddRule
  <2> QED BY <1>4, <2>1 DEF Least!vars
<1>5. ASSUME NEW f \in Seeds, AddSeed(f) PROVE Least!Ask
  <2>1. {[op |-> "add", t |-> f.t, w |-> f.w]} \in SUBSET Call
    BY ClientAssumption DEF Fact, Call, EffectCall, AddCall
  <2>2. (agenda' # <<>>) = TRUE
    BY <1>2, <1>5, <2>1 DEF AddSeed
  <2>3. /\ seeded' = seeded \cup {f} /\ rules' = rules /\ started' = started
        /\ weight' = weight
    BY <1>5 DEF AddSeed
  <2>4. (IF started THEN rules ELSE {})' = IF started THEN rules ELSE {}
    BY <2>3
  <2> QED BY <1>1, <2>2, <2>3, <2>4 DEF Least!Ask
<1>6. ASSUME Poststar PROVE Least!Ask
  <2>1. (agenda' # <<>>) = TRUE
    BY <1>6 DEF Poststar
  <2>2. /\ rules' = rules /\ seeded' = seeded /\ weight' = weight
        /\ ~started /\ started'
    BY <1>6 DEF Poststar
  <2> QED BY <1>1, <2>1, <2>2 DEF Least!Ask
<1> QED BY <1>3, <1>4, <1>5, <1>6 DEF Least!Next

\* A step of the running call is work there.
LEMMA WorkRefines ==
    ASSUME SaturationInv, ReportInv, LeastInv, Step
    PROVE  Least!Work
<1>1. [Next]_vars
  BY DEF Next
<1>2. SaturationInv' /\ ReportInv' /\ LeastInv'
  BY <1>1, StepProgress, StepReports, StepLeast
<1>3. (Least!NothingInvented /\ (agenda = <<>> => Least!NothingMissing))'
  BY <1>2, LeastAlways, PTL
<1>4. Least!Below(weight, weight')
  <2>1. Improves(weight', weight)
    BY <1>1, StepProgress DEF Progress
  <2> QED BY <2>1, BelowImproved
<1>5. agenda # <<>>
  BY DEF Step, EndLoop, Innermost
<1>6. rules' = rules /\ started' = started /\ seeded' = seeded
  BY DEF Step, EndLoop, ClientReturn, AddWeightForTransition, NotifyListeners,
         RegisterListener, OnNormal, OnPush, OnPop, OnTransitive, OnEpsilon,
         ReconnectPush, UnbalancedPop, data
<1>7. weight' \in Least!Automata
  BY <1>2 DEF LeastInv, Least!Automata
<1>8. (IF started THEN rules ELSE {})' = IF started THEN rules ELSE {}
  BY <1>6
<1>9. (agenda' # <<>>) \in BOOLEAN
  OBVIOUS
<1> QED BY <1>3, <1>4, <1>5, <1>6, <1>7, <1>8, <1>9 DEF Least!Work

\* For every pushdown system, of infinite ones too, and every domain whose
\* Combine is a join and whose Extend is monotone: whatever the order of rules,
\* transitions and callbacks, the solver keeps LeastSaturation's promise.  Its
\* automaton is at any time below every automaton to which the rules add
\* nothing, and when the outermost call returns it is one of these itself.
THEOREM ImplementsLeastSaturation == Spec => Least!Spec
<1>1. Init => Least!Init
  BY DEF Init, Least!Init
<1>2. SaturationInv /\ ReportInv /\ LeastInv /\ [Next]_vars => [Least!Next]_(Least!vars)
  <2> SUFFICES ASSUME SaturationInv, ReportInv, LeastInv, [Next]_vars
               PROVE  [Least!Next]_(Least!vars)
    OBVIOUS
  <2>1. CASE UNCHANGED vars
    BY <2>1 DEF vars, data, Least!vars
  <2>2. CASE Step
    BY <2>2, WorkRefines DEF Least!Next
  <2>3. CASE \/ \E r \in Rules : AddRule(r)
             \/ \E f \in Seeds : AddSeed(f)
             \/ Poststar
    BY <2>3, ClientRefines
  <2> QED BY <2>1, <2>2, <2>3 DEF Next
<1> QED BY <1>1, <1>2, LeastInvariant, PTL DEF Spec, Least!Spec

\* In particular, whenever no call is in progress: the automaton is one that the
\* rules add nothing to, and no other such automaton lacks anything it holds.
THEOREM LeastWhenQuiet ==
    Spec => []/\ Least!NothingInvented
              /\ agenda = <<>> => Least!NothingMissing
BY LeastInvariant, LeastAlways, PTL
=============================================================================
