------------------------- MODULE FinalStates_proofs -------------------------
(***************************************************************************)
(* Transition functions are the sets of transitions under composition and  *)
(* union: extendWith and combineWith compute these, the special weights    *)
(* included, and combining is the join that the automata need.             *)
(*                                                                         *)
(* The final weights of an automaton are, for all weights with such laws,  *)
(* the combined weights of the ways to each transition; with transition    *)
(* functions they lead an object just where the statements lead it.        *)
(***************************************************************************)
EXTENDS FinalStates, CallStack_proofs

(***************************************************************************)
(* Weights and sets of transitions.                                        *)
(***************************************************************************)
LEMMA WeightCases ==
    ASSUME NEW w \in TransitionFunction
    PROVE  \/ w = one
           \/ w = zero
           \/ /\ w = Function(w.value)
              /\ w.value \in SUBSET Element
              /\ w.value # {} /\ w.value # {Identity}
              /\ w # one /\ w # zero
  <1>1. SUFFICES ASSUME NEW ts \in SUBSET Element, ts # {}, ts # {Identity},
                        w = Function(ts)
                 PROVE  /\ w = Function(w.value)
                        /\ w.value \in SUBSET Element
                        /\ w.value # {} /\ w.value # {Identity}
                        /\ w # one /\ w # zero
    BY DEF TransitionFunction
  <1>2. w.value = ts /\ w.rep = "null"
    BY <1>1 DEF Function
  <1>3. one.rep = "ONE" /\ zero.rep = "ZERO"
    BY DEF one, zero
  <1>4. QED
    BY <1>1, <1>2, <1>3

LEMMA FunctionIsWeight ==
    ASSUME NEW ts \in SUBSET Element, ts # {}, ts # {Identity}
    PROVE  Function(ts) \in TransitionFunction /\ Transitions(Function(ts)) = ts
  <1>1. Function(ts) \in TransitionFunction
    BY DEF TransitionFunction
  <1>2. Function(ts).rep = "null" /\ Function(ts).value = ts /\ one.rep = "ONE"
    BY DEF Function, one
  <1>3. QED
    BY <1>1, <1>2 DEF Transitions

LEMMA SpecialWeights ==
    /\ one \in TransitionFunction /\ zero \in TransitionFunction /\ one # zero
    /\ Transitions(one) = {Identity} /\ Transitions(zero) = {}
  BY DEF TransitionFunction, Transitions, one, zero

LEMMA TransitionsTyped ==
    ASSUME NEW w \in TransitionFunction
    PROVE  Transitions(w) \in SUBSET Element
  BY WeightCases DEF Transitions, one, zero, Element

\* A weight is determined by its transitions: equal meanings, equal objects.
LEMMA TransitionsInjective ==
    ASSUME NEW v \in TransitionFunction, NEW w \in TransitionFunction, Transitions(v) = Transitions(w)
    PROVE  v = w
  <1>1. \/ v = one
        \/ v = zero
        \/ /\ v = Function(v.value) /\ v # one
           /\ v.value # {} /\ v.value # {Identity}
    BY WeightCases
  <1>2. \/ w = one
        \/ w = zero
        \/ /\ w = Function(w.value) /\ w # one
           /\ w.value # {} /\ w.value # {Identity}
    BY WeightCases
  <1>3. one.value = {} /\ zero.value = {} /\ one # zero
    BY DEF one, zero
  <1>4. QED
    BY <1>1, <1>2, <1>3 DEF Transitions

(***************************************************************************)
(* Composition.                                                            *)
(***************************************************************************)
LEMMA ElementCases ==
    ASSUME NEW f \in Element, f # Identity
    PROVE  f.from \in TypeState /\ f.to \in TypeState
  BY MachineAssumption DEF Element, Plain

LEMMA ComposeTyped ==
    ASSUME NEW f \in Element, NEW g \in Element
    PROVE  /\ Compose(f, g) \in SUBSET Element
           /\ Identity \in Compose(f, g) => f = Identity /\ g = Identity
  <1>1. CASE f = Identity \/ g = Identity
    BY <1>1 DEF Compose
  <1>2. CASE f # Identity /\ g # Identity
    <2>1. New(f.from, g.to) \in Plain
      BY <1>2, ElementCases DEF New, Plain
    <2>2. QED
      BY <1>2, <2>1, MachineAssumption DEF Compose, Element
  <1>3. QED BY <1>1, <1>2

LEMMA ProductTyped ==
    ASSUME NEW A \in SUBSET Element, NEW B \in SUBSET Element
    PROVE  Product(A, B) \in SUBSET Element
  BY ComposeTyped DEF Product

LEMMA ProductMember ==
    ASSUME NEW A, NEW B, NEW f \in A, NEW g \in B, NEW x \in Compose(f, g)
    PROVE  x \in Product(A, B)
  BY <<f, g>> \in A \X B DEF Product

LEMMA ProductWitness ==
    ASSUME NEW A, NEW B, NEW x \in Product(A, B)
    PROVE  \E f \in A, g \in B : x \in Compose(f, g)
  BY DEF Product

LEMMA ProductIdentity ==
    ASSUME NEW A
    PROVE  Product(A, {Identity}) = A /\ Product({Identity}, A) = A
  <1>1. Product(A, {Identity}) = A
    <2>1. ASSUME NEW x \in A PROVE x \in Product(A, {Identity})
      <3>1. x \in Compose(x, Identity) BY DEF Compose
      <3>2. QED BY <3>1, ProductMember
    <2>2. ASSUME NEW x \in Product(A, {Identity}) PROVE x \in A
      BY <2>2, ProductWitness DEF Compose
    <2>3. QED BY <2>1, <2>2
  <1>2. Product({Identity}, A) = A
    <2>1. ASSUME NEW x \in A PROVE x \in Product({Identity}, A)
      <3>1. x \in Compose(Identity, x) BY DEF Compose
      <3>2. QED BY <3>1, ProductMember
    <2>2. ASSUME NEW x \in Product({Identity}, A) PROVE x \in A
      BY <2>2, ProductWitness DEF Compose
    <2>3. QED BY <2>1, <2>2
  <1>3. QED BY <1>1, <1>2

LEMMA ProductEmpty ==
    ASSUME NEW A
    PROVE  Product(A, {}) = {} /\ Product({}, A) = {}
  BY ProductWitness

\* A product that is the identity alone has a factor that is.
LEMMA ProductNotIdentity ==
    ASSUME NEW A \in SUBSET Element, NEW B \in SUBSET Element,
           A # {}, A # {Identity}
    PROVE  Product(A, B) # {Identity}
  <1> SUFFICES ASSUME Product(A, B) = {Identity} PROVE FALSE
    OBVIOUS
  <1>1. PICK f \in A, g \in B : Identity \in Compose(f, g)
    BY ProductWitness
  <1>2. g = Identity
    BY <1>1, ComposeTyped
  <1>3. PICK a \in A : a # Identity
    OBVIOUS
  <1>4. a \in Compose(a, g)
    BY <1>2 DEF Compose
  <1>5. a \in Product(A, B)
    BY <1>4, ProductMember
  <1>6. QED BY <1>3, <1>5

(***************************************************************************)
(* What extendWith and combineWith compute.                                *)
(***************************************************************************)
LEMMA ExtendIsProduct ==
    ASSUME NEW v \in TransitionFunction, NEW w \in TransitionFunction
    PROVE  /\ ExtendWith(v, w) \in TransitionFunction
           /\ Transitions(ExtendWith(v, w)) = Product(Transitions(v), Transitions(w))
  <1>1. CASE w = one
    BY <1>1, ProductIdentity, SpecialWeights DEF ExtendWith
  <1>2. CASE w # one /\ v = one
    BY <1>2, ProductIdentity, SpecialWeights DEF ExtendWith
  <1>3. CASE w # one /\ v # one /\ (w = zero \/ v = zero)
    BY <1>3, ProductEmpty, SpecialWeights DEF ExtendWith
  <1>4. CASE w # one /\ v # one /\ w # zero /\ v # zero
    <2> DEFINE P == Product(v.value, w.value)
    <2>1. /\ v.value \in SUBSET Element /\ v.value # {} /\ v.value # {Identity}
          /\ w.value \in SUBSET Element
      BY <1>4, WeightCases
    <2>2. Transitions(v) = v.value /\ Transitions(w) = w.value
      BY <1>4 DEF Transitions
    <2>3. P \in SUBSET Element /\ P # {Identity}
      BY <2>1, ProductTyped, ProductNotIdentity
    <2>4. CASE P = {}
      BY <1>4, <2>2, <2>4, SpecialWeights DEF ExtendWith
    <2>5. CASE P # {}
      <3>1. ExtendWith(v, w) = Function(P)
        BY <1>4, <2>5 DEF ExtendWith
      <3>2. QED BY <3>1, <2>2, <2>3, <2>5, FunctionIsWeight
    <2>6. QED BY <2>4, <2>5
  <1>5. QED BY <1>1, <1>2, <1>3, <1>4

LEMMA CombineIsUnion ==
    ASSUME NEW v \in TransitionFunction, NEW w \in TransitionFunction
    PROVE  /\ CombineWith(v, w) \in TransitionFunction
           /\ Transitions(CombineWith(v, w)) = Transitions(v) \cup Transitions(w)
  <1>0. Identity \in Element
    BY DEF Element
  <1>1. CASE v = zero \/ w = zero
    BY <1>1, SpecialWeights DEF CombineWith
  <1>2. CASE v = one /\ w = one
    BY <1>2, SpecialWeights DEF CombineWith
  <1>3. CASE v = one /\ w # one /\ w # zero
    <2>1. w.value \in SUBSET Element /\ w.value # {} /\ w.value # {Identity}
      BY <1>3, WeightCases
    <2>2. CombineWith(v, w) = Function(w.value \cup {Identity})
      BY <1>3, SpecialWeights DEF CombineWith
    <2>3. Transitions(w) = w.value
      BY <1>3 DEF Transitions
    <2>4. QED BY <1>0, <1>3, <2>1, <2>2, <2>3, FunctionIsWeight, SpecialWeights
  <1>4. CASE w = one /\ v # one /\ v # zero
    <2>1. v.value \in SUBSET Element /\ v.value # {} /\ v.value # {Identity}
      BY <1>4, WeightCases
    <2>2. CombineWith(v, w) = Function(v.value \cup {Identity})
      BY <1>4, SpecialWeights DEF CombineWith
    <2>3. Transitions(v) = v.value
      BY <1>4 DEF Transitions
    <2>4. QED BY <1>0, <1>4, <2>1, <2>2, <2>3, FunctionIsWeight, SpecialWeights
  <1>5. CASE v # one /\ w # one /\ v # zero /\ w # zero
    <2>1. /\ v.value \in SUBSET Element /\ v.value # {} /\ v.value # {Identity}
          /\ w.value \in SUBSET Element /\ w.value # {} /\ w.value # {Identity}
      BY <1>5, WeightCases
    <2>2. CombineWith(v, w) = Function(v.value \cup w.value)
      BY <1>5 DEF CombineWith
    <2>3. Transitions(v) = v.value /\ Transitions(w) = w.value
      BY <1>5 DEF Transitions
    <2>4. QED BY <2>1, <2>2, <2>3, FunctionIsWeight
  <1>6. QED BY <1>1, <1>2, <1>3, <1>4, <1>5

\* combineWith is a join on the weights that occur: what PostStar assumes of
\* its weight domain holds of transition functions.
THEOREM CombineIsJoin ==
    /\ \A v, w \in TransitionFunction : ExtendWith(v, w) \in TransitionFunction /\ CombineWith(v, w) \in TransitionFunction
    /\ \A u, v, w \in TransitionFunction :
          /\ CombineWith(u, u) = u
          /\ CombineWith(u, v) = CombineWith(v, u)
          /\ CombineWith(CombineWith(u, v), w) = CombineWith(u, CombineWith(v, w))
  <1>1. \A v, w \in TransitionFunction : ExtendWith(v, w) \in TransitionFunction /\ CombineWith(v, w) \in TransitionFunction
    BY ExtendIsProduct, CombineIsUnion
  <1>2. ASSUME NEW u \in TransitionFunction PROVE CombineWith(u, u) = u
    BY CombineIsUnion, TransitionsInjective
  <1>3. ASSUME NEW u \in TransitionFunction, NEW v \in TransitionFunction
        PROVE  CombineWith(u, v) = CombineWith(v, u)
    <2>1. Transitions(CombineWith(u, v)) = Transitions(CombineWith(v, u))
      BY CombineIsUnion
    <2>2. QED BY <2>1, <1>1, TransitionsInjective
  <1>4. ASSUME NEW u \in TransitionFunction, NEW v \in TransitionFunction, NEW w \in TransitionFunction
        PROVE  CombineWith(CombineWith(u, v), w) = CombineWith(u, CombineWith(v, w))
    <2>1. CombineWith(u, v) \in TransitionFunction /\ CombineWith(v, w) \in TransitionFunction
      BY <1>1
    <2>2. /\ Transitions(CombineWith(CombineWith(u, v), w)) =
               (Transitions(u) \cup Transitions(v)) \cup Transitions(w)
          /\ Transitions(CombineWith(u, CombineWith(v, w))) =
               Transitions(u) \cup (Transitions(v) \cup Transitions(w))
      BY <2>1, CombineIsUnion
    <2>3. /\ CombineWith(CombineWith(u, v), w) \in TransitionFunction
          /\ CombineWith(u, CombineWith(v, w)) \in TransitionFunction
      BY <1>1, <2>1
    <2>4. QED BY <2>2, <2>3, TransitionsInjective
  <1>5. QED BY <1>1, <1>2, <1>3, <1>4

\* extendWith distributes over combineWith on both sides: combining at the
\* transitions of an automaton loses nothing against combining whole ways.
THEOREM ExtendDistributes ==
    ASSUME NEW u \in TransitionFunction, NEW v \in TransitionFunction, NEW w \in TransitionFunction
    PROVE  /\ ExtendWith(u, CombineWith(v, w)) = CombineWith(ExtendWith(u, v), ExtendWith(u, w))
           /\ ExtendWith(CombineWith(v, w), u) = CombineWith(ExtendWith(v, u), ExtendWith(w, u))
  <1> DEFINE VW == CombineWith(v, w)
             UV == ExtendWith(u, v)
             UW == ExtendWith(u, w)
             VU == ExtendWith(v, u)
             WU == ExtendWith(w, u)
  <1>2. /\ VW \in TransitionFunction /\ UV \in TransitionFunction /\ UW \in TransitionFunction
        /\ VU \in TransitionFunction /\ WU \in TransitionFunction
        /\ Transitions(VW) = Transitions(v) \cup Transitions(w)
        /\ Transitions(UV) = Product(Transitions(u), Transitions(v))
        /\ Transitions(UW) = Product(Transitions(u), Transitions(w))
        /\ Transitions(VU) = Product(Transitions(v), Transitions(u))
        /\ Transitions(WU) = Product(Transitions(w), Transitions(u))
    BY ExtendIsProduct, CombineIsUnion
  <1> HIDE DEF VW, UV, UW, VU, WU
  <1>3. ExtendWith(u, VW) = CombineWith(UV, UW)
    <2>1. /\ ExtendWith(u, VW) \in TransitionFunction
          /\ Transitions(ExtendWith(u, VW)) = Product(Transitions(u), Transitions(VW))
      BY <1>2, ExtendIsProduct
    <2>2. /\ CombineWith(UV, UW) \in TransitionFunction
          /\ Transitions(CombineWith(UV, UW)) = Transitions(UV) \cup Transitions(UW)
      BY <1>2, CombineIsUnion
    <2>3. Product(Transitions(u), Transitions(v) \cup Transitions(w)) =
            Product(Transitions(u), Transitions(v))
              \cup Product(Transitions(u), Transitions(w))
      BY DEF Product
    <2>4. Transitions(ExtendWith(u, VW)) = Transitions(CombineWith(UV, UW))
      BY <1>2, <2>1, <2>2, <2>3
    <2>5. QED BY <2>1, <2>2, <2>4, TransitionsInjective
  <1>4. ExtendWith(VW, u) = CombineWith(VU, WU)
    <2>1. /\ ExtendWith(VW, u) \in TransitionFunction
          /\ Transitions(ExtendWith(VW, u)) = Product(Transitions(VW), Transitions(u))
      BY <1>2, ExtendIsProduct
    <2>2. /\ CombineWith(VU, WU) \in TransitionFunction
          /\ Transitions(CombineWith(VU, WU)) = Transitions(VU) \cup Transitions(WU)
      BY <1>2, CombineIsUnion
    <2>3. Product(Transitions(v) \cup Transitions(w), Transitions(u)) =
            Product(Transitions(v), Transitions(u))
              \cup Product(Transitions(w), Transitions(u))
      BY DEF Product
    <2>4. Transitions(ExtendWith(VW, u)) = Transitions(CombineWith(VU, WU))
      BY <1>2, <2>1, <2>2, <2>3
    <2>5. QED BY <2>1, <2>2, <2>4, TransitionsInjective
  <1>5. QED BY <1>3, <1>4 DEF VW, UV, UW, VU, WU

(***************************************************************************)
(* The weights of an automaton.                                            *)
(***************************************************************************)
LEMMA WeightOfTyped ==
    ASSUME NEW e \in Event
    PROVE  /\ WeightOf(e) \in TransitionFunction
           /\ Identity \notin Matched(e)
           /\ Matched(e) \in SUBSET Element
           /\ Transitions(WeightOf(e)) =
                IF Matched(e) = {} THEN {Identity} ELSE Matched(e)
  <1>1. Matched(e) \in SUBSET (Plain \cup Matcher)
    BY MachineAssumption DEF Matched, Matching, Event, New, Plain
  <1>2. Identity \notin Matched(e) /\ Matched(e) \in SUBSET Element
    BY <1>1, MachineAssumption DEF Element
  <1>3. CASE Matched(e) = {}
    BY <1>2, <1>3, SpecialWeights DEF WeightOf
  <1>4. CASE Matched(e) # {}
    BY <1>2, <1>4, FunctionIsWeight DEF WeightOf
  <1>5. QED BY <1>2, <1>3, <1>4

LEMMA SeedTyped ==
    LET f == New(startState, startState)
    IN Function({f}) \in TransitionFunction /\ Transitions(Function({f})) = {f} /\ f # Identity
  <1> DEFINE f == New(startState, startState)
  <1>1. f \in Plain
    BY MachineAssumption DEF New, Plain
  <1>2. f \in Element /\ f # Identity
    BY <1>1, MachineAssumption DEF Element
  <1>3. QED
    BY <1>2, FunctionIsWeight

(***************************************************************************)
(* Where sets of transitions lead.                                         *)
(***************************************************************************)
LEMMA ImageTyped ==
    ASSUME NEW A \in SUBSET Element, NEW s \in TypeState
    PROVE  Image(A, s) \in SUBSET TypeState
  BY ElementCases DEF Image

LEMMA ImageOfUnion ==
    ASSUME NEW A, NEW B, NEW s
    PROVE  Image(A \cup B, s) = Image(A, s) \cup Image(B, s)
  BY DEF Image

LEMMA ImageOfOne ==
    ASSUME NEW s
    PROVE  Image({Identity}, s) = {s}
  BY DEF Image

LEMMA ImageOfProduct ==
    ASSUME NEW A \in SUBSET Element, NEW B \in SUBSET Element,
           NEW s \in TypeState
    PROVE  Image(Product(A, B), s) = UNION {Image(B, x) : x \in Image(A, s)}
  <1>1. ASSUME NEW y \in Image(Product(A, B), s)
        PROVE  \E x \in Image(A, s) : y \in Image(B, x)
    <2>1. PICK t \in Product(A, B) :
             \/ t = Identity /\ y = s
             \/ t # Identity /\ t.from = s /\ y = t.to
      BY <1>1 DEF Image
    <2>2. PICK f \in A, g \in B : t \in Compose(f, g)
      BY <2>1, ProductWitness
    <2>3. CASE g = Identity
      <3>1. t = f BY <2>2, <2>3 DEF Compose
      <3>2. y \in Image(A, s) BY <2>1, <2>2, <3>1 DEF Image
      <3>3. y \in Image(B, y) BY <2>2, <2>3 DEF Image
      <3>4. QED BY <3>2, <3>3
    <2>4. CASE g # Identity /\ f = Identity
      <3>1. t = g BY <2>2, <2>4 DEF Compose
      <3>2. s \in Image(A, s) BY <2>2, <2>4 DEF Image
      <3>3. y \in Image(B, s) BY <2>1, <2>2, <2>4, <3>1 DEF Image
      <3>4. QED BY <3>2, <3>3
    <2>5. CASE g # Identity /\ f # Identity
      <3>1. f.to = g.from /\ t = New(f.from, g.to)
        BY <2>2, <2>5 DEF Compose
      <3>2. t # Identity
        BY <2>2, <2>5, ComposeTyped
      <3>3. f.from = s /\ y = g.to
        BY <2>1, <3>1, <3>2 DEF New
      <3>4. f.to \in Image(A, s) BY <2>2, <2>5, <3>3 DEF Image
      <3>5. y \in Image(B, f.to) BY <2>2, <2>5, <3>1, <3>3 DEF Image
      <3>6. QED BY <3>4, <3>5
    <2>6. QED BY <2>3, <2>4, <2>5
  <1>2. ASSUME NEW x \in Image(A, s), NEW y \in Image(B, x)
        PROVE  y \in Image(Product(A, B), s)
    <2>1. PICK f \in A : (f = Identity /\ x = s)
                          \/ (f # Identity /\ f.from = s /\ x = f.to)
      BY <1>2 DEF Image
    <2>2. PICK g \in B : (g = Identity /\ y = x)
                          \/ (g # Identity /\ g.from = x /\ y = g.to)
      BY <1>2 DEF Image
    <2>3. CASE g = Identity
      <3>1. f \in Product(A, B)
        BY <2>3, f \in Compose(f, g), ProductMember DEF Compose
      <3>2. QED BY <2>1, <2>2, <2>3, <3>1 DEF Image
    <2>4. CASE g # Identity /\ f = Identity
      <3>1. g \in Product(A, B)
        BY <2>4, g \in Compose(f, g), ProductMember DEF Compose
      <3>2. QED BY <2>1, <2>2, <2>4, <3>1 DEF Image
    <2>5. CASE g # Identity /\ f # Identity
      <3> DEFINE t == New(s, y)
      <3>1. t \in Compose(f, g)
        BY <2>1, <2>2, <2>5 DEF Compose
      <3>2. t \in Product(A, B) /\ t # Identity
        BY <2>5, <3>1, ProductMember, ComposeTyped
      <3>3. t.from = s /\ t.to = y
        BY DEF New
      <3>4. QED BY <3>2, <3>3 DEF Image
    <2>6. QED BY <2>3, <2>4, <2>5
  <1>3. QED BY <1>1, <1>2

LEMMA ImageOfMatched ==
    ASSUME NEW e \in Event, NEW s \in TypeState
    PROVE  Image(Transitions(WeightOf(e)), s) = After(Matched(e), s)
  <1>1. CASE Matched(e) = {}
    BY <1>1, WeightOfTyped, ImageOfOne DEF After
  <1>2. CASE Matched(e) # {}
    BY <1>2, WeightOfTyped DEF After, Image
  <1>3. QED BY <1>1, <1>2

(***************************************************************************)
(* Results.                                                                *)
(***************************************************************************)
\* Weights with the same transitions are equal objects: an automaton sees that a
\* weight has not changed.  (TransitionFunction.equals)
THEOREM EqualWhenSame ==
    \A v, w \in TransitionFunction : Transitions(v) = Transitions(w) => v = w
  BY TransitionsInjective

\* A weight leads an object to the typestates that the rules it was made from do,
\* extended to ways and combined over them, whatever the state machine: nothing
\* is lost or added by ONE, ZERO or the identity among other transitions.
THEOREM StatesExact ==
    \A s \in TypeState :
      /\ Image(Transitions(initialTransition), s) = {s} \cap {startState}
      /\ \A e \in Event : Image(Transitions(WeightOf(e)), s) = After(Matched(e), s)
      /\ \A v, w \in TransitionFunction :
            /\ Image(Transitions(ExtendWith(v, w)), s) =
                 UNION {Image(Transitions(w), x) : x \in Image(Transitions(v), s)}
            /\ Image(Transitions(CombineWith(v, w)), s) =
                 Image(Transitions(v), s) \cup Image(Transitions(w), s)
  <1> SUFFICES ASSUME NEW s \in TypeState
               PROVE  /\ Image(Transitions(initialTransition), s) = {s} \cap {startState}
                      /\ \A e \in Event :
                            Image(Transitions(WeightOf(e)), s) = After(Matched(e), s)
                      /\ \A v, w \in TransitionFunction :
                            /\ Image(Transitions(ExtendWith(v, w)), s) =
                                 UNION {Image(Transitions(w), x) : x \in Image(Transitions(v), s)}
                            /\ Image(Transitions(CombineWith(v, w)), s) =
                                 Image(Transitions(v), s) \cup Image(Transitions(w), s)
    OBVIOUS
  <1>1. Image(Transitions(initialTransition), s) = {s} \cap {startState}
    <2> DEFINE t == New(startState, startState)
    <2>1. t.from = startState /\ t.to = startState
      BY DEF New
    <2>2. Transitions(initialTransition) = {t} /\ t # Identity
      BY SeedTyped DEF initialTransition
    <2>3. QED BY <2>1, <2>2 DEF Image
  <1>2. \A e \in Event : Image(Transitions(WeightOf(e)), s) = After(Matched(e), s)
    BY ImageOfMatched
  <1>3. ASSUME NEW v \in TransitionFunction, NEW w \in TransitionFunction
        PROVE  /\ Image(Transitions(ExtendWith(v, w)), s) =
                    UNION {Image(Transitions(w), x) : x \in Image(Transitions(v), s)}
               /\ Image(Transitions(CombineWith(v, w)), s) =
                    Image(Transitions(v), s) \cup Image(Transitions(w), s)
    <2>1. Transitions(v) \in SUBSET Element /\ Transitions(w) \in SUBSET Element
      BY TransitionsTyped
    <2>2. QED BY <2>1, ExtendIsProduct, CombineIsUnion, ImageOfProduct, ImageOfUnion
  <1>4. QED BY <1>1, <1>2, <1>3

(***************************************************************************)
(* Final weights: the laws of weights.                                     *)
(***************************************************************************)
Below(v, w) == Combine(v, w) = w

CombineLaws ==
    \A u, v, w \in Weight :
       /\ Combine(u, u) = u
       /\ Combine(u, v) = Combine(v, u)
       /\ Combine(Combine(u, v), w) = Combine(u, Combine(v, w))

ExtendLaws ==
    \A u, v, x, y \in Weight : Below(u, v) /\ Below(x, y) => Below(Extend(u, x), Extend(v, y))

LEMMA WeightTypes ==
    /\ One \in Weight
    /\ \A v, w \in Weight : Extend(v, w) \in Weight /\ Combine(v, w) \in Weight
BY FinalWeightsAssumption

LEMMA BelowLaws ==
    ASSUME CombineLaws
    PROVE  /\ \A u \in Weight : Below(u, u)
           /\ \A u, v \in Weight : Below(u, v) /\ Below(v, u) => u = v
           /\ \A u, v, w \in Weight : Below(u, v) /\ Below(v, w) => Below(u, w)
           /\ \A u, v \in Weight : Below(u, Combine(u, v)) /\ Below(v, Combine(u, v))
           /\ \A u, v, w \in Weight : Below(u, w) /\ Below(v, w) => Below(Combine(u, v), w)
<1>1. \A u \in Weight : Below(u, u)
  BY DEF CombineLaws, Below
<1>2. ASSUME NEW u \in Weight, NEW v \in Weight, Below(u, v), Below(v, u) PROVE u = v
  BY <1>2 DEF CombineLaws, Below
<1>3. ASSUME NEW u \in Weight, NEW v \in Weight, NEW w \in Weight, Below(u, v), Below(v, w)
      PROVE  Below(u, w)
  <2>1. Combine(u, w) = Combine(u, Combine(v, w))
    BY <1>3 DEF Below
  <2>2. Combine(u, Combine(v, w)) = Combine(Combine(u, v), w)
    BY DEF CombineLaws
  <2>3. Combine(Combine(u, v), w) = Combine(v, w) /\ Combine(v, w) = w
    BY <1>3 DEF Below
  <2> QED BY <2>1, <2>2, <2>3 DEF Below
<1>4. ASSUME NEW u \in Weight, NEW v \in Weight
      PROVE  Below(u, Combine(u, v))
  <2>1. Combine(u, Combine(u, v)) = Combine(Combine(u, u), v)
    BY DEF CombineLaws
  <2>2. Combine(Combine(u, u), v) = Combine(u, v)
    BY DEF CombineLaws
  <2> QED BY <2>1, <2>2 DEF Below
<1>5. ASSUME NEW u \in Weight, NEW v \in Weight
      PROVE  Below(v, Combine(u, v))
  <2>1. Combine(u, v) = Combine(v, u)
    BY DEF CombineLaws
  <2> QED BY <1>4, <2>1
<1>6. ASSUME NEW u \in Weight, NEW v \in Weight, NEW w \in Weight, Below(u, w), Below(v, w)
      PROVE  Below(Combine(u, v), w)
  <2>1. Combine(Combine(u, v), w) = Combine(u, Combine(v, w))
    BY DEF CombineLaws
  <2>2. Combine(u, Combine(v, w)) = Combine(u, w) /\ Combine(u, w) = w
    BY <1>6 DEF Below
  <2> QED BY <2>1, <2>2 DEF Below
<1> QED BY <1>1, <1>2, <1>3, <1>4, <1>5, <1>6

(***************************************************************************)
(* Maps from transitions to weights.                                       *)
(***************************************************************************)
IsMap(f) == DOMAIN f \subseteq Transition /\ f \in [DOMAIN f -> Weight]

\* g has what f has, and no weight of it is less.
GrowsTo(f, g) == \A t \in DOMAIN f : t \in DOMAIN g /\ Below(f[t], g[t])

\* What onWeightAdded and onInTransitionAdded make of a map.
Improved(f, t, w) == Put(f, t, Combine(Get(f, t, w), w))

LEMMA ImprovedMap ==
    ASSUME NEW f, IsMap(f), NEW t \in Transition, NEW w \in Weight
    PROVE  /\ IsMap(Improved(f, t, w))
           /\ DOMAIN Improved(f, t, w) = DOMAIN f \cup {t}
           /\ \A u \in DOMAIN f : u # t => Improved(f, t, w)[u] = f[u]
           /\ t \in DOMAIN f => Improved(f, t, w)[t] = Combine(f[t], w)
           /\ t \notin DOMAIN f => Improved(f, t, w)[t] = Combine(w, w)
<1> DEFINE v == Combine(Get(f, t, w), w)
<1>1. Get(f, t, w) \in Weight
  BY DEF Get, IsMap
<1>2. v \in Weight
  BY <1>1, WeightTypes
<1>3. /\ t \in DOMAIN f => v = Combine(f[t], w)
      /\ t \notin DOMAIN f => v = Combine(w, w)
  BY DEF Get
<1>4. Improved(f, t, w) = [u \in DOMAIN f \cup {t} |-> IF u = t THEN v ELSE f[u]]
  BY DEF Improved, Put
<1> HIDE DEF v
<1>5. \A u \in DOMAIN f \cup {t} : (IF u = t THEN v ELSE f[u]) \in Weight
  BY <1>2 DEF IsMap
<1> QED BY <1>3, <1>4, <1>5 DEF IsMap

LEMMA ImprovedGrows ==
    ASSUME CombineLaws, NEW f, IsMap(f), NEW t \in Transition, NEW w \in Weight
    PROVE  /\ GrowsTo(f, Improved(f, t, w))
           /\ Below(w, Improved(f, t, w)[t])
<1> DEFINE g == Improved(f, t, w)
<1>1. /\ DOMAIN g = DOMAIN f \cup {t}
      /\ \A u \in DOMAIN f : u # t => g[u] = f[u]
      /\ t \in DOMAIN f => g[t] = Combine(f[t], w)
      /\ t \notin DOMAIN f => g[t] = Combine(w, w)
  BY ImprovedMap
<1> HIDE DEF g
<1>2. \A u \in DOMAIN f : f[u] \in Weight
  BY DEF IsMap
<1>3. Below(w, g[t])
  BY <1>1, <1>2, BelowLaws
<1>4. GrowsTo(f, g)
  BY <1>1, <1>2, BelowLaws DEF GrowsTo
<1> QED BY <1>3, <1>4 DEF g

LEMMA GrowsLaws ==
    ASSUME CombineLaws, NEW f, IsMap(f)
    PROVE  GrowsTo(f, f)
BY BelowLaws DEF GrowsTo, IsMap

(***************************************************************************)
(* Types, and what the pending calls know.                                 *)
(***************************************************************************)
AddCall(t, w) == [op |-> "add", t |-> t, w |-> w]
NotifyCall(t, w) == [op |-> "notify", t |-> t, w |-> w]
RegisterCall(l) == [op |-> "register", l |-> l]
ReplayCall(l, t) == [op |-> "replay", l |-> l, t |-> t]
userCall == [op |-> "user"]

\* No step of the automaton's own: there is no such call.
noCall == [op |-> "none"]

Call ==
    {userCall}
      \cup {AddCall(t, w) : t \in Transition, w \in Weight}
      \cup {NotifyCall(t, w) : t \in Transition, w \in Weight}
      \cup {RegisterCall(l) : l \in ValueComputationListener}
      \cup {ReplayCall(l, t) : l \in ValueComputationListener, t \in Transition}
      \cup {Hear(l, t, w) : l \in ValueComputationListener, t \in Transition, w \in Weight}

ListenerAt(q, w) == [state |-> q, weight |-> w]
firstListener == ListenerAt(initialState, One)

TypeOK ==
    /\ seeded \subseteq Seeds
    /\ IsMap(weight) /\ IsMap(final)
    /\ listeners \subseteq ValueComputationListener
    /\ agenda \in Seq(SUBSET Call)

\* A replay comes to a transition into the state listened at, and so do
\* notifications; listeners come after the one of the initial state.
Known(c) ==
    /\ c.op \in {"replay", "in"} => c.l \in listeners /\ c.t.target = c.l.state
    /\ c.op = "replay" => c.t \in DOMAIN weight
    /\ c.op = "register" => c.l = firstListener \/ listeners # {}

FinalInv ==
    /\ TypeOK
    /\ \A c : Pending(c) => Known(c)
    /\ listeners # {} => firstListener \in listeners

LEMMA CallFields ==
    ASSUME NEW c \in Call
    PROVE  /\ c.op \in {"user", "add", "notify", "register", "replay", "in"}
           /\ c.op \in {"add", "notify", "in"} => c.t \in Transition /\ c.w \in Weight
           /\ c.op \in {"register", "replay", "in"} => c.l \in ValueComputationListener
           /\ c.op = "replay" => c.t \in Transition
           /\ c.op = "add" => c = AddCall(c.t, c.w)
           /\ c.op = "notify" => c = NotifyCall(c.t, c.w)
           /\ c.op = "register" => c = RegisterCall(c.l)
           /\ c.op = "replay" => c = ReplayCall(c.l, c.t)
           /\ c.op = "in" => c = Hear(c.l, c.t, c.w)
BY DEF Call, userCall, AddCall, NotifyCall, RegisterCall, ReplayCall, Hear

LEMMA CallTypes ==
    /\ userCall \in Call
    /\ \A t \in Transition, w \in Weight : AddCall(t, w) \in Call /\ NotifyCall(t, w) \in Call
    /\ \A l \in ValueComputationListener :
         /\ RegisterCall(l) \in Call
         /\ \A t \in Transition : ReplayCall(l, t) \in Call
         /\ \A t \in Transition, w \in Weight : Hear(l, t, w) \in Call
BY DEF Call

LEMMA CallOps ==
    /\ userCall.op = "user" /\ noCall.op = "none"
    /\ \A t, w : /\ AddCall(t, w).op = "add" /\ AddCall(t, w).t = t /\ AddCall(t, w).w = w
                 /\ NotifyCall(t, w).op = "notify" /\ NotifyCall(t, w).t = t
                 /\ NotifyCall(t, w).w = w
    /\ \A l : RegisterCall(l).op = "register" /\ RegisterCall(l).l = l
    /\ \A l, t : /\ ReplayCall(l, t).op = "replay" /\ ReplayCall(l, t).l = l
                 /\ ReplayCall(l, t).t = t
    /\ \A l, t, w : /\ Hear(l, t, w).op = "in" /\ Hear(l, t, w).l = l
                    /\ Hear(l, t, w).t = t /\ Hear(l, t, w).w = w
BY DEF userCall, noCall, AddCall, NotifyCall, RegisterCall, ReplayCall, Hear

LEMMA ListenerTypes ==
    /\ firstListener \in ValueComputationListener
    /\ \A t \in Transition, w \in Weight :
         ListenerAt(t.start, w) \in ValueComputationListener
    /\ \A q, w : ListenerAt(q, w).state = q /\ ListenerAt(q, w).weight = w
    /\ \A l \in ValueComputationListener : l.weight \in Weight
BY FinalWeightsAssumption DEF firstListener, ListenerAt, ValueComputationListener

LEMMA InnermostCall ==
    ASSUME FinalInv, NEW c \in Innermost
    PROVE  agenda \in Seq(SUBSET Call) /\ c \in Call /\ Pending(c)
<1>1. agenda \in Seq(SUBSET Call)
  BY DEF FinalInv, TypeOK
<1>2. c \in Call /\ 1 \in DOMAIN agenda /\ c \in agenda[1]
  BY <1>1 DEF Innermost
<1> QED BY <1>1, <1>2 DEF Pending

(***************************************************************************)
(* What a step does that makes the call c and puts the calls `made' on the *)
(* stack.                                                                  *)
(***************************************************************************)
Keeps(c, made) ==
    /\ TypeOK' /\ Moves(c, made)
    /\ listeners \subseteq listeners' /\ DOMAIN weight \subseteq DOMAIN weight'
    /\ listeners' # {} => firstListener \in listeners'
    /\ \A d \in made : Known(d)'

LEMMA KeptInv ==
    ASSUME FinalInv, NEW c, NEW made, Keeps(c, made)
    PROVE  FinalInv'
<1>1. ASSUME NEW d, Pending(d)' PROVE Known(d)'
  <2>1. CASE d \in made
    BY <2>1 DEF Keeps
  <2>2. CASE Pending(d)
    BY <2>2 DEF FinalInv, Known, Keeps
  <2>3. Pending(d) \/ d \in made
    BY <1>1, PendingMoves DEF Keeps
  <2> QED BY <2>1, <2>2, <2>3
<1> QED BY <1>1 DEF FinalInv, Keeps

LEMMA StackTypes ==
    ASSUME agenda \in Seq(SUBSET Call), NEW c \in Innermost,
           NEW A \in SUBSET Call, NEW B \in SUBSET Call, NEW d \in Call
    PROVE  /\ Return(c, <<>>) \/ Return(c, <<A>>) \/ Return(c, <<A, B>>)
                => agenda' \in Seq(SUBSET Call)
           /\ Resume(c, <<>>, d) => agenda' \in Seq(SUBSET Call)
<1>1. <<>> \in Seq(SUBSET Call) /\ <<A>> \in Seq(SUBSET Call) /\ <<A, B>> \in Seq(SUBSET Call)
  BY LoopTypes
<1>2. Return(c, <<>>) \/ Return(c, <<A>>) \/ Return(c, <<A, B>>) => agenda' \in Seq(SUBSET Call)
  BY <1>1, ReturnStack
<1> DEFINE S == SUBSET Call
           loop == (Head(agenda) \ {c}) \cup {d}
<1>3. ASSUME Resume(c, <<>>, d) PROVE agenda' \in Seq(SUBSET Call)
  <2>1. agenda \in Seq(S) /\ agenda # <<>> /\ loop \in S /\ <<>> \in Seq(S)
    BY DEF Innermost
  <2>2. agenda' = <<>> \o <<loop>> \o Tail(agenda)
    BY <1>3 DEF Resume
  <2> HIDE DEF S, loop
  <2>3. agenda' \in Seq(S)
    BY <2>1, <2>2, PushLoops
  <2> QED BY <2>3 DEF S
<1> QED BY <1>2, <1>3

LEMMA PushTypes ==
    ASSUME agenda \in Seq(SUBSET Call), NEW A \in SUBSET Call, agenda' = <<A>> \o agenda
    PROVE  agenda' \in Seq(SUBSET Call)
<1> DEFINE S == SUBSET Call
<1>1. agenda \in Seq(S) /\ <<A>> \in Seq(S)
  OBVIOUS
<1> HIDE DEF S
<1>2. agenda' \in Seq(S)
  BY <1>1, ConcatProperties
<1> QED BY <1>2 DEF S

(***************************************************************************)
(* Nothing is lost: what is there is in the map, or a call that puts it    *)
(* there is on the stack, with the weight that is current.                 *)
(***************************************************************************)
Done(d) ==
    /\ d.op = "add" => d.t \in DOMAIN weight /\ Below(d.w, weight[d.t])
    /\ d.op = "in" => d.t \in DOMAIN final /\ Below(Extend(d.l.weight, d.w), final[d.t])
    /\ d.op = "register" => d.l \in listeners

Asked(d) == Done(d) \/ Pending(d)

SeedsHeeded == \A f \in seeded : Asked(AddCall(f.t, f.w))

OnItsWay(l, t) ==
    \/ Asked(Hear(l, t, weight[t]))
    \/ Pending(NotifyCall(t, weight[t]))
    \/ Pending(ReplayCall(l, t))

ListenersHeeded ==
    \A l \in listeners : \A t \in DOMAIN weight : t.target = l.state => OnItsWay(l, t)

FinalsHeeded ==
    \A t \in DOMAIN final :
      t.start \in Generated => Asked(RegisterCall(ListenerAt(t.start, final[t])))

Heeded == SeedsHeeded /\ ListenersHeeded /\ FinalsHeeded

Grows ==
    /\ seeded \subseteq seeded' /\ listeners \subseteq listeners'
    /\ GrowsTo(weight, weight') /\ GrowsTo(final, final')

\* The call c does what it is for, or makes the calls that do.
Heeds(c, made) ==
    /\ Grows
    /\ c.op \in {"add", "in", "register"} => Done(c)'
    /\ c.op = "notify" =>
         \A l \in listeners' : l.state = c.t.target => Hear(l, c.t, c.w) \in made
    /\ c.op = "replay" => Hear(c.l, c.t, weight[c.t]) \in made
    /\ \A f \in seeded' : f \in seeded \/ AddCall(f.t, f.w) \in made
    /\ \A t \in DOMAIN weight' :
         \/ t \in DOMAIN weight /\ weight'[t] = weight[t]
         \/ NotifyCall(t, weight'[t]) \in made
    /\ \A l \in listeners' :
         \/ l \in listeners
         \/ \A t \in DOMAIN weight' : t.target = l.state => ReplayCall(l, t) \in made
    /\ \A t \in DOMAIN final' :
         \/ t \in DOMAIN final /\ final'[t] = final[t]
         \/ t.start \notin Generated
         \/ RegisterCall(ListenerAt(t.start, final'[t])) \in made

LEMMA DoneKept ==
    ASSUME CombineLaws, TypeOK, TypeOK', Grows, NEW d \in Call, Done(d)
    PROVE  Done(d)'
<1>1. ASSUME d.op = "add" PROVE d.t \in DOMAIN weight' /\ Below(d.w, weight'[d.t])
  <2>1. d.t \in DOMAIN weight /\ Below(d.w, weight[d.t]) /\ d.w \in Weight
    BY <1>1, CallFields DEF Done
  <2>2. d.t \in DOMAIN weight' /\ Below(weight[d.t], weight'[d.t])
    BY <2>1 DEF Grows, GrowsTo
  <2>3. weight[d.t] \in Weight /\ weight'[d.t] \in Weight
    BY <2>1, <2>2 DEF TypeOK, IsMap
  <2> QED BY <2>1, <2>2, <2>3, BelowLaws
<1>2. ASSUME d.op = "in"
      PROVE  d.t \in DOMAIN final' /\ Below(Extend(d.l.weight, d.w), final'[d.t])
  <2>1. /\ d.t \in DOMAIN final /\ Below(Extend(d.l.weight, d.w), final[d.t])
        /\ d.w \in Weight /\ d.l.weight \in Weight
    BY <1>2, CallFields, ListenerTypes DEF Done
  <2>2. d.t \in DOMAIN final' /\ Below(final[d.t], final'[d.t])
    BY <2>1 DEF Grows, GrowsTo
  <2>3. final[d.t] \in Weight /\ final'[d.t] \in Weight
    BY <2>1, <2>2 DEF TypeOK, IsMap
  <2>4. Extend(d.l.weight, d.w) \in Weight
    BY <2>1, WeightTypes
  <2> QED BY <2>1, <2>2, <2>3, <2>4, BelowLaws
<1>3. d.op = "register" => d.l \in listeners'
  BY DEF Done, Grows
<1> QED BY <1>1, <1>2, <1>3 DEF Done

LEMMA AskedKept ==
    ASSUME CombineLaws, TypeOK, NEW c, NEW made, Keeps(c, made), Heeds(c, made),
           NEW d \in Call, d.op \in {"add", "in", "register"}, Asked(d)
    PROVE  Asked(d)'
<1>1. CASE Done(d)
  BY <1>1, DoneKept DEF Keeps, Heeds, Asked
<1>2. CASE Pending(d) /\ d # c
  BY <1>2, PendingMoves DEF Keeps, Asked
<1>3. CASE d = c
  BY <1>3 DEF Heeds, Asked
<1> QED BY <1>1, <1>2, <1>3 DEF Asked

LEMMA HeededAfter ==
    ASSUME CombineLaws, FinalInv, Heeded, NEW c, NEW made, Keeps(c, made), Heeds(c, made)
    PROVE  Heeded'
<1>0. TypeOK /\ TypeOK'
  BY DEF FinalInv, Keeps
<1>1. ASSUME NEW f \in seeded' PROVE Asked(AddCall(f.t, f.w))'
  <2>1. AddCall(f.t, f.w) \in Call /\ AddCall(f.t, f.w).op = "add"
    BY <1>0, FinalWeightsAssumption, CallTypes, CallOps DEF TypeOK
  <2>2. CASE f \in seeded
    <3>1. Asked(AddCall(f.t, f.w))
      BY <2>2 DEF Heeded, SeedsHeeded
    <3> QED BY <1>0, <2>1, <3>1, AskedKept
  <2>3. CASE AddCall(f.t, f.w) \in made
    BY <2>3, PendingMoves DEF Keeps, Asked
  <2> QED BY <2>2, <2>3 DEF Heeds
<1>2. ASSUME NEW l \in listeners', NEW t \in DOMAIN weight', t.target = l.state
      PROVE  OnItsWay(l, t)'
  <2> DEFINE w == weight[t]
  <2>1. l \in ValueComputationListener /\ t \in Transition
    BY <1>0 DEF TypeOK, IsMap
  <2>2. CASE NotifyCall(t, weight'[t]) \in made
    BY <2>2, PendingMoves DEF Keeps, OnItsWay
  <2>3. CASE ReplayCall(l, t) \in made
    BY <2>3, PendingMoves DEF Keeps, OnItsWay
  <2>4. CASE l \in listeners /\ t \in DOMAIN weight /\ weight'[t] = w
    <3>1. OnItsWay(l, t) /\ w \in Weight
      BY <1>0, <1>2, <2>4 DEF Heeded, ListenersHeeded, TypeOK, IsMap
    <3>2. Hear(l, t, w) \in Call /\ Hear(l, t, w).op = "in"
      BY <2>1, <3>1, CallTypes, CallOps
    <3>3. CASE Asked(Hear(l, t, w))
      <4>1. PICK d : d = Hear(l, t, w)
        OBVIOUS
      <4>2. Asked(d)'
        BY <1>0, <3>2, <3>3, <4>1, AskedKept
      <4>3. d = Hear(l, t, weight'[t])
        BY <2>4, <4>1
      <4>4. Asked(Hear(l, t, weight[t]))'
        BY <4>2, <4>3 DEF Asked, Done, Pending
      <4> QED BY <4>4 DEF OnItsWay
    <3>4. CASE Pending(NotifyCall(t, w))
      <4>1. CASE c = NotifyCall(t, w)
        <5>1. c.op = "notify" /\ c.t = t /\ c.w = w
          BY <4>1, CallOps
        <5>2. Hear(l, t, w) \in made
          BY <1>2, <5>1 DEF Heeds
        <5>3. Pending(Hear(l, t, weight[t]))'
          BY <2>4, <5>2, PendingMoves DEF Keeps, Pending
        <5> QED BY <5>3 DEF OnItsWay, Asked
      <4>2. CASE c # NotifyCall(t, w)
        <5>1. Pending(NotifyCall(t, weight[t]))'
          BY <2>4, <3>4, <4>2, PendingMoves DEF Keeps, Pending
        <5> QED BY <5>1 DEF OnItsWay
      <4> QED BY <4>1, <4>2
    <3>5. CASE Pending(ReplayCall(l, t))
      <4>1. CASE c = ReplayCall(l, t)
        <5>1. c.op = "replay" /\ c.l = l /\ c.t = t
          BY <4>1, CallOps
        <5>2. Hear(l, t, w) \in made
          BY <5>1 DEF Heeds
        <5>3. Pending(Hear(l, t, weight[t]))'
          BY <2>4, <5>2, PendingMoves DEF Keeps, Pending
        <5> QED BY <5>3 DEF OnItsWay, Asked
      <4>2. CASE c # ReplayCall(l, t)
        BY <3>5, <4>2, PendingMoves DEF Keeps, OnItsWay
      <4> QED BY <4>1, <4>2
    <3> QED BY <3>1, <3>3, <3>4, <3>5 DEF OnItsWay
  <2> QED BY <1>2, <2>2, <2>3, <2>4 DEF Heeds
<1>3. ASSUME NEW t \in DOMAIN final', t.start \in Generated
      PROVE  Asked(RegisterCall(ListenerAt(t.start, final[t])))'
  <2>1. CASE t \in DOMAIN final /\ final'[t] = final[t]
    <3>1. PICK d : d = RegisterCall(ListenerAt(t.start, final[t]))
      OBVIOUS
    <3>2. Asked(d)
      BY <1>3, <2>1, <3>1 DEF Heeded, FinalsHeeded
    <3>3. d \in Call /\ d.op = "register"
      BY <1>0, <2>1, <3>1, ListenerTypes, CallTypes, CallOps DEF TypeOK, IsMap
    <3>4. Asked(d)'
      BY <1>0, <3>2, <3>3, AskedKept
    <3>5. d = RegisterCall(ListenerAt(t.start, final'[t]))
      BY <2>1, <3>1
    <3> QED BY <3>4, <3>5 DEF Asked, Done, Pending
  <2>2. CASE RegisterCall(ListenerAt(t.start, final'[t])) \in made
    <3>1. Pending(RegisterCall(ListenerAt(t.start, final[t])))'
      BY <2>2, PendingMoves DEF Keeps, Pending
    <3> QED BY <3>1 DEF Asked
  <2> QED BY <1>3, <2>1, <2>2 DEF Heeds
<1> QED BY <1>1, <1>2, <1>3 DEF Heeded, SeedsHeeded, ListenersHeeded, FinalsHeeded

(***************************************************************************)
(* Nothing is invented: P and Q hold weights that transitions may have     *)
(* after the ways that lead to them, and by themselves.                    *)
(***************************************************************************)
Bounds(P, Q) ==
    /\ P \subseteq Transition \X Weight /\ Q \subseteq Transition \X Weight
    /\ \A f \in seeded : <<f.t, f.w>> \in Q
    /\ \A t \in Transition : \A v, w \in Weight :
         /\ <<t, v>> \in P /\ <<t, w>> \in P => <<t, Combine(v, w)>> \in P
         /\ <<t, v>> \in Q /\ <<t, w>> \in Q => <<t, Combine(v, w)>> \in Q
    /\ \A t \in Transition : \A w \in Weight :
         t.target = initialState /\ <<t, w>> \in Q => <<t, Extend(One, w)>> \in P
    /\ \A u, t \in Transition : \A v, w \in Weight :
         /\ u.start \in Generated /\ t.target = u.start
         /\ <<u, v>> \in P /\ <<t, w>> \in Q
         => <<t, Extend(v, w)>> \in P

\* The listener of the initial state, or one with the weight of a way.
Heir(P, l) ==
    \/ l = firstListener
    \/ \E u \in Transition :
         u.start \in Generated /\ u.start = l.state /\ <<u, l.weight>> \in P

Within(P, Q) ==
    /\ \A t \in DOMAIN weight : <<t, weight[t]>> \in Q
    /\ \A t \in DOMAIN final : <<t, final[t]>> \in P
    /\ \A l \in listeners : Heir(P, l)

Implied(P, Q, d) ==
    /\ d.op \in {"add", "notify", "in"} => <<d.t, d.w>> \in Q
    /\ d.op \in {"register", "replay", "in"} => Heir(P, d.l)

Followed ==
    \A P, Q : Bounds(P, Q) => Within(P, Q) /\ \A d : Pending(d) => Implied(P, Q, d)

Follows(made) ==
    \A P, Q : /\ Bounds(P, Q) /\ Bounds(P, Q)' /\ Within(P, Q)
              /\ \A d : Pending(d) => Implied(P, Q, d)
              => Within(P, Q)' /\ \A d \in made : Implied(P, Q, d)

LEMMA FollowedAfter ==
    ASSUME Followed, seeded \subseteq seeded', NEW c, NEW made, Moves(c, made), Follows(made)
    PROVE  Followed'
<1> SUFFICES ASSUME NEW P, NEW Q, Bounds(P, Q)'
             PROVE  Within(P, Q)' /\ \A d : Pending(d)' => Implied(P, Q, d)
  BY DEF Followed, Implied, Heir
<1>1. Bounds(P, Q)
  BY DEF Bounds
<1>2. Within(P, Q) /\ \A d : Pending(d) => Implied(P, Q, d)
  BY <1>1 DEF Followed
<1>3. Within(P, Q)' /\ \A d \in made : Implied(P, Q, d)
  BY <1>1, <1>2 DEF Follows
<1> QED BY <1>2, <1>3, PendingMoves

(***************************************************************************)
(* One action after the other.                                             *)
(***************************************************************************)
Effect(c) == \E made : Keeps(c, made) /\ Heeds(c, made) /\ Follows(made)

\* A step that makes calls only.
LEMMA CallsEffect ==
    ASSUME CombineLaws, FinalInv, NEW c, NEW made, Moves(c, made), UNCHANGED data,
           agenda' \in Seq(SUBSET Call), \A d \in made : Known(d),
           c.op \notin {"add", "in", "register"},
           c.op = "notify" =>
             \A l \in listeners : l.state = c.t.target => Hear(l, c.t, c.w) \in made,
           c.op = "replay" => Hear(c.l, c.t, weight[c.t]) \in made,
           \A P, Q : /\ Bounds(P, Q) /\ Within(P, Q)
                     /\ \A d : Pending(d) => Implied(P, Q, d)
                     => \A d \in made : Implied(P, Q, d)
    PROVE  Effect(c)
<1>1. UNCHANGED <<seeded, weight, listeners, final>>
  BY DEF data
<1>2. Keeps(c, made)
  BY <1>1 DEF Keeps, Known, FinalInv, TypeOK, IsMap
<1>3. Grows
  BY <1>1, GrowsLaws DEF Grows, FinalInv, TypeOK
<1>4. Heeds(c, made)
  BY <1>1, <1>3 DEF Heeds
<1>5. Follows(made)
  BY <1>1 DEF Follows, Within, Heir
<1> QED BY <1>2, <1>4, <1>5 DEF Effect

LEMMA RestEffect ==
    ASSUME CombineLaws, FinalInv, EndLoop \/ UNCHANGED vars
    PROVE  Effect(noCall)
<1>1. agenda \in Seq(SUBSET Call)
  BY DEF FinalInv, TypeOK
<1>2. Moves(noCall, {}) /\ agenda' \in Seq(SUBSET Call) /\ UNCHANGED data
  <2>1. CASE EndLoop
    BY <1>1, <2>1, EndMoves, EndedStack DEF EndLoop
  <2>2. CASE UNCHANGED vars
    BY <1>1, <2>2 DEF vars, Moves, Waiting
  <2> QED BY <2>1, <2>2
<1>3. noCall.op = "none"
  BY CallOps
<1> QED BY <1>2, <1>3, CallsEffect

LEMMA UserReturnEffect ==
    ASSUME CombineLaws, FinalInv, NEW c \in Innermost, UserReturn(c)
    PROVE  Effect(c)
<1>1. agenda \in Seq(SUBSET Call) /\ c \in Call
  BY InnermostCall
<1>2. c.op = "user" /\ Return(c, <<>>) /\ UNCHANGED data
  BY DEF UserReturn
<1>3. Moves(c, {})
  BY <1>1, <1>2, ReturnMoves
<1>4. agenda' \in Seq(SUBSET Call)
  BY <1>1, <1>2, StackTypes
<1> QED BY <1>2, <1>3, <1>4, CallsEffect

LEMMA GetTransitionsEffect ==
    ASSUME CombineLaws, FinalInv, GetTransitionsToFinalWeights
    PROVE  Effect(noCall)
<1> DEFINE made == {RegisterCall(firstListener)}
<1>1. agenda \in Seq(SUBSET Call) /\ RegisterCall(firstListener) \in Call
  BY ListenerTypes, CallTypes DEF FinalInv, TypeOK
<1>2. agenda' = <<made>> \o agenda /\ UNCHANGED data
  BY DEF GetTransitionsToFinalWeights, RegisterCall, firstListener, ListenerAt
<1>3. Moves(noCall, made)
  BY <1>1, <1>2, PushMoves
<1>4. agenda' \in Seq(SUBSET Call)
  BY <1>1, <1>2, PushTypes
<1>5. \A d \in made : Known(d) /\ \A P, Q : Implied(P, Q, d)
  BY CallOps DEF Known, Implied, Heir
<1>6. noCall.op = "none"
  BY CallOps
<1> HIDE DEF made
<1> QED BY <1>2, <1>3, <1>4, <1>5, <1>6, CallsEffect

LEMMA NotifyEffect ==
    ASSUME CombineLaws, FinalInv, NEW c \in Innermost, NotifyListeners(c)
    PROVE  Effect(c)
<1> DEFINE made == {Hear(l, c.t, c.w) : l \in {k \in listeners : k.state = c.t.target}}
                     \cup {userCall}
<1>1. agenda \in Seq(SUBSET Call) /\ c \in Call /\ Pending(c)
  BY InnermostCall
<1>2. c.op = "notify" /\ Return(c, <<made>>) /\ UNCHANGED data
  BY DEF NotifyListeners, userCall
<1>3. c.t \in Transition /\ c.w \in Weight /\ listeners \subseteq ValueComputationListener
  BY <1>1, <1>2, CallFields DEF FinalInv, TypeOK
<1>4. made \in SUBSET Call
  BY <1>3, CallTypes
<1>5. \A l \in listeners : l.state = c.t.target => Hear(l, c.t, c.w) \in made
  OBVIOUS
<1>6. \A d \in made : d = userCall \/ \E l \in listeners :
                        l.state = c.t.target /\ d = Hear(l, c.t, c.w)
  OBVIOUS
<1> HIDE DEF made
<1>7. Moves(c, made)
  BY <1>1, <1>2, ReturnMoves
<1>8. agenda' \in Seq(SUBSET Call)
  BY <1>1, <1>2, <1>4, StackTypes
<1>9. \A d \in made : Known(d)
  BY <1>6, CallOps DEF Known
<1>10. ASSUME NEW P, NEW Q, Within(P, Q), \A d : Pending(d) => Implied(P, Q, d), NEW d \in made
       PROVE  Implied(P, Q, d)
  <2>1. <<c.t, c.w>> \in Q
    BY <1>1, <1>2, <1>10 DEF Implied
  <2>2. \A l \in listeners : Heir(P, l)
    BY <1>10 DEF Within
  <2> QED BY <1>6, <2>1, <2>2, CallOps DEF Implied
<1> QED BY <1>2, <1>5, <1>7, <1>8, <1>9, <1>10, CallsEffect

LEMMA ReplayEffect ==
    ASSUME CombineLaws, FinalInv, NEW c \in Innermost, Replay(c)
    PROVE  Effect(c)
<1> DEFINE h == Hear(c.l, c.t, weight[c.t])
<1>1. agenda \in Seq(SUBSET Call) /\ c \in Call /\ Pending(c)
  BY InnermostCall
<1>2. c.op = "replay" /\ Resume(c, <<>>, h) /\ UNCHANGED data
  BY DEF Replay
<1>3. /\ c.l \in listeners /\ c.t.target = c.l.state /\ c.t \in DOMAIN weight
      /\ c.l \in ValueComputationListener /\ c.t \in Transition
  BY <1>1, <1>2, CallFields DEF FinalInv, Known
<1>4. weight[c.t] \in Weight
  BY <1>3 DEF FinalInv, TypeOK, IsMap
<1>5. h \in Call
  BY <1>3, <1>4, CallTypes
<1>6. h.op = "in" /\ h.l = c.l /\ h.t = c.t /\ h.w = weight[c.t]
  BY CallOps
<1> HIDE DEF h
<1>7. Moves(c, {h})
  BY <1>1, <1>2, ResumeMoves
<1>8. agenda' \in Seq(SUBSET Call)
  BY <1>1, <1>2, <1>5, StackTypes
<1>9. Known(h)
  BY <1>3, <1>6 DEF Known
<1>10. ASSUME NEW P, NEW Q, Within(P, Q), \A d : Pending(d) => Implied(P, Q, d)
       PROVE  Implied(P, Q, h)
  <2>1. <<c.t, weight[c.t]>> \in Q
    BY <1>3, <1>10 DEF Within
  <2>2. Heir(P, c.l)
    BY <1>1, <1>2, <1>10 DEF Implied
  <2> QED BY <1>6, <2>1, <2>2 DEF Implied
<1>11. h = Hear(c.l, c.t, weight[c.t])
  BY DEF h
<1> QED BY <1>2, <1>7, <1>8, <1>9, <1>10, <1>11, CallsEffect

LEMMA AddSeedEffect ==
    ASSUME CombineLaws, FinalInv, NEW f \in Seeds, AddSeed(f)
    PROVE  Effect(noCall)
<1> DEFINE d == AddCall(f.t, f.w)
<1>1. agenda \in Seq(SUBSET Call)
  BY DEF FinalInv, TypeOK
<1>2. /\ agenda' = <<{d}>> \o agenda /\ seeded' = seeded \cup {f}
      /\ UNCHANGED <<weight, listeners, final>>
  BY DEF AddSeed, AddCall
<1>3. d \in Call /\ d.op = "add" /\ d.t = f.t /\ d.w = f.w
  BY FinalWeightsAssumption, CallTypes, CallOps
<1>4. d = AddCall(f.t, f.w)
  OBVIOUS
<1> HIDE DEF d
<1>5. Moves(noCall, {d}) /\ agenda' \in Seq(SUBSET Call)
  BY <1>1, <1>2, <1>3, PushMoves, PushTypes
<1>6. Keeps(noCall, {d})
  BY <1>2, <1>3, <1>5 DEF Keeps, Known, FinalInv, TypeOK, IsMap
<1>7. Heeds(noCall, {d})
  <2>1. Grows
    BY <1>2, GrowsLaws DEF Grows, FinalInv, TypeOK
  <2> QED BY <1>2, <1>4, <2>1, CallOps DEF Heeds
<1>8. Follows({d})
  <2> SUFFICES ASSUME NEW P, NEW Q, Bounds(P, Q)', Within(P, Q)
               PROVE  Within(P, Q)' /\ Implied(P, Q, d)
    BY DEF Follows
  <2>1. <<f.t, f.w>> \in Q
    BY <1>2 DEF Bounds
  <2> QED BY <1>2, <1>3, <2>1 DEF Within, Implied, Heir
<1> QED BY <1>6, <1>7, <1>8 DEF Effect

LEMMA AddEffect ==
    ASSUME CombineLaws, FinalInv, NEW c \in Innermost, AddWeightForTransition(c)
    PROVE  Effect(c)
<1> DEFINE new == Improved(weight, c.t, c.w)
           n == NotifyCall(c.t, new[c.t])
           A == IF new = weight THEN {} ELSE {userCall}
           B == IF new = weight THEN {} ELSE {n}
           made == A \cup B
<1>1. agenda \in Seq(SUBSET Call) /\ c \in Call /\ Pending(c)
  BY InnermostCall
<1>2. /\ c.op = "add" /\ weight' = new
      /\ Return(c, IF new = weight THEN <<>> ELSE <<A, B>>)
      /\ UNCHANGED <<seeded, listeners, final>>
  BY DEF AddWeightForTransition, Improved, userCall, NotifyCall
<1>3. c.t \in Transition /\ c.w \in Weight /\ IsMap(weight)
  BY <1>1, <1>2, CallFields DEF FinalInv, TypeOK
<1>4. /\ IsMap(new) /\ DOMAIN new = DOMAIN weight \cup {c.t}
      /\ \A u \in DOMAIN weight : u # c.t => new[u] = weight[u]
      /\ c.t \in DOMAIN weight => new[c.t] = Combine(weight[c.t], c.w)
      /\ c.t \notin DOMAIN weight => new[c.t] = Combine(c.w, c.w)
  <2>1. new = Improved(weight, c.t, c.w)
    OBVIOUS
  <2> HIDE DEF new
  <2>2. PICK t, w, f : t \in Transition /\ w \in Weight /\ t = c.t /\ w = c.w /\ f = weight
    BY <1>3
  <2>3. IsMap(f) /\ new = Improved(f, t, w)
    BY <1>3, <2>1, <2>2
  <2>4. /\ IsMap(Improved(f, t, w))
        /\ DOMAIN Improved(f, t, w) = DOMAIN f \cup {t}
        /\ \A u \in DOMAIN f : u # t => Improved(f, t, w)[u] = f[u]
        /\ t \in DOMAIN f => Improved(f, t, w)[t] = Combine(f[t], w)
        /\ t \notin DOMAIN f => Improved(f, t, w)[t] = Combine(w, w)
    BY <2>2, <2>3, ImprovedMap
  <2> QED BY <2>2, <2>3, <2>4
<1>5. GrowsTo(weight, new) /\ Below(c.w, new[c.t])
  BY <1>3, ImprovedGrows
<1>6. n \in Call /\ n.op = "notify" /\ n.t = c.t /\ n.w = new[c.t]
  BY <1>3, <1>4, CallTypes, CallOps DEF IsMap
<1>7. /\ A \in SUBSET Call /\ B \in SUBSET Call /\ made \in SUBSET Call
      /\ \A d \in made : d = userCall \/ d = n
      /\ new = weight \/ n \in made
      /\ new = weight => made = {}
  BY <1>6, CallTypes
<1> HIDE DEF new, A, B, made
<1>8. Moves(c, made) /\ agenda' \in Seq(SUBSET Call)
  <2>1. CASE new = weight
    BY <1>1, <1>2, <1>7, <2>1, ReturnMoves, StackTypes
  <2>2. CASE new # weight
    BY <1>1, <1>2, <1>7, <2>2, ReturnMoves, StackTypes DEF made
  <2> QED BY <2>1, <2>2
<1>9. Keeps(c, made)
  <2>1. \A d \in made : d.op \in {"user", "notify"}
    BY <1>6, <1>7, CallOps
  <2> QED BY <1>2, <1>4, <1>8, <2>1 DEF Keeps, Known, FinalInv, TypeOK, IsMap
<1>10. Heeds(c, made)
  <2>1. Grows
    BY <1>2, <1>5, GrowsLaws DEF Grows, FinalInv, TypeOK
  <2>2. Done(c)'
    BY <1>2, <1>4, <1>5 DEF Done
  <2>3. \A t \in DOMAIN new :
          \/ t \in DOMAIN weight /\ new[t] = weight[t]
          \/ NotifyCall(t, new[t]) \in made
    BY <1>4, <1>7 DEF n
  <2> QED BY <1>2, <2>1, <2>2, <2>3 DEF Heeds
<1>11. Follows(made)
  <2> SUFFICES ASSUME NEW P, NEW Q, Bounds(P, Q), Within(P, Q),
                      \A d : Pending(d) => Implied(P, Q, d)
               PROVE  Within(P, Q)' /\ \A d \in made : Implied(P, Q, d)
    BY DEF Follows
  <2>1. <<c.t, c.w>> \in Q
    BY <1>1, <1>2 DEF Implied
  <2>2. <<c.t, new[c.t]>> \in Q
    <3>1. \A v, w \in Weight :
            <<c.t, v>> \in Q /\ <<c.t, w>> \in Q => <<c.t, Combine(v, w)>> \in Q
      BY <1>3 DEF Bounds
    <3>2. c.t \in DOMAIN weight => weight[c.t] \in Weight /\ <<c.t, weight[c.t]>> \in Q
      BY <1>3 DEF Within, IsMap
    <3> QED BY <1>3, <1>4, <2>1, <3>1, <3>2
  <2>3. \A t \in DOMAIN new : <<t, new[t]>> \in Q
    BY <1>4, <2>2 DEF Within
  <2>4. \A d \in made : Implied(P, Q, d)
    BY <1>6, <1>7, <2>2, CallOps DEF Implied
  <2> QED BY <1>2, <2>3, <2>4 DEF Within, Heir
<1> QED BY <1>9, <1>10, <1>11 DEF Effect

LEMMA RegisterEffect ==
    ASSUME CombineLaws, FinalInv, NEW c \in Innermost, RegisterListener(c)
    PROVE  Effect(c)
<1> DEFINE made == IF c.l \in listeners THEN {}
                   ELSE {ReplayCall(c.l, t) : t \in {u \in DOMAIN weight : u.target = c.l.state}}
<1>1. agenda \in Seq(SUBSET Call) /\ c \in Call /\ Pending(c)
  BY InnermostCall
<1>2. /\ c.op = "register" /\ listeners' = listeners \cup {c.l}
      /\ Return(c, IF c.l \in listeners THEN <<>> ELSE <<made>>)
      /\ UNCHANGED <<seeded, weight, final>>
  BY DEF RegisterListener, ReplayCall
<1>3. c.l \in ValueComputationListener /\ DOMAIN weight \subseteq Transition
  BY <1>1, <1>2, CallFields DEF FinalInv, TypeOK, IsMap
<1>4. made \in SUBSET Call
  BY <1>3, CallTypes
<1>5. /\ c.l \notin listeners =>
           \A t \in DOMAIN weight : t.target = c.l.state => ReplayCall(c.l, t) \in made
      /\ \A d \in made : \E t \in DOMAIN weight : t.target = c.l.state /\ d = ReplayCall(c.l, t)
      /\ c.l \in listeners => made = {}
  OBVIOUS
<1> HIDE DEF made
<1>6. Moves(c, made)
  BY <1>1, <1>2, <1>5, ReturnMoves
<1>7. agenda' \in Seq(SUBSET Call)
  BY <1>1, <1>2, <1>4, StackTypes
<1>8. c.l = firstListener \/ listeners # {}
  BY <1>1, <1>2 DEF FinalInv, Known
<1>9. Keeps(c, made)
  <2>1. \A d \in made : Known(d)'
    BY <1>2, <1>5, CallOps DEF Known
  <2>2. firstListener \in listeners'
    BY <1>2, <1>8 DEF FinalInv
  <2> QED BY <1>2, <1>3, <1>6, <1>7, <2>1, <2>2 DEF Keeps, FinalInv, TypeOK, IsMap
<1>10. Heeds(c, made)
  <2>1. Grows
    BY <1>2, GrowsLaws DEF Grows, FinalInv, TypeOK
  <2>2. Done(c)'
    BY <1>2 DEF Done
  <2> QED BY <1>2, <1>5, <2>1, <2>2 DEF Heeds
<1>11. Follows(made)
  <2> SUFFICES ASSUME NEW P, NEW Q, Within(P, Q), \A d : Pending(d) => Implied(P, Q, d)
               PROVE  Within(P, Q)' /\ \A d \in made : Implied(P, Q, d)
    BY DEF Follows
  <2>1. Heir(P, c.l)
    BY <1>1, <1>2 DEF Implied
  <2>2. \A d \in made : Implied(P, Q, d)
    <3> SUFFICES ASSUME NEW d \in made PROVE Implied(P, Q, d)
      OBVIOUS
    <3>1. PICK t \in DOMAIN weight : d = ReplayCall(c.l, t)
      BY <1>5
    <3>2. d.op = "replay" /\ d.l = c.l
      BY <3>1, CallOps
    <3> QED BY <2>1, <3>2 DEF Implied
  <2> QED BY <1>2, <2>1, <2>2 DEF Within, Heir
<1> QED BY <1>9, <1>10, <1>11 DEF Effect

LEMMA InEffect ==
    ASSUME CombineLaws, FinalInv, NEW c \in Innermost, OnInTransitionAdded(c)
    PROVE  Effect(c)
<1> DEFINE w == Extend(c.l.weight, c.w)
           new == Improved(final, c.t, w)
           r == RegisterCall(ListenerAt(c.t.start, new[c.t]))
           made == IF c.t.start \notin Generated THEN {} ELSE {r}
<1>1. agenda \in Seq(SUBSET Call) /\ c \in Call /\ Pending(c)
  BY InnermostCall
<1>2. /\ c.op = "in" /\ final' = new /\ Return(c, <<made>>)
      /\ UNCHANGED <<seeded, weight, listeners>>
  BY DEF OnInTransitionAdded, Improved, RegisterCall, ListenerAt
<1>3. /\ c.t \in Transition /\ c.w \in Weight /\ c.l \in ValueComputationListener
      /\ c.l.weight \in Weight /\ IsMap(final)
  BY <1>1, <1>2, CallFields, ListenerTypes DEF FinalInv, TypeOK
<1>4. w \in Weight
  BY <1>3, WeightTypes
<1>5. /\ c.l \in listeners /\ c.t.target = c.l.state
  BY <1>1, <1>2 DEF FinalInv, Known
<1>6. w = Extend(c.l.weight, c.w)
  OBVIOUS
<1> HIDE DEF w
<1>7. /\ IsMap(new) /\ DOMAIN new = DOMAIN final \cup {c.t}
      /\ \A u \in DOMAIN final : u # c.t => new[u] = final[u]
      /\ c.t \in DOMAIN final => new[c.t] = Combine(final[c.t], w)
      /\ c.t \notin DOMAIN final => new[c.t] = Combine(w, w)
  <2>1. new = Improved(final, c.t, w)
    OBVIOUS
  <2> HIDE DEF new
  <2>2. PICK t \in Transition : t = c.t
    BY <1>3
  <2>6. PICK f : f = final
    OBVIOUS
  <2>3. IsMap(f) /\ new = Improved(f, t, w)
    BY <1>3, <2>1, <2>2, <2>6
  <2>4. PICK x \in Weight : x = w
    BY <1>4
  <2>5. /\ IsMap(Improved(f, t, x))
        /\ DOMAIN Improved(f, t, x) = DOMAIN f \cup {t}
        /\ \A u \in DOMAIN f : u # t => Improved(f, t, x)[u] = f[u]
        /\ t \in DOMAIN f => Improved(f, t, x)[t] = Combine(f[t], x)
        /\ t \notin DOMAIN f => Improved(f, t, x)[t] = Combine(x, x)
    <3>1. IsMap(f) /\ t \in Transition /\ x \in Weight
      BY <2>2, <2>3, <2>4
    <3>2. IsMap(Improved(f, t, x)) /\ DOMAIN Improved(f, t, x) = DOMAIN f \cup {t}
      BY <3>1, ImprovedMap
    <3>3. \A u \in DOMAIN f : u # t => Improved(f, t, x)[u] = f[u]
      BY <3>1, ImprovedMap
    <3>4. t \in DOMAIN f => Improved(f, t, x)[t] = Combine(f[t], x)
      BY <3>1, ImprovedMap
    <3>5. ASSUME t \notin DOMAIN f
          PROVE  Improved(f, t, x)[t] = Combine(x, x)
      BY <3>1, <3>5 DEF Improved, Put, Get
    <3> QED BY <3>2, <3>3, <3>4, <3>5
  <2> QED BY <2>2, <2>3, <2>4, <2>5, <2>6
<1>8. GrowsTo(final, new) /\ Below(w, new[c.t])
  BY <1>3, <1>4, ImprovedGrows
<1> HIDE DEF new
<1>9. new[c.t] \in Weight
  BY <1>7 DEF IsMap
<1>10. /\ r \in Call /\ r.op = "register" /\ r.l = ListenerAt(c.t.start, new[c.t])
       /\ r.l.state = c.t.start /\ r.l.weight = new[c.t]
  BY <1>3, <1>9, ListenerTypes, CallTypes, CallOps
<1>11. /\ made \in SUBSET Call
       /\ \A d \in made : d = r /\ c.t.start \in Generated
       /\ c.t.start \in Generated => r \in made
  BY <1>10
<1> HIDE DEF made
<1>12. Moves(c, made) /\ agenda' \in Seq(SUBSET Call)
  BY <1>1, <1>2, <1>11, ReturnMoves, StackTypes
<1>13. Keeps(c, made)
  <2>1. \A d \in made : Known(d)'
    BY <1>2, <1>5, <1>10, <1>11 DEF Known
  <2> QED BY <1>2, <1>7, <1>12, <2>1 DEF Keeps, FinalInv, TypeOK, IsMap
<1>14. Heeds(c, made)
  <2>1. Grows
    BY <1>2, <1>8, GrowsLaws DEF Grows, FinalInv, TypeOK
  <2>2. Done(c)'
    BY <1>2, <1>6, <1>7, <1>8 DEF Done
  <2>3. \A t \in DOMAIN new :
          \/ t \in DOMAIN final /\ new[t] = final[t]
          \/ t.start \notin Generated
          \/ RegisterCall(ListenerAt(t.start, new[t])) \in made
    BY <1>7, <1>11 DEF r
  <2> QED BY <1>2, <2>1, <2>2, <2>3 DEF Heeds
<1>15. Follows(made)
  <2> SUFFICES ASSUME NEW P, NEW Q, Bounds(P, Q), Within(P, Q),
                      \A d : Pending(d) => Implied(P, Q, d)
               PROVE  Within(P, Q)' /\ \A d \in made : Implied(P, Q, d)
    BY DEF Follows
  <2>1. <<c.t, c.w>> \in Q /\ Heir(P, c.l)
    BY <1>1, <1>2 DEF Implied
  <2>2. <<c.t, w>> \in P
    <3>1. CASE c.l = firstListener
      <4>1. c.l.state = initialState /\ c.l.weight = One
        BY <3>1, ListenerTypes DEF firstListener
      <4>2. c.t.target = initialState
        BY <1>5, <4>1
      <4>3. <<c.t, Extend(One, c.w)>> \in P
        BY <1>3, <2>1, <4>2 DEF Bounds
      <4> QED BY <1>6, <4>1, <4>3
    <3>2. CASE c.l # firstListener
      <4>1. PICK u \in Transition :
               u.start \in Generated /\ u.start = c.l.state /\ <<u, c.l.weight>> \in P
        BY <2>1, <3>2 DEF Heir
      <4>2. c.t.target = u.start
        BY <1>5, <4>1
      <4>3. <<c.t, Extend(c.l.weight, c.w)>> \in P
        BY <1>3, <2>1, <4>1, <4>2 DEF Bounds
      <4> QED BY <1>6, <4>3
    <3> QED BY <3>1, <3>2
  <2>3. <<c.t, new[c.t]>> \in P
    <3>1. \A v, x \in Weight :
            <<c.t, v>> \in P /\ <<c.t, x>> \in P => <<c.t, Combine(v, x)>> \in P
      BY <1>3 DEF Bounds
    <3>2. c.t \in DOMAIN final => final[c.t] \in Weight /\ <<c.t, final[c.t]>> \in P
      BY <1>3 DEF Within, IsMap
    <3> QED BY <1>4, <1>7, <2>2, <3>1, <3>2
  <2>4. \A t \in DOMAIN new : <<t, new[t]>> \in P
    BY <1>7, <2>3 DEF Within
  <2>5. \A d \in made : Implied(P, Q, d)
    BY <1>3, <1>10, <1>11, <2>3 DEF Implied, Heir
  <2> QED BY <1>2, <2>4, <2>5 DEF Within, Heir
<1> QED BY <1>13, <1>14, <1>15 DEF Effect

LEMMA NextEffect ==
    ASSUME CombineLaws, FinalInv, [Next]_vars
    PROVE  \E c : Effect(c)
<1>1. ASSUME Step PROVE \E c : Effect(c)
  <2>1. ASSUME EndLoop PROVE Effect(noCall)
    BY <2>1, RestEffect
  <2>2. ASSUME NEW c \in Innermost,
               \/ UserReturn(c) \/ AddWeightForTransition(c) \/ NotifyListeners(c)
               \/ RegisterListener(c) \/ Replay(c) \/ OnInTransitionAdded(c)
        PROVE  Effect(c)
    BY <2>2, UserReturnEffect, AddEffect, NotifyEffect, RegisterEffect, ReplayEffect, InEffect
  <2> QED BY <1>1, <2>1, <2>2 DEF Step
<1>2. ASSUME NEW f \in Seeds, AddSeed(f) PROVE Effect(noCall)
  BY <1>2, AddSeedEffect
<1>3. ASSUME GetTransitionsToFinalWeights PROVE Effect(noCall)
  BY <1>3, GetTransitionsEffect
<1>4. ASSUME UNCHANGED vars PROVE Effect(noCall)
  BY <1>4, RestEffect
<1> QED BY <1>1, <1>2, <1>3, <1>4 DEF Next

LEMMA NextInv ==
    ASSUME CombineLaws, FinalInv, Heeded, Followed, [Next]_vars
    PROVE  FinalInv' /\ Heeded' /\ Followed'
<1>1. PICK c : Effect(c)
  BY NextEffect
<1>2. PICK made : Keeps(c, made) /\ Heeds(c, made) /\ Follows(made)
  BY <1>1 DEF Effect
<1>3. FinalInv' /\ Heeded'
  BY <1>2, KeptInv, HeededAfter
<1>4. Moves(c, made) /\ seeded \subseteq seeded'
  BY <1>2 DEF Keeps, Heeds, Grows
<1>5. Followed'
  BY <1>2, <1>4, FollowedAfter
<1> QED BY <1>3, <1>5

LEMMA InitInv == Init => FinalInv /\ Heeded /\ Followed
<1> SUFFICES ASSUME Init PROVE FinalInv /\ Heeded /\ Followed
  OBVIOUS
<1>1. /\ seeded = {} /\ weight = <<>> /\ listeners = {} /\ final = <<>> /\ agenda = <<>>
      /\ DOMAIN weight = {} /\ DOMAIN final = {}
  BY DEF Init
<1>2. \A d : ~Pending(d)
  BY <1>1 DEF Pending
<1>3. IsMap(<<>>)
  <2>1. <<>> = [i \in {} |-> One]
    OBVIOUS
  <2> QED BY <2>1 DEF IsMap
<1>4. FinalInv
  BY <1>1, <1>2, <1>3 DEF FinalInv, TypeOK
<1>5. Heeded
  BY <1>1 DEF Heeded, SeedsHeeded, ListenersHeeded, FinalsHeeded
<1>6. Followed
  BY <1>1, <1>2 DEF Followed, Within
<1> QED BY <1>4, <1>5, <1>6

LEMMA FinalInvariant ==
    ASSUME CombineLaws
    PROVE  Spec => [](FinalInv /\ Heeded /\ Followed)
<1>1. Init => FinalInv /\ Heeded /\ Followed
  BY InitInv
<1>2. FinalInv /\ Heeded /\ Followed /\ [Next]_vars => FinalInv' /\ Heeded' /\ Followed'
  BY NextInv
<1> QED BY <1>1, <1>2, PTL DEF Spec

(***************************************************************************)
(* The map when the outermost call has returned.                           *)
(***************************************************************************)
\* x has a weight for all that a way leads to, and not less than the way's.
IsSolution(x) ==
    /\ IsMap(x)
    /\ \A t \in Into(initialState) : t \in DOMAIN x /\ Below(Extend(One, weight[t]), x[t])
    /\ \A u \in DOMAIN x : u.start \in Generated =>
         \A t \in Into(u.start) : t \in DOMAIN x /\ Below(Extend(x[u], weight[t]), x[t])

IsLeastSolution(x) == IsSolution(x) /\ \A y : IsSolution(y) => GrowsTo(x, y)

SeedsKept == \A f \in seeded : f.t \in DOMAIN weight /\ Below(f.w, weight[f.t])

LEMMA AtRest ==
    ASSUME FinalInv, Heeded, Idle
    PROVE  SeedsKept /\ (listeners # {} => IsSolution(final))
<1>1. \A d : ~Pending(d)
  BY DEF Idle, Pending
<1>2. SeedsKept
  <2> SUFFICES ASSUME NEW f \in seeded
               PROVE  f.t \in DOMAIN weight /\ Below(f.w, weight[f.t])
    BY DEF SeedsKept
  <2>1. Done(AddCall(f.t, f.w))
    BY <1>1 DEF Heeded, SeedsHeeded, Asked
  <2> QED BY <2>1, CallOps DEF Done
<1>3. ASSUME NEW l \in listeners, NEW t \in Into(l.state)
      PROVE  t \in DOMAIN final /\ Below(Extend(l.weight, weight[t]), final[t])
  <2>1. t \in DOMAIN weight /\ t.target = l.state
    BY <1>3 DEF Into
  <2>2. Done(Hear(l, t, weight[t]))
    BY <1>1, <2>1 DEF Heeded, ListenersHeeded, OnItsWay, Asked
  <2>3. /\ Hear(l, t, weight[t]).op = "in" /\ Hear(l, t, weight[t]).l = l
        /\ Hear(l, t, weight[t]).t = t /\ Hear(l, t, weight[t]).w = weight[t]
    BY CallOps
  <2> QED BY <2>2, <2>3 DEF Done
<1>4. ASSUME listeners # {}, NEW t \in Into(initialState)
      PROVE  t \in DOMAIN final /\ Below(Extend(One, weight[t]), final[t])
  <2>1. firstListener \in listeners
    BY <1>4 DEF FinalInv
  <2>2. firstListener.state = initialState /\ firstListener.weight = One
    BY ListenerTypes DEF firstListener
  <2> QED BY <1>3, <1>4, <2>1, <2>2
<1>5. ASSUME NEW u \in DOMAIN final, u.start \in Generated, NEW t \in Into(u.start)
      PROVE  t \in DOMAIN final /\ Below(Extend(final[u], weight[t]), final[t])
  <2>1. PICK l : l = ListenerAt(u.start, final[u])
    OBVIOUS
  <2>2. Done(RegisterCall(l))
    BY <1>1, <1>5, <2>1 DEF Heeded, FinalsHeeded, Asked
  <2>3. l \in listeners
    BY <2>2, CallOps DEF Done
  <2>4. l.state = u.start /\ l.weight = final[u]
    BY <2>1, ListenerTypes DEF ListenerAt
  <2>5. t \in Into(l.state)
    BY <1>5, <2>4
  <2> QED BY <1>3, <2>3, <2>4, <2>5
<1>6. IsMap(final)
  BY DEF FinalInv, TypeOK
<1>7. listeners # {} => IsSolution(final)
  BY <1>4, <1>5, <1>6 DEF IsSolution
<1> QED BY <1>2, <1>7

\* The weights below those of a map.
Under(x) == {p \in Transition \X Weight : p[1] \in DOMAIN x /\ Below(p[2], x[p[1]])}

LEMMA InUnder ==
    ASSUME NEW x, NEW t, NEW w
    PROVE  <<t, w>> \in Under(x)
             <=> t \in Transition /\ w \in Weight /\ t \in DOMAIN x /\ Below(w, x[t])
BY DEF Under

LEMMA UnderCombined ==
    ASSUME CombineLaws, NEW x, IsMap(x), NEW t \in Transition, NEW v \in Weight, NEW w \in Weight,
           <<t, v>> \in Under(x), <<t, w>> \in Under(x)
    PROVE  <<t, Combine(v, w)>> \in Under(x)
<1>1. t \in DOMAIN x /\ Below(v, x[t]) /\ Below(w, x[t])
  BY InUnder
<1>2. x[t] \in Weight /\ Combine(v, w) \in Weight
  BY <1>1, WeightTypes DEF IsMap
<1>3. Below(Combine(v, w), x[t])
  BY <1>1, <1>2, BelowLaws
<1> QED BY <1>1, <1>2, <1>3, InUnder

LEMMA SolutionBounds ==
    ASSUME CombineLaws, ExtendLaws, TypeOK, SeedsKept, NEW x, IsSolution(x)
    PROVE  Bounds(Under(x), Under(weight))
<1>1. IsMap(x) /\ IsMap(weight)
  BY DEF IsSolution, TypeOK
<1>2. ASSUME NEW f \in seeded PROVE <<f.t, f.w>> \in Under(weight)
  <2>1. f.t \in Transition /\ f.w \in Weight
    BY FinalWeightsAssumption DEF TypeOK
  <2> QED BY <2>1, InUnder DEF SeedsKept
<1>3. ASSUME NEW t \in Transition, NEW v \in Weight, NEW w \in Weight
      PROVE  /\ <<t, v>> \in Under(x) /\ <<t, w>> \in Under(x) => <<t, Combine(v, w)>> \in Under(x)
             /\ <<t, v>> \in Under(weight) /\ <<t, w>> \in Under(weight)
                  => <<t, Combine(v, w)>> \in Under(weight)
  BY <1>1, UnderCombined
<1>4. ASSUME NEW t \in Transition, NEW w \in Weight,
             t.target = initialState, <<t, w>> \in Under(weight)
      PROVE  <<t, Extend(One, w)>> \in Under(x)
  <2>1. t \in DOMAIN weight /\ Below(w, weight[t])
    BY <1>4, InUnder
  <2>2. t \in DOMAIN x /\ Below(Extend(One, weight[t]), x[t])
    BY <1>4, <2>1 DEF IsSolution, Into
  <2>3. weight[t] \in Weight /\ x[t] \in Weight
    BY <1>1, <2>1, <2>2 DEF IsMap
  <2>4. Extend(One, w) \in Weight /\ Extend(One, weight[t]) \in Weight
    BY <2>3, WeightTypes
  <2>5. Below(Extend(One, w), Extend(One, weight[t]))
    BY <2>1, <2>3, WeightTypes, BelowLaws DEF ExtendLaws
  <2>6. Below(Extend(One, w), x[t])
    BY <2>2, <2>3, <2>4, <2>5, BelowLaws
  <2> QED BY <2>2, <2>4, <2>6, InUnder
<1>5. ASSUME NEW u \in Transition, NEW t \in Transition, NEW v \in Weight, NEW w \in Weight,
             u.start \in Generated, t.target = u.start,
             <<u, v>> \in Under(x), <<t, w>> \in Under(weight)
      PROVE  <<t, Extend(v, w)>> \in Under(x)
  <2>1. t \in DOMAIN weight /\ Below(w, weight[t]) /\ u \in DOMAIN x /\ Below(v, x[u])
    BY <1>5, InUnder
  <2>2. t \in DOMAIN x /\ Below(Extend(x[u], weight[t]), x[t])
    BY <1>5, <2>1 DEF IsSolution, Into
  <2>3. weight[t] \in Weight /\ x[t] \in Weight /\ x[u] \in Weight
    BY <1>1, <2>1, <2>2 DEF IsMap
  <2>4. Extend(v, w) \in Weight /\ Extend(x[u], weight[t]) \in Weight
    BY <2>3, WeightTypes
  <2>5. Below(Extend(v, w), Extend(x[u], weight[t]))
    BY <2>1, <2>3 DEF ExtendLaws
  <2>6. Below(Extend(v, w), x[t])
    BY <2>2, <2>3, <2>4, <2>5, BelowLaws
  <2> QED BY <2>2, <2>4, <2>6, InUnder
<1>6. Under(x) \subseteq Transition \X Weight /\ Under(weight) \subseteq Transition \X Weight
  BY DEF Under
<1> QED BY <1>2, <1>3, <1>4, <1>5, <1>6 DEF Bounds

LEMMA FinalLeast ==
    ASSUME CombineLaws, ExtendLaws, FinalInv, Heeded, Followed, Idle, listeners # {}
    PROVE  IsLeastSolution(final)
<1>1. SeedsKept /\ IsSolution(final)
  BY AtRest
<1>2. ASSUME NEW y, IsSolution(y), NEW t \in DOMAIN final
      PROVE  t \in DOMAIN y /\ Below(final[t], y[t])
  <2>1. Bounds(Under(y), Under(weight))
    BY <1>1, <1>2, SolutionBounds DEF FinalInv
  <2>2. Within(Under(y), Under(weight))
    BY <2>1 DEF Followed
  <2>3. <<t, final[t]>> \in Under(y)
    BY <1>2, <2>2 DEF Within
  <2> QED BY <2>3, InUnder
<1> QED BY <1>1, <1>2 DEF IsLeastSolution, GrowsTo

\* When all calls have returned and the map was asked for, it is the least that has
\* for every transition the weights of all ways to it: none is lost or outdated
\* and none is invented, whatever was added before, after and in between, for
\* every domain of weights that combines by a join and extends monotonically.
\* (getTransitionsToFinalWeights, ValueComputationListener)
THEOREM FinalIsLeast ==
    ASSUME CombineLaws, ExtendLaws
    PROVE  Spec => [](Idle /\ listeners # {} => IsLeastSolution(final))
<1>1. FinalInv /\ Heeded /\ Followed => (Idle /\ listeners # {} => IsLeastSolution(final))
  BY FinalLeast
<1> QED BY <1>1, FinalInvariant, PTL

(***************************************************************************)
(* The combined weights of the ways.                                       *)
(***************************************************************************)
\* x is the join of the weights W.
IsJoin(x, W) ==
    /\ x \in Weight /\ \A w \in W : Below(w, x)
    /\ \A z \in Weight : (\A w \in W : Below(w, z)) => Below(x, z)

\* Ways may be combined before they are extended.
ExtendJoins ==
    \A W \in SUBSET Weight : \A x, y \in Weight :
       W # {} /\ IsJoin(x, W) => IsJoin(Extend(x, y), {Extend(w, y) : w \in W})

\* What the recursions of Ways and Combined compute.
LeastWays ==
    /\ Ways \subseteq Transition \X Weight /\ Longer(Ways) \subseteq Ways
    /\ \A V \in SUBSET (Transition \X Weight) : Longer(V) \subseteq V => Ways \subseteq V

JoinedWays ==
    \A t \in {p[1] : p \in Ways} : IsJoin(Combined(WeightsOf(Ways, t)), WeightsOf(Ways, t))

LEMMA InWeightsOf ==
    ASSUME NEW ways, ways \subseteq Transition \X Weight, NEW t, NEW w
    PROVE  w \in WeightsOf(ways, t) <=> <<t, w>> \in ways
BY DEF WeightsOf

LEMMA LongerWays ==
    ASSUME NEW ways
    PROVE  /\ \A t \in Into(initialState) : <<t, Extend(One, weight[t])>> \in Longer(ways)
           /\ \A p \in ways : p[1].start \in Generated =>
                \A t \in Into(p[1].start) : <<t, Extend(p[2], weight[t])>> \in Longer(ways)
           /\ \A m \in Longer(ways) :
                \/ \E t \in Into(initialState) : m = <<t, Extend(One, weight[t])>>
                \/ \E p \in ways : /\ p[1].start \in Generated
                                   /\ \E t \in Into(p[1].start) : m = <<t, Extend(p[2], weight[t])>>
BY DEF Longer

\* Longer ways are ways, and there are more of them if there were.
LEMMA LongerTypes ==
    ASSUME TypeOK, NEW ways \in SUBSET (Transition \X Weight)
    PROVE  Longer(ways) \in SUBSET (Transition \X Weight)
<1>1. \A q : \A t \in Into(q) : t \in Transition /\ weight[t] \in Weight
  BY DEF Into, TypeOK, IsMap
<1>2. ASSUME NEW m \in Longer(ways) PROVE m \in Transition \X Weight
  <2>1. CASE \E t \in Into(initialState) : m = <<t, Extend(One, weight[t])>>
    <3>1. PICK t \in Into(initialState) : m = <<t, Extend(One, weight[t])>>
      BY <2>1
    <3>2. t \in Transition /\ Extend(One, weight[t]) \in Weight
      BY <1>1, WeightTypes
    <3> QED BY <3>1, <3>2
  <2>2. CASE \E p \in ways : /\ p[1].start \in Generated
                             /\ \E t \in Into(p[1].start) : m = <<t, Extend(p[2], weight[t])>>
    <3>1. PICK p \in ways : \E t \in Into(p[1].start) : m = <<t, Extend(p[2], weight[t])>>
      BY <2>2
    <3>2. PICK t \in Into(p[1].start) : m = <<t, Extend(p[2], weight[t])>>
      BY <3>1
    <3>3. p[2] \in Weight
      OBVIOUS
    <3>4. t \in Transition /\ Extend(p[2], weight[t]) \in Weight
      BY <1>1, <3>3, WeightTypes
    <3> QED BY <3>2, <3>4
  <2> QED BY <2>1, <2>2, LongerWays
<1> QED BY <1>2

LEMMA LongerGrows ==
    ASSUME NEW v, NEW w, v \subseteq w
    PROVE  Longer(v) \subseteq Longer(w)
<1>1. ASSUME NEW m \in Longer(v) PROVE m \in Longer(w)
  <2>1. CASE \E t \in Into(initialState) : m = <<t, Extend(One, weight[t])>>
    BY <2>1, LongerWays
  <2>2. CASE \E p \in v : /\ p[1].start \in Generated
                          /\ \E t \in Into(p[1].start) : m = <<t, Extend(p[2], weight[t])>>
    <3>1. PICK p \in v : /\ p[1].start \in Generated
                         /\ \E t \in Into(p[1].start) : m = <<t, Extend(p[2], weight[t])>>
      BY <2>2
    <3>2. p \in w
      OBVIOUS
    <3> QED BY <3>1, <3>2, LongerWays
  <2> QED BY <2>1, <2>2, LongerWays
<1> QED BY <1>1

\* Ways is the least set that is closed under going on by one transition.
LEMMA WaysLeast ==
    ASSUME TypeOK
    PROVE  LeastWays
<1> DEFINE U == Transition \X Weight
           next == [x \in SUBSET U |-> x \cup Longer(x)]
<1>1. next \in [SUBSET U -> SUBSET U]
  BY LongerTypes
<1>2. \A x \in SUBSET U : x \subseteq next[x]
  OBVIOUS
<1>3. \A x, y \in SUBSET U : x \subseteq y => next[x] \subseteq next[y]
  BY LongerGrows
<1>4. \A x \in SUBSET U : next[x] = x <=> Longer(x) \subseteq x
  OBVIOUS
<1>5. \A S \in SUBSET U : next[S] \subseteq S <=> Longer(S) \subseteq S
  OBVIOUS
<1> DEFINE all(f) == [ways \in SUBSET (Transition \X Weight) |->
                        IF Longer(ways) \subseteq ways THEN ways
                        ELSE f[ways \cup Longer(ways)]]
<1>6. \A f : Repeats(SUBSET U, next, f) <=> f = all(f)
  <2> SUFFICES ASSUME NEW f
               PROVE  [x \in SUBSET U |-> IF next[x] = x THEN x ELSE f[next[x]]] = all(f)
    <3> HIDE DEF all, next, U
    <3> QED BY DEF Repeats
  <2> QED OBVIOUS
<1>7. IsFiniteSet(U)
  BY FinalWeightsFinite, FS_Product
<1> HIDE DEF next
<1>8. /\ \E f : Repeats(SUBSET U, next, f)
      /\ \A f : Repeats(SUBSET U, next, f) => Closes(U, next, f)
  <2> HIDE DEF U
  <2>1. Expands(U, next)
    BY <1>1, <1>2, <1>3, <1>7 DEF Expands
  <2> QED BY <2>1, SetClosure
<1>9. Repeats(SUBSET U, next, WaysFrom)
  <2>1. \E f : Repeats(SUBSET U, next, f)
    BY <1>8
  <2> QED BY <1>6, <2>1, Zenon DEF WaysFrom
<1>10. /\ Ways \in SUBSET U /\ next[Ways] = Ways
       /\ \A S \in SUBSET U : next[S] \subseteq S => Ways \subseteq S
  <2> HIDE DEF U
  <2> QED BY <1>8, <1>9 DEF Ways, Closes
<1> QED BY <1>4, <1>5, <1>10 DEF LeastWays

\* Combining some weights one after the other, in any order, makes their join.
LEMMA CombinedIsJoin ==
    ASSUME CombineLaws, NEW ws \in SUBSET Weight, ws # {}
    PROVE  IsJoin(Combined(ws), ws)
<1> DEFINE D == Weight \X SUBSET Weight
           taken(p) == CHOOSE w \in p[2] : TRUE
           next == [p \in D |-> IF p[2] = {} THEN p
                                ELSE <<Combine(p[1], taken(p)), p[2] \ {taken(p)}>>]
           rank == [p \in D |-> Weight \ p[2]]
           start == <<CHOOSE w \in ws : TRUE, ws>>
           from == {p \in D : \A z \in Weight :
                      Below(p[1], z) /\ (\A v \in p[2] : Below(v, z)) <=> \A v \in ws : Below(v, z)}
<1>1. ASSUME NEW p \in D, p[2] # {}
      PROVE  /\ p[1] \in Weight /\ p[2] \in SUBSET Weight /\ taken(p) \in p[2]
             /\ Combine(p[1], taken(p)) \in Weight
             /\ next[p] \in D /\ next[p] # p
             /\ next[p][1] = Combine(p[1], taken(p)) /\ next[p][2] = p[2] \ {taken(p)}
  <2>1. p[1] \in Weight /\ p[2] \in SUBSET Weight /\ taken(p) \in p[2]
    BY <1>1
  <2>2. PICK w \in p[2] : w = taken(p)
    BY <2>1
  <2>3. Combine(p[1], w) \in Weight
    BY <2>1, WeightTypes
  <2>4. next[p] = <<Combine(p[1], w), p[2] \ {w}>>
    BY <1>1, <2>2
  <2>5. next[p] \in D /\ next[p][1] = Combine(p[1], w) /\ next[p][2] = p[2] \ {w}
    BY <2>1, <2>3, <2>4
  <2>6. next[p] # p
    BY <2>5
  <2> QED BY <2>1, <2>2, <2>3, <2>5, <2>6
<1>2. \A p \in D : p[2] = {} => next[p] = p
  OBVIOUS
<1>3. Climbs(D, Weight, next, rank)
  <2>1. next \in [D -> D]
    <3>1. \A p \in D : next[p] \in D
      BY <1>1, <1>2
    <3>2. next = [p \in D |-> next[p]]
      OBVIOUS
    <3> HIDE DEF next
    <3> QED BY <3>1, <3>2
  <2>2. rank \in [D -> SUBSET Weight]
    OBVIOUS
  <2>3. ASSUME NEW p \in D, next[p] # p
        PROVE  rank[p] \subseteq rank[next[p]] /\ rank[p] # rank[next[p]]
    <3>1. p[2] # {}
      BY <1>2, <2>3
    <3>2. rank[p] = Weight \ p[2] /\ rank[next[p]] = Weight \ (p[2] \ {taken(p)})
      BY <1>1, <3>1
    <3>3. taken(p) \in p[2] /\ p[2] \in SUBSET Weight
      BY <1>1, <3>1
    <3> HIDE DEF one, rank, next
    <3> QED BY <3>2, <3>3
  <2> HIDE DEF next, rank, D
  <2> QED BY <2>1, <2>2, <2>3, FinalWeightsFinite DEF Climbs
<1>4. start \in from /\ start \in D
  <2>1. PICK w \in ws : w = CHOOSE v \in ws : TRUE
    OBVIOUS
  <2>2. start = <<w, ws>> /\ start \in D
    BY <2>1
  <2>3. \A z \in Weight : Below(w, z) /\ (\A v \in ws : Below(v, z)) <=> \A v \in ws : Below(v, z)
    OBVIOUS
  <2>4. start[1] = w /\ start[2] = ws
    BY <2>2
  <2> HIDE DEF start, D
  <2> QED BY <2>2, <2>3, <2>4
<1>5. ASSUME NEW p \in from PROVE next[p] \in from
  <2>1. p \in D
    OBVIOUS
  <2>2. CASE p[2] = {}
    BY <1>2, <2>1, <2>2
  <2>3. CASE p[2] # {}
    <3>1. PICK u, v, V : u = p[1] /\ v = taken(p) /\ V = p[2]
      OBVIOUS
    <3>2. /\ u \in Weight /\ V \in SUBSET Weight /\ v \in V /\ next[p] \in D
          /\ Combine(u, v) \in Weight /\ next[p][1] = Combine(u, v) /\ next[p][2] = V \ {v}
      <4> HIDE DEF next, taken, from, D
      <4> QED BY <1>1, <2>1, <2>3, <3>1
    <3>3. ASSUME NEW z \in Weight
          PROVE  Below(Combine(u, v), z) <=> Below(u, z) /\ Below(v, z)
      BY <3>2, BelowLaws
    <3>4. ASSUME NEW z \in Weight
          PROVE  Below(Combine(u, v), z) /\ (\A x \in V \ {v} : Below(x, z))
                   <=> \A x \in ws : Below(x, z)
      <4>1. Below(u, z) /\ (\A x \in V : Below(x, z)) <=> \A x \in ws : Below(x, z)
        BY <3>1
      <4>2. (\A x \in V : Below(x, z)) <=> Below(v, z) /\ \A x \in V \ {v} : Below(x, z)
        BY <3>2
      <4> QED BY <3>3, <4>1, <4>2
    <3> HIDE DEF next, D
    <3> QED BY <3>2, <3>4
  <2> QED BY <2>2, <2>3
<1> HIDE DEF next, rank
<1> DEFINE all(f) == [p \in Weight \X SUBSET Weight |->
                        IF p[2] = {} THEN p
                        ELSE LET w == CHOOSE w \in p[2] : TRUE
                             IN f[<<Combine(p[1], w), p[2] \ {w}>>]]
<1>6. \A f : Repeats(D, next, f) <=> f = all(f)
  <2> SUFFICES ASSUME NEW f
               PROVE  [p \in D |-> IF next[p] = p THEN p ELSE f[next[p]]] = all(f)
    <3> HIDE DEF all, D
    <3> QED BY DEF Repeats
  <2>1. ASSUME NEW p \in D
        PROVE  (IF next[p] = p THEN p ELSE f[next[p]])
             = (IF p[2] = {} THEN p ELSE f[<<Combine(p[1], taken(p)), p[2] \ {taken(p)}>>])
    <3>1. CASE p[2] = {}
      BY <1>2, <3>1
    <3>2. CASE p[2] # {}
      <4>1. next[p] = <<Combine(p[1], taken(p)), p[2] \ {taken(p)}>>
        BY <3>2 DEF next
      <4>2. next[p] # p
        BY <1>1, <3>2
      <4> HIDE DEF next, taken
      <4> QED BY <3>2, <4>1, <4>2
    <3> QED BY <3>1, <3>2
  <2>2. all(f) = [p \in D |-> IF p[2] = {} THEN p
                              ELSE f[<<Combine(p[1], taken(p)), p[2] \ {taken(p)}>>]]
    OBVIOUS
  <2> HIDE DEF taken, D, all
  <2> QED BY <2>1, <2>2
<1>7. \E f : Repeats(D, next, f)
  <2> HIDE DEF D
  <2> QED BY <1>3, ClosureExists
<1>8. Repeats(D, next, CombinedFrom)
  BY <1>6, <1>7, Zenon DEF CombinedFrom
<1>9. PICK p \in D : /\ p = CombinedFrom[start] /\ next[p] = p
                     /\ \A S \in SUBSET D : start \in S /\ (\A z \in S : next[z] \in S) => p \in S
  <2> HIDE DEF D, start
  <2> QED BY <1>3, <1>4, <1>8, ClosureEnds
<1>10. p \in from /\ p[2] = {} /\ p[1] \in Weight
  <2>1. from \in SUBSET D /\ p[1] \in Weight
    OBVIOUS
  <2>2. p \in from
    <3> HIDE DEF D, start, from
    <3> QED BY <1>4, <1>5, <1>9, <2>1
  <2>3. p[2] = {}
    <3> HIDE DEF D, start, from, taken
    <3> QED BY <1>1, <1>9
  <2> QED BY <2>1, <2>2, <2>3
<1>11. Combined(ws) = p[1]
  BY <1>9 DEF Combined
<1>12. \A z \in Weight : Below(p[1], z) <=> \A v \in ws : Below(v, z)
  BY <1>10
<1>13. \A v \in ws : Below(v, p[1])
  BY <1>10, <1>12, BelowLaws
<1> QED BY <1>10, <1>11, <1>12, <1>13 DEF IsJoin

LEMMA WaysJoined ==
    ASSUME CombineLaws, LeastWays
    PROVE  JoinedWays
<1>1. ASSUME NEW t \in {p[1] : p \in Ways}
      PROVE  IsJoin(Combined(WeightsOf(Ways, t)), WeightsOf(Ways, t))
  <2>1. WeightsOf(Ways, t) \in SUBSET Weight /\ WeightsOf(Ways, t) # {}
    BY DEF LeastWays, WeightsOf
  <2> QED BY <2>1, CombinedIsJoin
<1> QED BY <1>1 DEF JoinedWays

\* No way has more than the map, and the combined weights are a solution.
LEMMA WaysUnder ==
    ASSUME CombineLaws, ExtendLaws, TypeOK, SeedsKept, NEW x, IsSolution(x), LeastWays
    PROVE  Ways \subseteq Under(x)
<1>1. Bounds(Under(x), Under(weight))
  BY SolutionBounds
<1>2. ASSUME NEW q \in State, NEW t \in Into(q)
      PROVE  t \in Transition /\ weight[t] \in Weight /\ t.target = q
             /\ <<t, weight[t]>> \in Under(weight)
  <2>1. t \in Transition /\ weight[t] \in Weight /\ t \in DOMAIN weight /\ t.target = q
    BY DEF Into, TypeOK, IsMap
  <2> QED BY <2>1, BelowLaws, InUnder
<1>3. ASSUME NEW t \in Into(initialState) PROVE <<t, Extend(One, weight[t])>> \in Under(x)
  BY <1>1, <1>2, FinalWeightsAssumption DEF Bounds
<1>4. ASSUME NEW p \in Under(x), p[1].start \in Generated, NEW t \in Into(p[1].start)
      PROVE  <<t, Extend(p[2], weight[t])>> \in Under(x)
  <2>1. PICK u \in Transition, v \in Weight : p = <<u, v>>
    BY DEF Under
  <2>2. <<u, v>> \in Under(x) /\ u.start \in Generated /\ t \in Into(u.start) /\ u.start \in State
    BY <1>4, <2>1, FinalWeightsAssumption
  <2>3. <<t, Extend(v, weight[t])>> \in Under(x)
    BY <1>1, <1>2, <2>2 DEF Bounds
  <2> QED BY <2>1, <2>3
<1>5. Longer(Under(x)) \subseteq Under(x)
  BY <1>3, <1>4, LongerWays
<1> QED BY <1>5 DEF LeastWays, Under

LEMMA WaysSolution ==
    ASSUME CombineLaws, ExtendJoins, TypeOK, LeastWays, JoinedWays,
           NEW x, x = [t \in {p[1] : p \in Ways} |-> Combined(WeightsOf(Ways, t))]
    PROVE  IsSolution(x)
<1>1. Ways \subseteq Transition \X Weight /\ Longer(Ways) \subseteq Ways
  BY DEF LeastWays
<1>2. \A t \in DOMAIN x : t \in Transition /\ IsJoin(x[t], WeightsOf(Ways, t))
  BY <1>1 DEF JoinedWays
<1>3. ASSUME NEW p \in Ways PROVE p[1] \in DOMAIN x /\ Below(p[2], x[p[1]])
  <2>1. p[1] \in DOMAIN x /\ p = <<p[1], p[2]>>
    BY <1>1
  <2>2. p[2] \in WeightsOf(Ways, p[1])
    BY <1>1, <2>1, InWeightsOf
  <2> QED BY <1>2, <2>1, <2>2 DEF IsJoin
<1>4. IsMap(x)
  BY <1>2 DEF IsMap, IsJoin
<1>5. ASSUME NEW t \in Into(initialState)
      PROVE  t \in DOMAIN x /\ Below(Extend(One, weight[t]), x[t])
  <2>1. PICK p \in Ways : p = <<t, Extend(One, weight[t])>>
    BY <1>1, LongerWays
  <2>2. p[1] = t /\ p[2] = Extend(One, weight[t])
    BY <2>1
  <2> QED BY <1>3, <2>2
<1>6. ASSUME NEW u \in DOMAIN x, u.start \in Generated, NEW t \in Into(u.start)
      PROVE  t \in DOMAIN x /\ Below(Extend(x[u], weight[t]), x[t])
  <2> DEFINE W == WeightsOf(Ways, u)
  <2>1. t \in Transition /\ weight[t] \in Weight
    BY DEF Into, TypeOK, IsMap
  <2>2. PICK q \in Ways : q[1] = u
    OBVIOUS
  <2>3. q[2] \in W /\ W \in SUBSET Weight
    BY <1>1, <2>2 DEF WeightsOf
  <2>4. ASSUME NEW w \in W
        PROVE  t \in DOMAIN x /\ Below(Extend(w, weight[t]), x[t])
    <3>1. PICK p \in Ways : p[1] = u /\ p[2] = w
      BY DEF WeightsOf
    <3>2. PICK r \in Ways : r = <<t, Extend(p[2], weight[t])>>
      BY <1>1, <1>6, <3>1, LongerWays
    <3>3. r[1] = t /\ r[2] = Extend(w, weight[t])
      BY <3>1, <3>2
    <3> QED BY <1>3, <3>3
  <2>5. IsJoin(x[u], W)
    BY <1>2
  <2> HIDE DEF W
  <2>6. x[u] \in Weight /\ W # {}
    BY <2>3, <2>5 DEF IsJoin
  <2>7. IsJoin(Extend(x[u], weight[t]), {Extend(w, weight[t]) : w \in W})
    BY <2>1, <2>3, <2>5, <2>6 DEF ExtendJoins
  <2>8. t \in DOMAIN x /\ x[t] \in Weight
    BY <1>4, <2>3, <2>4 DEF IsMap
  <2> QED BY <2>4, <2>7, <2>8 DEF IsJoin
<1> QED BY <1>4, <1>5, <1>6 DEF IsSolution

LEMMA FinalCombined ==
    ASSUME CombineLaws, ExtendLaws, ExtendJoins, FinalInv, Heeded, Followed,
           Idle, listeners # {}
    PROVE  /\ DOMAIN final = {p[1] : p \in Ways}
           /\ \A t \in DOMAIN final : final[t] = Combined(WeightsOf(Ways, t))
<1> DEFINE D == {p[1] : p \in Ways}
           y == [t \in D |-> Combined(WeightsOf(Ways, t))]
<1>1. TypeOK /\ SeedsKept /\ IsSolution(final) /\ IsLeastSolution(final)
  BY AtRest, FinalLeast DEF FinalInv
<1>2. LeastWays /\ JoinedWays
  BY <1>1, WaysLeast, WaysJoined
<1>3. Ways \subseteq Under(final) /\ Ways \subseteq Transition \X Weight
  BY <1>2, <1>1, WaysUnder DEF LeastWays
<1>4. IsSolution(y)
  BY <1>2, <1>1, WaysSolution
<1>5. DOMAIN y = D /\ \A t \in D : y[t] = Combined(WeightsOf(Ways, t))
  OBVIOUS
<1>6. \A t \in D : y[t] \in Weight /\ IsJoin(y[t], WeightsOf(Ways, t))
  BY <1>2, <1>5 DEF JoinedWays, IsJoin
<1>7. D \subseteq DOMAIN final
  BY <1>3 DEF Under
<1> HIDE DEF D, y
<1>8. \A t \in DOMAIN final : t \in D /\ Below(final[t], y[t])
  BY <1>1, <1>4, <1>5 DEF IsLeastSolution, GrowsTo
<1>9. ASSUME NEW t \in DOMAIN final PROVE Below(y[t], final[t])
  <2>1. final[t] \in Weight /\ t \in D
    BY <1>1, <1>8 DEF TypeOK, IsMap
  <2>2. ASSUME NEW w \in WeightsOf(Ways, t) PROVE Below(w, final[t])
    <3>1. <<t, w>> \in Under(final)
      BY <1>3, InWeightsOf
    <3> QED BY <3>1, InUnder
  <2> QED BY <1>6, <2>1, <2>2 DEF IsJoin
<1>10. ASSUME NEW t \in DOMAIN final PROVE final[t] = y[t]
  <2>1. final[t] \in Weight /\ y[t] \in Weight
    BY <1>1, <1>6, <1>8 DEF TypeOK, IsMap
  <2> QED BY <1>8, <1>9, <2>1, BelowLaws
<1>11. DOMAIN final = D /\ \A t \in DOMAIN final : final[t] = Combined(WeightsOf(Ways, t))
  BY <1>5, <1>7, <1>8, <1>10
<1> QED BY <1>11 DEF D

\* When all calls have returned and the map was asked for, it holds exactly the
\* transitions that a way leads to, each with the combined weight of all of its
\* ways, whatever the program, the order of its additions and the weights, in every
\* finite domain that combines by a join and may combine before it extends.
\* (getTransitionsToFinalWeights, ValueComputationListener.onInTransitionAdded)
THEOREM FinalIsCombined ==
    ASSUME CombineLaws, ExtendLaws, ExtendJoins
    PROVE  Spec => []FinalWeightsExact
<1>1. FinalInv /\ Heeded /\ Followed => FinalWeightsExact
  BY FinalCombined DEF FinalWeightsExact
<1> QED BY <1>1, FinalInvariant, PTL

(***************************************************************************)
(* Transition functions have the laws.                                     *)
(***************************************************************************)
LEMMA Functions ==
    /\ Weight = TransitionFunction /\ One = one
    /\ \A v, w \in Weight : Extend(v, w) = ExtendWith(v, w) /\ Combine(v, w) = CombineWith(v, w)
BY FinalStatesAssumption

LEMMA BelowIsSubset ==
    ASSUME NEW v \in Weight, NEW w \in Weight
    PROVE  Below(v, w) <=> Transitions(v) \subseteq Transitions(w)
<1>1. /\ v \in TransitionFunction /\ w \in TransitionFunction
      /\ Combine(v, w) = CombineWith(v, w)
  BY Functions
<1>2. /\ CombineWith(v, w) \in TransitionFunction
      /\ Transitions(CombineWith(v, w)) = Transitions(v) \cup Transitions(w)
  BY <1>1, CombineIsUnion
<1>3. CombineWith(v, w) = w <=> Transitions(v) \cup Transitions(w) = Transitions(w)
  BY <1>1, <1>2, TransitionsInjective
<1> QED BY <1>1, <1>3 DEF Below

LEMMA WeightOfSet ==
    ASSUME NEW ts \in SUBSET Element
    PROVE  \E w \in Weight : Transitions(w) = ts
<1>1. CASE ts = {}
  BY <1>1, SpecialWeights, Functions
<1>2. CASE ts = {Identity}
  BY <1>2, SpecialWeights, Functions
<1>3. CASE ts # {} /\ ts # {Identity}
  BY <1>3, FunctionIsWeight, Functions
<1> QED BY <1>1, <1>2, <1>3

LEMMA JoinIsUnion ==
    ASSUME NEW W \in SUBSET Weight, NEW x \in Weight
    PROVE  IsJoin(x, W) <=> Transitions(x) = UNION {Transitions(w) : w \in W}
<1> DEFINE U == UNION {Transitions(w) : w \in W}
<1>1. \A w \in Weight : Transitions(w) \in SUBSET Element
  BY TransitionsTyped, Functions
<1>2. ASSUME IsJoin(x, W) PROVE Transitions(x) = U
  <2>0. U \in SUBSET Element
    BY <1>1
  <2>1. PICK z \in Weight : Transitions(z) = U
    <3> HIDE DEF U
    <3> QED BY <2>0, WeightOfSet
  <2>2. \A w \in W : Below(w, z)
    BY <2>1, BelowIsSubset
  <2>3. Transitions(x) \subseteq U
    BY <1>2, <2>1, <2>2, BelowIsSubset DEF IsJoin
  <2>4. \A w \in W : Transitions(w) \subseteq Transitions(x)
    BY <1>2, BelowIsSubset DEF IsJoin
  <2> QED BY <2>3, <2>4
<1>3. ASSUME Transitions(x) = U PROVE IsJoin(x, W)
  <2>1. \A w \in W : Below(w, x)
    BY <1>3, BelowIsSubset
  <2>2. ASSUME NEW z \in Weight, \A w \in W : Below(w, z) PROVE Below(x, z)
    <3>1. \A w \in W : Transitions(w) \subseteq Transitions(z)
      BY <2>2, BelowIsSubset
    <3> QED BY <1>3, <3>1, BelowIsSubset
  <2> QED BY <2>1, <2>2 DEF IsJoin
<1> QED BY <1>2, <1>3

LEMMA ExtendTransitions ==
    ASSUME NEW v \in Weight, NEW w \in Weight
    PROVE  Extend(v, w) \in Weight /\ Transitions(Extend(v, w)) = Product(Transitions(v), Transitions(w))
BY ExtendIsProduct, Functions

LEMMA ProductGrows ==
    ASSUME NEW A, NEW B, NEW C, NEW D, A \subseteq C, B \subseteq D
    PROVE  Product(A, B) \subseteq Product(C, D)
BY ProductWitness, ProductMember

\* Transition functions combine by a join, extend monotonically, and a weight may be
\* extended after it was combined with others: what the final weights of an
\* automaton need of its weights, and PostStar of its domain.
\* (TransitionFunction.combineWith, extendWith)
THEOREM TypestateLaws == CombineLaws /\ ExtendLaws /\ ExtendJoins
<1>1. CombineLaws
  BY CombineIsJoin, Functions DEF CombineLaws
<1>2. ASSUME NEW u \in Weight, NEW v \in Weight, NEW x \in Weight, NEW y \in Weight,
             Below(u, v), Below(x, y)
      PROVE  Below(Extend(u, x), Extend(v, y))
  <2>1. Product(Transitions(u), Transitions(x)) \subseteq Product(Transitions(v), Transitions(y))
    BY <1>2, BelowIsSubset, ProductGrows
  <2> QED BY <2>1, BelowIsSubset, ExtendTransitions
<1>3. ASSUME NEW W \in SUBSET Weight, NEW x \in Weight, NEW y \in Weight, IsJoin(x, W)
      PROVE  IsJoin(Extend(x, y), {Extend(w, y) : w \in W})
  <2> DEFINE V == {Extend(w, y) : w \in W}
             B == Transitions(y)
  <2>1. V \in SUBSET Weight /\ Extend(x, y) \in Weight
    BY ExtendTransitions
  <2>2. Transitions(x) = UNION {Transitions(w) : w \in W}
    BY <1>3, JoinIsUnion
  <2>3. Transitions(Extend(x, y)) = Product(Transitions(x), B)
    BY ExtendTransitions
  <2>4. \A w \in W : Transitions(Extend(w, y)) = Product(Transitions(w), B)
    BY ExtendTransitions
  <2>5. {Transitions(v) : v \in V} = {Product(Transitions(w), B) : w \in W}
    <3>1. \A w \in W : Extend(w, y) \in V
      OBVIOUS
    <3>2. \A v \in V : \E w \in W : v = Extend(w, y)
      OBVIOUS
    <3> HIDE DEF V, B
    <3>3. \A z : z \in {Transitions(v) : v \in V} <=> z \in {Product(Transitions(w), B) : w \in W}
      BY <2>4, <3>1, <3>2
    <3> QED BY <3>3
  <2>6. Product(Transitions(x), B) = UNION {Product(Transitions(w), B) : w \in W}
    <3>1. ASSUME NEW e \in Product(Transitions(x), B)
          PROVE  \E w \in W : e \in Product(Transitions(w), B)
      <4>1. PICK f \in Transitions(x), g \in B : e \in Compose(f, g)
        BY <3>1, ProductWitness
      <4>2. PICK w \in W : f \in Transitions(w)
        BY <2>2, <4>1
      <4> QED BY <4>1, <4>2, ProductMember
    <3>2. ASSUME NEW w \in W, NEW e \in Product(Transitions(w), B)
          PROVE  e \in Product(Transitions(x), B)
      BY <2>2, <3>2, ProductWitness, ProductMember
    <3> QED BY <3>1, <3>2
  <2> HIDE DEF V
  <2>7. Transitions(Extend(x, y)) = UNION {Transitions(v) : v \in V}
    BY <2>3, <2>5, <2>6
  <2>8. IsJoin(Extend(x, y), V)
    BY <2>1, <2>7, JoinIsUnion
  <2> QED BY <2>8 DEF V
<1>4. ExtendLaws
  BY <1>2 DEF ExtendLaws
<1>5. ExtendJoins
  BY <1>3 DEF ExtendJoins
<1> QED BY <1>1, <1>4, <1>5

(***************************************************************************)
(* Where the final weights lead.                                           *)
(***************************************************************************)
Moved == TypeState \X TypeState

\* What the recursion of StateMoves computes.
LeastMoves ==
    /\ StateMoves \subseteq Transition \X Moved /\ FurtherMoves(StateMoves) \subseteq StateMoves
    /\ \A V \in SUBSET (Transition \X Moved) : FurtherMoves(V) \subseteq V => StateMoves \subseteq V

LEMMA ImageLaws ==
    ASSUME NEW s \in TypeState
    PROVE  /\ Image(Transitions(One), s) = {s}
           /\ \A w \in Weight : Image(Transitions(w), s) \subseteq TypeState
           /\ \A v, w \in Weight :
                /\ Image(Transitions(Extend(v, w)), s) =
                     UNION {Image(Transitions(w), x) : x \in Image(Transitions(v), s)}
                /\ Image(Transitions(Combine(v, w)), s) =
                     Image(Transitions(v), s) \cup Image(Transitions(w), s)
                /\ Below(v, w) => Image(Transitions(v), s) \subseteq Image(Transitions(w), s)
<1>1. Image(Transitions(One), s) = {s}
  BY ImageOfOne, SpecialWeights, Functions
<1>2. \A w \in Weight : Image(Transitions(w), s) \subseteq TypeState
  BY TransitionsTyped, ImageTyped, Functions
<1>3. ASSUME NEW v \in Weight, NEW w \in Weight
      PROVE  /\ Image(Transitions(Extend(v, w)), s) =
                  UNION {Image(Transitions(w), x) : x \in Image(Transitions(v), s)}
             /\ Image(Transitions(Combine(v, w)), s) =
                  Image(Transitions(v), s) \cup Image(Transitions(w), s)
  BY StatesExact, Functions
<1>4. ASSUME NEW v \in Weight, NEW w \in Weight, Below(v, w)
      PROVE  Image(Transitions(v), s) \subseteq Image(Transitions(w), s)
  BY <1>3, <1>4 DEF Below
<1> QED BY <1>1, <1>2, <1>3, <1>4

\* The pairs of states of a weight are those that it leads from and to.
Exact(c) ==
    /\ c[1] \in TransitionFunction /\ c[2] \subseteq Moved
    /\ \A s \in TypeState : \A x : <<s, x>> \in c[2] <=> x \in Image(Transitions(c[1]), s)

\* The weights that an analysis starts from.
FirstEffects == {OneEffect, SeedEffect} \cup {RuleEffect(e) : e \in Event}

LEMMA SpecialExact == Exact(OneEffect) /\ Exact(SeedEffect)
<1>1. Exact(OneEffect)
  <2> DEFINE stay == {<<s, s>> : s \in TypeState}
  <2>1. OneEffect[1] = one /\ OneEffect[2] = stay
    BY DEF OneEffect
  <2>2. one \in TransitionFunction /\ stay \subseteq Moved
    BY SpecialWeights DEF Moved
  <2>3. ASSUME NEW s \in TypeState, NEW x
        PROVE  <<s, x>> \in stay <=> x \in Image(Transitions(one), s)
    <3>1. Image(Transitions(one), s) = {s}
      BY ImageOfOne, SpecialWeights
    <3> QED BY <3>1
  <2> QED BY <2>1, <2>2, <2>3 DEF Exact
<1>2. Exact(SeedEffect)
  <2> DEFINE begin == {<<startState, startState>>}
  <2>1. SeedEffect[1] = initialTransition /\ SeedEffect[2] = begin
    BY DEF SeedEffect
  <2>2. initialTransition \in TransitionFunction /\ begin \subseteq Moved
    BY SeedTyped, MachineAssumption DEF Moved, initialTransition
  <2>3. ASSUME NEW s \in TypeState, NEW x
        PROVE  <<s, x>> \in begin <=> x \in Image(Transitions(initialTransition), s)
    <3>1. Image(Transitions(initialTransition), s) = {s} \cap {startState}
      BY StatesExact
    <3>2. <<s, x>> \in begin <=> s = startState /\ x = startState
      OBVIOUS
    <3> QED BY <3>1, <3>2
  <2> QED BY <2>1, <2>2, <2>3 DEF Exact
<1> QED BY <1>1, <1>2

LEMMA EffectExact ==
    ASSUME NEW e \in Event
    PROVE  Exact(RuleEffect(e))
<1> DEFINE moves == {p \in TypeState \X TypeState : p[2] \in After(Matched(e), p[1])}
<1>1. RuleEffect(e)[1] = WeightOf(e) /\ RuleEffect(e)[2] = moves
  BY DEF RuleEffect
<1>2. WeightOf(e) \in TransitionFunction /\ moves \subseteq Moved
  BY WeightOfTyped DEF Moved
<1>3. ASSUME NEW s \in TypeState, NEW x
      PROVE  <<s, x>> \in moves <=> x \in Image(Transitions(WeightOf(e)), s)
  <2>1. Image(Transitions(WeightOf(e)), s) = After(Matched(e), s)
    BY ImageOfMatched
  <2>2. Image(Transitions(WeightOf(e)), s) \subseteq TypeState
    BY <1>2, TransitionsTyped, ImageTyped
  <2>3. <<s, x>> \in moves <=> x \in TypeState /\ x \in After(Matched(e), s)
    OBVIOUS
  <2> QED BY <2>1, <2>2, <2>3
<1> QED BY <1>1, <1>2, <1>3 DEF Exact

LEMMA ThenExact ==
    ASSUME NEW c, NEW d, Exact(c), Exact(d)
    PROVE  Exact(Then(c, d))
<1> DEFINE moves == {<<p[1][1], p[2][2]>> : p \in {q \in c[2] \X d[2] : q[1][2] = q[2][1]}}
<1>1. Then(c, d)[1] = ExtendWith(c[1], d[1]) /\ Then(c, d)[2] = moves
  BY DEF Then
<1>2. ASSUME NEW s, NEW x
      PROVE  <<s, x>> \in moves <=> \E y : <<s, y>> \in c[2] /\ <<y, x>> \in d[2]
  <2>1. ASSUME <<s, x>> \in moves
        PROVE  \E y : <<s, y>> \in c[2] /\ <<y, x>> \in d[2]
    <3>1. PICK p \in c[2] \X d[2] : p[1][2] = p[2][1] /\ <<s, x>> = <<p[1][1], p[2][2]>>
      BY <2>1
    <3>2. p[1] \in Moved /\ p[2] \in Moved /\ p[1] \in c[2] /\ p[2] \in d[2]
      BY <3>1 DEF Exact
    <3>3. p[1] = <<s, p[1][2]>> /\ p[2] = <<p[1][2], x>>
      BY <3>1, <3>2 DEF Moved
    <3> QED BY <3>2, <3>3
  <2>2. ASSUME NEW y, <<s, y>> \in c[2], <<y, x>> \in d[2]
        PROVE  <<s, x>> \in moves
    <3>1. PICK p \in c[2] \X d[2] : p = <<<<s, y>>, <<y, x>>>>
      BY <2>2
    <3>2. p[1][2] = p[2][1] /\ p[1][1] = s /\ p[2][2] = x
      BY <3>1
    <3> QED BY <3>2
  <2> QED BY <2>1, <2>2
<1>3. /\ ExtendWith(c[1], d[1]) \in TransitionFunction
      /\ \A s \in TypeState :
           Image(Transitions(ExtendWith(c[1], d[1])), s) =
             UNION {Image(Transitions(d[1]), y) : y \in Image(Transitions(c[1]), s)}
  BY StatesExact, ExtendIsProduct DEF Exact
<1>4. \A s \in TypeState : Image(Transitions(c[1]), s) \subseteq TypeState
  BY TransitionsTyped, ImageTyped DEF Exact
<1>5. ASSUME NEW s \in TypeState, NEW x
      PROVE  <<s, x>> \in moves <=> x \in Image(Transitions(ExtendWith(c[1], d[1])), s)
  <2>1. <<s, x>> \in moves <=>
          \E y \in TypeState : /\ y \in Image(Transitions(c[1]), s)
                               /\ x \in Image(Transitions(d[1]), y)
    <3>1. \A y : <<s, y>> \in c[2] <=> y \in Image(Transitions(c[1]), s)
      BY DEF Exact
    <3>2. \A y \in TypeState : <<y, x>> \in d[2] <=> x \in Image(Transitions(d[1]), y)
      BY DEF Exact
    <3> HIDE DEF moves
    <3> QED BY <1>2, <1>4, <3>1, <3>2
  <2> QED BY <1>3, <1>4, <2>1
<1>6. moves \subseteq Moved
  <2>1. ASSUME NEW p \in c[2] \X d[2]
        PROVE  <<p[1][1], p[2][2]>> \in Moved
    BY DEF Exact, Moved
  <2> QED BY <2>1
<1> HIDE DEF moves
<1> QED BY <1>1, <1>3, <1>5, <1>6 DEF Exact

LEMMA EitherExact ==
    ASSUME NEW c, NEW d, Exact(c), Exact(d)
    PROVE  Exact(Either(c, d))
<1>1. Either(c, d)[1] = CombineWith(c[1], d[1]) /\ Either(c, d)[2] = c[2] \cup d[2]
  BY DEF Either
<1>2. /\ CombineWith(c[1], d[1]) \in TransitionFunction
      /\ \A s \in TypeState :
           Image(Transitions(CombineWith(c[1], d[1])), s) =
             Image(Transitions(c[1]), s) \cup Image(Transitions(d[1]), s)
  BY StatesExact, CombineIsUnion DEF Exact
<1> QED BY <1>1, <1>2 DEF Exact

LEMMA FurtherEffects ==
    ASSUME NEW C
    PROVE  \A c : c \in Further(C) <=>
                    \E a, b \in C : c = Then(a, b) \/ c = Either(a, b)
<1>1. ASSUME NEW c \in Further(C)
      PROVE  \E a, b \in C : c = Then(a, b) \/ c = Either(a, b)
  <2>1. PICK p \in C \X C : c = Then(p[1], p[2]) \/ c = Either(p[1], p[2])
    BY DEF Further
  <2>2. p[1] \in C /\ p[2] \in C
    OBVIOUS
  <2> QED BY <2>1, <2>2
<1>2. ASSUME NEW a \in C, NEW b \in C
      PROVE  Then(a, b) \in Further(C) /\ Either(a, b) \in Further(C)
  <2>1. PICK p \in C \X C : p = <<a, b>>
    OBVIOUS
  <2>2. p[1] = a /\ p[2] = b
    BY <2>1
  <2>3. Then(p[1], p[2]) \in Further(C) /\ Either(p[1], p[2]) \in Further(C)
    BY DEF Further
  <2> QED BY <2>2, <2>3
<1> QED BY <1>1, <1>2

Effected == TransitionFunction \X SUBSET Moved

LEMMA FurtherEffected ==
    ASSUME NEW C \in SUBSET Effected
    PROVE  Further(C) \subseteq Effected
<1>1. ASSUME NEW a \in Effected, NEW b \in Effected
      PROVE  Then(a, b) \in Effected /\ Either(a, b) \in Effected
  <2>1. /\ a[1] \in TransitionFunction /\ b[1] \in TransitionFunction
        /\ a[2] \in SUBSET Moved /\ b[2] \in SUBSET Moved
    BY DEF Effected
  <2>2. /\ ExtendWith(a[1], b[1]) \in TransitionFunction
        /\ CombineWith(a[1], b[1]) \in TransitionFunction
    BY <2>1, ExtendIsProduct, CombineIsUnion
  <2> DEFINE moves == {<<p[1][1], p[2][2]>> : p \in {q \in a[2] \X b[2] : q[1][2] = q[2][1]}}
  <2>3. moves \subseteq Moved
    <3>1. ASSUME NEW p \in a[2] \X b[2]
          PROVE  <<p[1][1], p[2][2]>> \in Moved
      BY <2>1 DEF Moved
    <3> QED BY <3>1
  <2>4. Then(a, b) = <<ExtendWith(a[1], b[1]), moves>>
    BY DEF Then
  <2> HIDE DEF moves
  <2> QED BY <2>1, <2>2, <2>3, <2>4 DEF Either, Effected
<1> QED BY <1>1, FurtherEffects

LEMMA FurtherMore ==
    ASSUME NEW C, NEW D, C \subseteq D
    PROVE  Further(C) \subseteq Further(D)
BY FurtherEffects

\* Whatever an analysis makes of the weights of its rules, each has its pairs of
\* states: induction over the closure.
LEMMA EffectsExact == \A c \in Effects : Exact(c)
<1> DEFINE U == Effected
           next == [x \in SUBSET U |-> x \cup Further(x)]
<1>1. next \in [SUBSET U -> SUBSET U]
  BY FurtherEffected
<1>2. \A x \in SUBSET U : x \subseteq next[x]
  OBVIOUS
<1>3. \A x, y \in SUBSET U : x \subseteq y => next[x] \subseteq next[y]
  BY FurtherMore
<1>4. \A x \in SUBSET U : next[x] = x <=> Further(x) \subseteq x
  OBVIOUS
<1> DEFINE all(f) == [C \in SUBSET (TransitionFunction \X SUBSET (TypeState \X TypeState)) |->
                        IF Further(C) \subseteq C THEN C
                        ELSE f[C \cup Further(C)]]
<1>6. \A f : Repeats(SUBSET U, next, f) <=> f = all(f)
  <2> SUFFICES ASSUME NEW f
               PROVE  [x \in SUBSET U |-> IF next[x] = x THEN x ELSE f[next[x]]] = all(f)
    <3> HIDE DEF all, next, U
    <3> QED BY DEF Repeats
  <2> QED BY DEF Moved, Effected
<1>7. IsFiniteSet(U)
  <2>1. IsFiniteSet(SUBSET Moved)
    BY FinalStatesFinite, FS_Product, FS_SUBSET DEF Moved
  <2>2. IsFiniteSet(TransitionFunction)
    BY FinalWeightsFinite, Functions
  <2> QED BY <2>1, <2>2, FS_Product DEF Effected
<1>first. FirstEffects \in SUBSET U /\ \A c \in FirstEffects : Exact(c)
  <2>1. \A c \in FirstEffects : Exact(c)
    BY SpecialExact, EffectExact DEF FirstEffects
  <2>2. ASSUME NEW c \in FirstEffects
        PROVE  c \in Effected
    <3>1. c = <<c[1], c[2]>>
      <4>1. CASE c \in {OneEffect, SeedEffect}
        BY <4>1 DEF OneEffect, SeedEffect
      <4>2. CASE \E e \in Event : c = RuleEffect(e)
        BY <4>2 DEF RuleEffect
      <4> QED BY <4>1, <4>2 DEF FirstEffects
    <3>2. c[1] \in TransitionFunction /\ c[2] \in SUBSET Moved
      BY <2>1 DEF Exact
    <3> QED BY <3>1, <3>2 DEF Effected
  <2> QED BY <2>1, <2>2
<1> DEFINE exact == {c \in U : Exact(c)}
<1>closed. exact \in SUBSET U /\ FirstEffects \subseteq exact /\ next[exact] \subseteq exact
  <2>1. exact \in SUBSET U /\ FirstEffects \subseteq exact
    BY <1>first
  <2>2. ASSUME NEW c \in Further(exact)
        PROVE  c \in exact
    <3>1. PICK a, b \in exact : c = Then(a, b) \/ c = Either(a, b)
      BY FurtherEffects
    <3>2. Exact(c)
      BY <3>1, ThenExact, EitherExact
    <3>3. c \in U
      BY <2>1, FurtherEffected
    <3> QED BY <3>2, <3>3
  <2> QED BY <2>1, <2>2
<1> HIDE DEF next
<1>8. /\ \E f : Repeats(SUBSET U, next, f)
      /\ \A f : Repeats(SUBSET U, next, f) => Closes(U, next, f)
  <2> HIDE DEF U
  <2>1. Expands(U, next)
    BY <1>1, <1>2, <1>3, <1>7 DEF Expands
  <2> QED BY <2>1, SetClosure
<1>9. Repeats(SUBSET U, next, EffectsFrom)
  <2>1. \E f : Repeats(SUBSET U, next, f)
    BY <1>8
  <2> QED BY <1>6, <2>1, Zenon DEF EffectsFrom
<1>10. Effects \subseteq exact
  <2> HIDE DEF U, exact
  <2>1. Effects = EffectsFrom[FirstEffects]
    BY DEF Effects, FirstEffects
  <2>2. Closes(U, next, EffectsFrom)
    BY <1>8, <1>9
  <2> QED BY <1>first, <1>closed, <2>1, <2>2 DEF Closes
<1> QED BY <1>10

\* An addition's pairs of states are those its weight leads from and to.
LEMMA SeedMoves ==
    ASSUME NEW f \in Seeds
    PROVE  /\ f.t \in Transition /\ f.w \in Weight /\ f.moves \subseteq Moved
           /\ \A s \in TypeState : \A x : <<s, x>> \in f.moves <=> x \in Image(Transitions(f.w), s)
<1>1. f.t \in Transition /\ f.w \in Weight
  BY FinalWeightsAssumption
<1>2. PICK c : c = <<f.w, f.moves>> /\ c[1] = f.w /\ c[2] = f.moves /\ c \in Effects
  <2>1. <<f.w, f.moves>>[1] = f.w /\ <<f.w, f.moves>>[2] = f.moves
    OBVIOUS
  <2> QED BY <2>1, FinalStatesAssumption
<1>3. Exact(c)
  BY <1>2, EffectsExact
<1> QED BY <1>1, <1>2, <1>3 DEF Exact

LEMMA FurtherCases ==
    ASSUME NEW moves
    PROVE  /\ \A f \in AddedInto(initialState) : \A p \in f.moves : <<f.t, p>> \in FurtherMoves(moves)
           /\ \A m \in moves : m[1].start \in Generated =>
                \A f \in AddedInto(m[1].start) : \A p \in f.moves :
                  p[1] = m[2][2] => <<f.t, <<m[2][1], p[2]>>>> \in FurtherMoves(moves)
           /\ \A n \in FurtherMoves(moves) :
                \/ \E f \in AddedInto(initialState) : \E p \in f.moves : n = <<f.t, p>>
                \/ \E m \in moves : /\ m[1].start \in Generated
                                    /\ \E f \in AddedInto(m[1].start) : \E p \in f.moves :
                                         p[1] = m[2][2] /\ n = <<f.t, <<m[2][1], p[2]>>>>
<1> DEFINE first == UNION {{<<f.t, p>> : p \in f.moves} : f \in AddedInto(initialState)}
           turn(m, f) == {<<f.t, <<m[2][1], p[2]>>>> : p \in {r \in f.moves : r[1] = m[2][2]}}
           on(m) == UNION {turn(m, f) : f \in AddedInto(m[1].start)}
           further == UNION {on(m) : m \in {n \in moves : n[1].start \in Generated}}
<1>1. \A n : n \in first <=> \E f \in AddedInto(initialState) : \E p \in f.moves : n = <<f.t, p>>
  OBVIOUS
<1>2. \A m, n : n \in on(m) <=> \E f \in AddedInto(m[1].start) : \E p \in f.moves :
                                  p[1] = m[2][2] /\ n = <<f.t, <<m[2][1], p[2]>>>>
  <2>1. \A m, f, n : n \in turn(m, f) <=>
                        \E p \in f.moves : p[1] = m[2][2] /\ n = <<f.t, <<m[2][1], p[2]>>>>
    <3>1. ASSUME NEW m, NEW f, NEW n
          PROVE  n \in turn(m, f) <=>
                   \E p \in f.moves : p[1] = m[2][2] /\ n = <<f.t, <<m[2][1], p[2]>>>>
      BY ZenonT(30)
    <3> QED BY <3>1
  <2> HIDE DEF turn
  <2>2. \A m, n : n \in on(m) <=> \E f \in AddedInto(m[1].start) : n \in turn(m, f)
    OBVIOUS
  <2> QED BY <2>1, <2>2
<1>3. FurtherMoves(moves) = first \cup further
  BY DEF FurtherMoves
<1> HIDE DEF first, on
<1>4. \A n : n \in further <=> \E m \in moves : m[1].start \in Generated /\ n \in on(m)
  OBVIOUS
<1> HIDE DEF further
<1>5. ASSUME NEW f \in AddedInto(initialState), NEW p \in f.moves
      PROVE  <<f.t, p>> \in FurtherMoves(moves)
  BY <1>1, <1>3
<1>6. ASSUME NEW m \in moves, m[1].start \in Generated, NEW f \in AddedInto(m[1].start),
             NEW p \in f.moves, p[1] = m[2][2]
      PROVE  <<f.t, <<m[2][1], p[2]>>>> \in FurtherMoves(moves)
  <2>1. <<f.t, <<m[2][1], p[2]>>>> \in on(m)
    BY <1>2, <1>6
  <2> QED BY <1>3, <1>4, <1>6, <2>1
<1>7. ASSUME NEW n \in FurtherMoves(moves)
      PROVE  \/ \E f \in AddedInto(initialState) : \E p \in f.moves : n = <<f.t, p>>
             \/ \E m \in moves : /\ m[1].start \in Generated
                                 /\ \E f \in AddedInto(m[1].start) : \E p \in f.moves :
                                      p[1] = m[2][2] /\ n = <<f.t, <<m[2][1], p[2]>>>>
  <2>1. n \in first \/ n \in further
    BY <1>3
  <2>2. n \in first => \E f \in AddedInto(initialState) : \E p \in f.moves : n = <<f.t, p>>
    BY <1>1
  <2>3. ASSUME n \in further
        PROVE  \E m \in moves : /\ m[1].start \in Generated
                               /\ \E f \in AddedInto(m[1].start) : \E p \in f.moves :
                                    p[1] = m[2][2] /\ n = <<f.t, <<m[2][1], p[2]>>>>
    <3>1. PICK m \in moves : m[1].start \in Generated /\ n \in on(m)
      BY <1>4, <2>3
    <3>2. \E f \in AddedInto(m[1].start) : \E p \in f.moves :
             p[1] = m[2][2] /\ n = <<f.t, <<m[2][1], p[2]>>>>
      BY <1>2, <3>1
    <3> QED BY <3>1, <3>2
  <2> QED BY <2>1, <2>2, <2>3
<1> QED BY <1>5, <1>6, <1>7

\* One statement more leads from states to states, and further if there is more.
LEMMA FurtherTypes ==
    ASSUME TypeOK, NEW moves \in SUBSET (Transition \X Moved)
    PROVE  FurtherMoves(moves) \in SUBSET (Transition \X Moved)
<1>1. \A q : \A f \in AddedInto(q) : f.t \in Transition /\ f.moves \subseteq Moved
  BY SeedMoves DEF AddedInto, TypeOK
<1>2. ASSUME NEW n \in FurtherMoves(moves) PROVE n \in Transition \X Moved
  <2>1. CASE \E f \in AddedInto(initialState) : \E p \in f.moves : n = <<f.t, p>>
    BY <1>1, <2>1
  <2>2. CASE \E m \in moves : /\ m[1].start \in Generated
                              /\ \E f \in AddedInto(m[1].start) : \E p \in f.moves :
                                   p[1] = m[2][2] /\ n = <<f.t, <<m[2][1], p[2]>>>>
    <3>1. PICK m \in moves : \E f \in AddedInto(m[1].start) : \E p \in f.moves :
                               n = <<f.t, <<m[2][1], p[2]>>>>
      BY <2>2
    <3>2. PICK f \in AddedInto(m[1].start) : \E p \in f.moves : n = <<f.t, <<m[2][1], p[2]>>>>
      BY <3>1
    <3>3. PICK p \in f.moves : n = <<f.t, <<m[2][1], p[2]>>>>
      BY <3>2
    <3>4. m[2][1] \in TypeState
      BY DEF Moved
    <3>5. f.t \in Transition /\ p[2] \in TypeState
      BY <1>1 DEF Moved
    <3> QED BY <3>3, <3>4, <3>5 DEF Moved
  <2> QED BY <2>1, <2>2, FurtherCases
<1> QED BY <1>2

LEMMA FurtherGrows ==
    ASSUME NEW v, NEW w, v \subseteq w
    PROVE  FurtherMoves(v) \subseteq FurtherMoves(w)
<1>1. ASSUME NEW n \in FurtherMoves(v) PROVE n \in FurtherMoves(w)
  <2>1. CASE \E f \in AddedInto(initialState) : \E p \in f.moves : n = <<f.t, p>>
    BY <2>1, FurtherCases
  <2>2. CASE \E m \in v : /\ m[1].start \in Generated
                          /\ \E f \in AddedInto(m[1].start) : \E p \in f.moves :
                               p[1] = m[2][2] /\ n = <<f.t, <<m[2][1], p[2]>>>>
    <3>1. PICK m \in v : /\ m[1].start \in Generated
                         /\ \E f \in AddedInto(m[1].start) : \E p \in f.moves :
                              p[1] = m[2][2] /\ n = <<f.t, <<m[2][1], p[2]>>>>
      BY <2>2
    <3>2. m \in w
      OBVIOUS
    <3> QED BY <3>1, <3>2, FurtherCases
  <2> QED BY <2>1, <2>2, FurtherCases
<1> QED BY <1>1

\* StateMoves is the least set that is closed under one statement more.
LEMMA MovesLeast ==
    ASSUME TypeOK
    PROVE  LeastMoves
<1> DEFINE U == Transition \X Moved
           next == [x \in SUBSET U |-> x \cup FurtherMoves(x)]
<1>1. next \in [SUBSET U -> SUBSET U]
  BY FurtherTypes
<1>2. \A x \in SUBSET U : x \subseteq next[x]
  OBVIOUS
<1>3. \A x, y \in SUBSET U : x \subseteq y => next[x] \subseteq next[y]
  BY FurtherGrows
<1>4. \A x \in SUBSET U : next[x] = x <=> FurtherMoves(x) \subseteq x
  OBVIOUS
<1>5. \A S \in SUBSET U : next[S] \subseteq S <=> FurtherMoves(S) \subseteq S
  OBVIOUS
<1> DEFINE all(f) == [moves \in SUBSET (Transition \X (TypeState \X TypeState)) |->
                        IF FurtherMoves(moves) \subseteq moves THEN moves
                        ELSE f[moves \cup FurtherMoves(moves)]]
<1>6. \A f : Repeats(SUBSET U, next, f) <=> f = all(f)
  <2> SUFFICES ASSUME NEW f
               PROVE  [x \in SUBSET U |-> IF next[x] = x THEN x ELSE f[next[x]]] = all(f)
    <3> HIDE DEF all, next, U
    <3> QED BY DEF Repeats
  <2> QED BY DEF Moved
<1>7. IsFiniteSet(U)
  <2>1. IsFiniteSet(Moved)
    BY FinalStatesFinite, FS_Product DEF Moved
  <2> QED BY <2>1, FinalWeightsFinite, FS_Product
<1> HIDE DEF next
<1>8. /\ \E f : Repeats(SUBSET U, next, f)
      /\ \A f : Repeats(SUBSET U, next, f) => Closes(U, next, f)
  <2> HIDE DEF U
  <2>1. Expands(U, next)
    BY <1>1, <1>2, <1>3, <1>7 DEF Expands
  <2> QED BY <2>1, SetClosure
<1>9. Repeats(SUBSET U, next, MovesFrom)
  <2>1. \E f : Repeats(SUBSET U, next, f)
    BY <1>8
  <2> QED BY <1>6, <2>1, Zenon DEF MovesFrom
<1>10. /\ StateMoves \in SUBSET U /\ next[StateMoves] = StateMoves
       /\ \A S \in SUBSET U : next[S] \subseteq S => StateMoves \subseteq S
  <2> HIDE DEF U
  <2> QED BY <1>8, <1>9 DEF StateMoves, Closes
<1> QED BY <1>4, <1>5, <1>10 DEF LeastMoves

\* Pairs of states that a weight of t leads from and to, all of them on a way to t.
OnWays == {p \in Transition \X Weight :
             \A s \in TypeState : \A x \in Image(Transitions(p[2]), s) :
               <<p[1], <<s, x>>>> \in StateMoves}

\* The same for t itself: all of them of additions to t.
OnStep == {p \in Transition \X Weight :
             \A s \in TypeState : \A x \in Image(Transitions(p[2]), s) :
               \E f \in seeded : f.t = p[1] /\ <<s, x>> \in f.moves}

LEMMA InOnWays ==
    ASSUME NEW t, NEW w
    PROVE  /\ <<t, w>> \in OnWays <=>
                /\ t \in Transition /\ w \in Weight
                /\ \A s \in TypeState : \A x \in Image(Transitions(w), s) :
                     <<t, <<s, x>>>> \in StateMoves
           /\ <<t, w>> \in OnStep <=>
                /\ t \in Transition /\ w \in Weight
                /\ \A s \in TypeState : \A x \in Image(Transitions(w), s) :
                     \E f \in seeded : f.t = t /\ <<s, x>> \in f.moves
BY DEF OnWays, OnStep

LEMMA MovesBound ==
    ASSUME TypeOK, LeastMoves
    PROVE  Bounds(OnWays, OnStep)
<1>1. seeded \subseteq Seeds
  BY DEF TypeOK
<1>2. ASSUME NEW f \in seeded PROVE <<f.t, f.w>> \in OnStep
  <2>1. PICK t, w : t = f.t /\ w = f.w
    OBVIOUS
  <2>2. t \in Transition /\ w \in Weight
    BY <1>1, <2>1, SeedMoves
  <2>3. \A s \in TypeState : \A x \in Image(Transitions(w), s) : <<s, x>> \in f.moves
    BY <1>1, <2>1, SeedMoves
  <2>4. <<t, w>> \in OnStep
    BY <2>1, <2>2, <2>3, InOnWays
  <2> QED BY <2>1, <2>4
<1>3. ASSUME NEW t \in Transition, NEW v \in Weight, NEW w \in Weight
      PROVE  /\ <<t, v>> \in OnWays /\ <<t, w>> \in OnWays => <<t, Combine(v, w)>> \in OnWays
             /\ <<t, v>> \in OnStep /\ <<t, w>> \in OnStep => <<t, Combine(v, w)>> \in OnStep
  <2>1. Combine(v, w) \in Weight
    BY WeightTypes
  <2>2. \A s \in TypeState : Image(Transitions(Combine(v, w)), s) =
                               Image(Transitions(v), s) \cup Image(Transitions(w), s)
    BY ImageLaws
  <2>3. <<t, v>> \in OnWays /\ <<t, w>> \in OnWays => <<t, Combine(v, w)>> \in OnWays
    BY <2>1, <2>2, InOnWays
  <2>4. <<t, v>> \in OnStep /\ <<t, w>> \in OnStep => <<t, Combine(v, w)>> \in OnStep
    BY <2>1, <2>2, InOnWays
  <2> QED BY <2>3, <2>4
<1>4. ASSUME NEW t \in Transition, NEW w \in Weight,
             t.target = initialState, <<t, w>> \in OnStep
      PROVE  <<t, Extend(One, w)>> \in OnWays
  <2>1. One \in Weight /\ Extend(One, w) \in Weight
    BY WeightTypes
  <2>2. ASSUME NEW s \in TypeState, NEW x \in Image(Transitions(Extend(One, w)), s)
        PROVE  <<t, <<s, x>>>> \in StateMoves
    <3>1. x \in Image(Transitions(w), s)
      BY <2>1, <2>2, ImageLaws
    <3>2. PICK f \in seeded : f.t = t /\ <<s, x>> \in f.moves
      BY <1>4, <3>1, InOnWays
    <3>3. f \in AddedInto(initialState)
      BY <1>4, <3>2 DEF AddedInto
    <3>4. <<f.t, <<s, x>>>> \in FurtherMoves(StateMoves)
      BY <3>2, <3>3, FurtherCases
    <3> QED BY <3>2, <3>4 DEF LeastMoves
  <2> QED BY <2>1, <2>2, InOnWays
<1>5. ASSUME NEW u \in Transition, NEW t \in Transition, NEW v \in Weight, NEW w \in Weight,
             u.start \in Generated, t.target = u.start, <<u, v>> \in OnWays, <<t, w>> \in OnStep
      PROVE  <<t, Extend(v, w)>> \in OnWays
  <2>1. Extend(v, w) \in Weight
    BY WeightTypes
  <2>2. ASSUME NEW s \in TypeState, NEW x \in Image(Transitions(Extend(v, w)), s)
        PROVE  <<t, <<s, x>>>> \in StateMoves
    <3>1. PICK y \in Image(Transitions(v), s) : x \in Image(Transitions(w), y)
      BY <2>2, ImageLaws
    <3>2. y \in TypeState
      BY <3>1, ImageLaws
    <3>3. PICK f \in seeded : f.t = t /\ <<y, x>> \in f.moves
      BY <1>5, <3>1, <3>2, InOnWays
    <3>4. PICK m \in StateMoves : m = <<u, <<s, y>>>>
      BY <1>5, <3>1, InOnWays
    <3>5. m[1] = u /\ m[2][1] = s /\ m[2][2] = y
      BY <3>4
    <3>6. f \in AddedInto(m[1].start)
      BY <1>5, <3>3, <3>5 DEF AddedInto
    <3>7. PICK p \in f.moves : p = <<y, x>>
      BY <3>3
    <3>8. <<f.t, <<m[2][1], p[2]>>>> \in FurtherMoves(StateMoves)
      BY <1>5, <3>5, <3>6, <3>7, FurtherCases
    <3> QED BY <3>3, <3>5, <3>7, <3>8 DEF LeastMoves
  <2> QED BY <2>1, <2>2, InOnWays
<1>6. OnWays \subseteq Transition \X Weight /\ OnStep \subseteq Transition \X Weight
  BY DEF OnWays, OnStep
<1> QED BY <1>2, <1>3, <1>4, <1>5, <1>6 DEF Bounds

\* The pairs of states that the final weights lead from and to.
FinalMoves == {n \in Transition \X Moved :
                 /\ n[1] \in DOMAIN final
                 /\ n[2][2] \in Image(Transitions(final[n[1]]), n[2][1])}

LEMMA InFinalMoves ==
    ASSUME NEW t, NEW s, NEW x
    PROVE  <<t, <<s, x>>>> \in FinalMoves <=>
             /\ t \in Transition /\ s \in TypeState /\ x \in TypeState
             /\ t \in DOMAIN final /\ x \in Image(Transitions(final[t]), s)
BY DEF FinalMoves, Moved

LEMMA FinalMovesClosed ==
    ASSUME TypeOK, SeedsKept, IsSolution(final)
    PROVE  FurtherMoves(FinalMoves) \subseteq FinalMoves
<1>1. seeded \subseteq Seeds /\ IsMap(weight) /\ IsMap(final)
  BY DEF TypeOK
<1>2. ASSUME NEW q, NEW f \in AddedInto(q), NEW s \in TypeState, NEW x, <<s, x>> \in f.moves
      PROVE  /\ f.t \in Into(q) /\ weight[f.t] \in Weight
             /\ x \in TypeState /\ x \in Image(Transitions(weight[f.t]), s)
  <2>1. f \in seeded /\ f \in Seeds /\ f.t.target = q
    BY <1>1 DEF AddedInto
  <2>2. f.t \in DOMAIN weight /\ Below(f.w, weight[f.t])
    BY <2>1 DEF SeedsKept
  <2>3. weight[f.t] \in Weight /\ f.w \in Weight
    BY <1>1, <2>1, <2>2, SeedMoves DEF IsMap
  <2>4. x \in Image(Transitions(f.w), s)
    BY <1>2, <2>1, SeedMoves
  <2>5. Image(Transitions(f.w), s) \subseteq Image(Transitions(weight[f.t]), s)
    BY <2>2, <2>3, ImageLaws
  <2>6. x \in TypeState
    BY <2>3, <2>4, ImageLaws
  <2> QED BY <2>1, <2>2, <2>3, <2>4, <2>5, <2>6 DEF Into
<1>3. ASSUME NEW f \in AddedInto(initialState), NEW p \in f.moves
      PROVE  <<f.t, p>> \in FinalMoves
  <2>1. PICK s \in TypeState, x \in TypeState : p = <<s, x>>
    BY <1>1, SeedMoves DEF Moved, AddedInto
  <2>2. PICK t : t = f.t
    OBVIOUS
  <2>3. t \in Into(initialState) /\ weight[t] \in Weight /\ x \in Image(Transitions(weight[t]), s)
    BY <1>2, <2>1, <2>2
  <2>4. t \in DOMAIN final /\ Below(Extend(One, weight[t]), final[t])
    BY <2>3 DEF IsSolution
  <2>5. t \in Transition /\ final[t] \in Weight /\ One \in Weight /\ Extend(One, weight[t]) \in Weight
    BY <1>1, <2>3, <2>4, WeightTypes DEF IsMap
  <2>6. x \in Image(Transitions(Extend(One, weight[t])), s)
    BY <2>3, <2>5, ImageLaws
  <2>7. x \in Image(Transitions(final[t]), s)
    BY <2>4, <2>5, <2>6, ImageLaws
  <2>8. <<t, <<s, x>>>> \in FinalMoves
    BY <2>4, <2>5, <2>7, InFinalMoves
  <2> QED BY <2>1, <2>2, <2>8
<1>4. ASSUME NEW m \in FinalMoves, m[1].start \in Generated, NEW f \in AddedInto(m[1].start),
             NEW p \in f.moves, p[1] = m[2][2]
      PROVE  <<f.t, <<m[2][1], p[2]>>>> \in FinalMoves
  <2>1. PICK u \in Transition, s \in TypeState, y \in TypeState : m = <<u, <<s, y>>>>
    BY DEF FinalMoves, Moved
  <2>2. m[1] = u /\ m[2][1] = s /\ m[2][2] = y
    BY <2>1
  <2>3. u \in DOMAIN final /\ y \in Image(Transitions(final[u]), s) /\ u.start \in Generated
    BY <1>4, <2>1, <2>2, InFinalMoves
  <2>4. PICK x : p = <<y, x>>
    BY <1>1, <1>4, <2>2, SeedMoves DEF Moved, AddedInto
  <2>5. PICK t : t = f.t
    OBVIOUS
  <2>6. /\ t \in Into(u.start) /\ weight[t] \in Weight
        /\ x \in TypeState /\ x \in Image(Transitions(weight[t]), y)
    BY <1>2, <1>4, <2>2, <2>4, <2>5
  <2>7. t \in DOMAIN final /\ Below(Extend(final[u], weight[t]), final[t])
    BY <2>3, <2>6 DEF IsSolution
  <2>8. /\ t \in Transition /\ final[t] \in Weight /\ final[u] \in Weight
        /\ Extend(final[u], weight[t]) \in Weight
    BY <1>1, <2>3, <2>6, <2>7, WeightTypes DEF IsMap
  <2>9. x \in Image(Transitions(Extend(final[u], weight[t])), s)
    BY <2>3, <2>6, <2>8, ImageLaws
  <2>10. x \in Image(Transitions(final[t]), s)
    BY <2>7, <2>8, <2>9, ImageLaws
  <2>11. <<t, <<s, x>>>> \in FinalMoves
    BY <2>6, <2>7, <2>8, <2>10, InFinalMoves
  <2>12. <<f.t, <<m[2][1], p[2]>>>> = <<t, <<s, x>>>>
    BY <2>2, <2>4, <2>5
  <2> QED BY <2>11, <2>12
<1>5. ASSUME NEW n \in FurtherMoves(FinalMoves) PROVE n \in FinalMoves
  <2>1. CASE \E f \in AddedInto(initialState) : \E p \in f.moves : n = <<f.t, p>>
    BY <1>3, <2>1
  <2>2. CASE \E m \in FinalMoves : /\ m[1].start \in Generated
                                   /\ \E f \in AddedInto(m[1].start) : \E p \in f.moves :
                                        p[1] = m[2][2] /\ n = <<f.t, <<m[2][1], p[2]>>>>
    BY <1>4, <2>2
  <2> QED BY <2>1, <2>2, FurtherCases
<1> QED BY <1>5

LEMMA FinalLeads ==
    ASSUME FinalInv, Heeded, Followed, Idle, listeners # {},
           NEW t \in DOMAIN final, NEW s \in TypeState
    PROVE  Image(Transitions(final[t]), s) =
             {m[2][2] : m \in {n \in StateMoves : n[1] = t /\ n[2][1] = s}}
<1>1. TypeOK /\ SeedsKept /\ IsSolution(final) /\ LeastMoves
  BY AtRest, MovesLeast DEF FinalInv
<1>2. t \in Transition /\ final[t] \in Weight
  BY <1>1 DEF TypeOK, IsMap
<1>3. ASSUME NEW x \in Image(Transitions(final[t]), s) PROVE <<t, <<s, x>>>> \in StateMoves
  <2>1. <<t, final[t]>> \in OnWays
    BY <1>1, MovesBound DEF Followed, Within
  <2> QED BY <2>1, InOnWays
<1>4. ASSUME NEW n \in StateMoves, n[1] = t, n[2][1] = s
      PROVE  n[2][2] \in Image(Transitions(final[t]), s)
  <2>1. StateMoves \subseteq FinalMoves
    BY <1>1, FinalMovesClosed DEF LeastMoves, FinalMoves
  <2>2. n \in FinalMoves
    BY <2>1
  <2> QED BY <1>4, <2>2 DEF FinalMoves
<1>5. ASSUME NEW x
      PROVE  x \in Image(Transitions(final[t]), s)
               <=> \E n \in StateMoves : n[1] = t /\ n[2][1] = s /\ n[2][2] = x
  <2>1. ASSUME x \in Image(Transitions(final[t]), s)
        PROVE  \E n \in StateMoves : n[1] = t /\ n[2][1] = s /\ n[2][2] = x
    <3>1. PICK n \in StateMoves : n = <<t, <<s, x>>>>
      BY <1>3, <2>1
    <3> QED BY <3>1
  <2> QED BY <1>4, <2>1
<1> QED BY <1>5

\* When all calls have returned and the weights were asked for, the typestates that
\* a final weight leads an object to are those that the statements along the ways
\* lead it to, one after the other, for every program and every state machine and
\* in whatever order the automaton grew.  (extendWith, combineWith, onInTransitionAdded)
THEOREM FinalLeadsExactly == Spec => []FinalStatesExact
<1>1. CombineLaws
  BY TypestateLaws
<1>2. FinalInv /\ Heeded /\ Followed => FinalStatesExact
  BY FinalLeads DEF FinalStatesExact
<1>3. Spec => [](FinalInv /\ Heeded /\ Followed)
  BY <1>1, FinalInvariant
<1> QED BY <1>2, <1>3, PTL

\* A typestate analysis has such a domain: its final weights are the combined
\* weights of the ways, no further condition.  (TransitionFunction, onInTransitionAdded)
THEOREM TypestatesCombined == Spec => []FinalWeightsExact
BY TypestateLaws, FinalIsCombined
=============================================================================
