-------------------------- MODULE CallStack_proofs --------------------------
(***************************************************************************)
(* Facts about the call stack: what is pending, and in which loops, after  *)
(* a call was taken from the innermost loop, loops were pushed, or a loop  *)
(* has ended.                                                              *)
(***************************************************************************)
EXTENDS CallStack, SequenceTheorems, FiniteSetTheorems, TLAPS

\* A call that is pending is in one loop only.
Once(d) == \A i, j \in DOMAIN agenda : d \in agenda[i] /\ d \in agenda[j] => i = j

(***************************************************************************)
(* The loops after a step.                                                 *)
(***************************************************************************)
LEMMA PushLoops ==
    ASSUME NEW S, NEW a \in Seq(S), a # <<>>, NEW x \in S, NEW body \in Seq(S)
    PROVE  LET b == body \o <<x>> \o Tail(a)
           IN  /\ b \in Seq(S)
               /\ Len(b) = Len(body) + Len(a)
               /\ \A i \in 1..Len(body) : b[i] = body[i]
               /\ b[Len(body) + 1] = x
               /\ \A i \in 2..Len(a) : b[i + Len(body)] = a[i]
<1> DEFINE mid == <<x>>
           front == body \o mid
           b == front \o Tail(a)
<1>1. mid \in Seq(S) /\ Len(mid) = 1 /\ mid[1] = x
  OBVIOUS
<1>2. Len(body) \in Nat /\ Len(a) \in Nat /\ Len(a) >= 1
  OBVIOUS
<1> HIDE DEF mid
<1>3. /\ front \in Seq(S) /\ Len(front) = Len(body) + Len(mid)
      /\ \A i \in 1..(Len(body) + Len(mid)) :
           front[i] = IF i <= Len(body) THEN body[i] ELSE mid[i - Len(body)]
  BY <1>1, ConcatProperties
<1> DEFINE tl == Tail(a)
<1>4. /\ tl \in Seq(S) /\ Len(tl) = Len(a) - 1
      /\ \A i \in 1..Len(tl) : tl[i] = a[i + 1]
  BY HeadTailProperties
<1>10. front \in Seq(S) /\ tl \in Seq(S)
  BY <1>3, <1>4
<1> HIDE DEF front, tl
<1>5. /\ b \in Seq(S) /\ Len(b) = Len(front) + Len(tl)
      /\ \A i \in 1..(Len(front) + Len(tl)) :
           b[i] = IF i <= Len(front) THEN front[i] ELSE tl[i - Len(front)]
  <2>1. b = front \o tl
    BY DEF tl
  <2> QED BY <1>10, <2>1, ConcatProperties
<1> HIDE DEF b
<1>6. Len(b) = Len(body) + Len(a)
  BY <1>1, <1>2, <1>3, <1>4, <1>5
<1>7. ASSUME NEW i \in 1..Len(body) PROVE b[i] = body[i]
  <2>1. i \in 1..(Len(front) + Len(tl)) /\ i <= Len(front)
        /\ i \in 1..(Len(body) + Len(mid)) /\ i <= Len(body)
    BY <1>1, <1>2, <1>3, <1>4
  <2>2. b[i] = front[i] /\ front[i] = body[i]
    BY <2>1, <1>3, <1>5
  <2> QED BY <2>2
<1>8. b[Len(body) + 1] = x
  <2> DEFINE k == Len(body) + 1
  <2>1. k \in 1..(Len(front) + Len(tl)) /\ k <= Len(front)
        /\ k \in 1..(Len(body) + Len(mid)) /\ ~(k <= Len(body)) /\ k - Len(body) = 1
    BY <1>1, <1>2, <1>3, <1>4
  <2> HIDE DEF k
  <2>2. b[k] = front[k] /\ front[k] = mid[1]
    BY <2>1, <1>3, <1>5
  <2>3. b[k] = x
    BY <2>2, <1>1
  <2> QED BY <2>3 DEF k
<1>9. ASSUME NEW i \in 2..Len(a) PROVE b[i + Len(body)] = a[i]
  <2> DEFINE k == i + Len(body)
  <2>1. k \in 1..(Len(front) + Len(tl)) /\ ~(k <= Len(front)) /\ k - Len(front) = i - 1
        /\ i - 1 \in 1..Len(tl) /\ (i - 1) + 1 = i
    BY <1>1, <1>2, <1>3, <1>4
  <2> HIDE DEF k
  <2>2. b[k] = tl[k - Len(front)] /\ tl[i - 1] = a[(i - 1) + 1]
    BY <2>1, <1>4, <1>5
  <2>3. b[k] = a[i]
    BY <2>1, <2>2
  <2> QED BY <2>3 DEF k
<1> QED BY <1>5, <1>6, <1>7, <1>8, <1>9 DEF b, front, mid, tl

\* agenda' is agenda without c, behind the loops of `body'.
Stacked(c, body) ==
    /\ \A i \in DOMAIN body : i \in DOMAIN agenda' /\ agenda'[i] = body[i]
    /\ \A i \in DOMAIN agenda :
         /\ i + Len(body) \in DOMAIN agenda'
         /\ agenda'[i + Len(body)] = IF i = 1 THEN agenda[1] \ {c} ELSE agenda[i]
    /\ \A i \in DOMAIN agenda' :
         i \in DOMAIN body \/ \E k \in DOMAIN agenda : i = k + Len(body)

LEMMA ReturnStack ==
    ASSUME NEW C, agenda \in Seq(SUBSET C), NEW c \in Innermost,
           NEW body \in Seq(SUBSET C), Return(c, body)
    PROVE  /\ agenda' \in Seq(SUBSET C) /\ Stacked(c, body)
           /\ c \in C /\ 1 \in DOMAIN agenda /\ c \in agenda[1]
<1> DEFINE S == SUBSET C
           x == agenda[1] \ {c}
<1>1. agenda # <<>> /\ c \in Head(agenda) /\ Head(agenda) = agenda[1]
      /\ agenda[1] \in SUBSET C
  BY DEF Innermost
<1>2. x \in S /\ agenda \in Seq(S) /\ body \in Seq(S)
  BY <1>1
<1>3. agenda' = body \o <<x>> \o Tail(agenda)
  BY <1>1 DEF Return
<1> HIDE DEF S, x
<1>4. /\ agenda' \in Seq(S)
      /\ Len(agenda') = Len(body) + Len(agenda)
      /\ \A i \in 1..Len(body) : agenda'[i] = body[i]
      /\ agenda'[Len(body) + 1] = x
      /\ \A i \in 2..Len(agenda) : agenda'[i + Len(body)] = agenda[i]
  BY <1>1, <1>2, <1>3, PushLoops
<1>5. Len(body) \in Nat /\ Len(agenda) \in Nat /\ Len(agenda) >= 1
      /\ DOMAIN agenda = 1..Len(agenda) /\ DOMAIN body = 1..Len(body)
      /\ DOMAIN agenda' = 1..Len(agenda')
  BY <1>2, <1>1, <1>4
<1>6. ASSUME NEW i \in DOMAIN agenda
      PROVE  /\ i + Len(body) \in DOMAIN agenda'
             /\ agenda'[i + Len(body)] = IF i = 1 THEN x ELSE agenda[i]
  <2>1. i = 1 => i + Len(body) = Len(body) + 1
    BY <1>5
  <2>2. i # 1 => i \in 2..Len(agenda)
    BY <1>5
  <2>3. i + Len(body) \in 1..Len(agenda')
    BY <1>4, <1>5
  <2> QED BY <2>1, <2>2, <2>3, <1>4, <1>5
<1>7. \A i \in DOMAIN body : i \in DOMAIN agenda' /\ agenda'[i] = body[i]
  BY <1>4, <1>5
<1>8. \A i \in DOMAIN agenda' :
         i \in DOMAIN body \/ \E k \in DOMAIN agenda : i = k + Len(body)
  <2>1. ASSUME NEW i \in DOMAIN agenda', i \notin DOMAIN body
        PROVE  \E k \in DOMAIN agenda : i = k + Len(body)
    <3>1. i - Len(body) \in DOMAIN agenda /\ i = (i - Len(body)) + Len(body)
      BY <1>4, <1>5, <2>1
    <3> QED BY <3>1
  <2> QED BY <2>1
<1>9. agenda' \in Seq(SUBSET C)
  BY <1>4 DEF S
<1>10. \A i \in DOMAIN agenda :
         /\ i + Len(body) \in DOMAIN agenda'
         /\ agenda'[i + Len(body)] = IF i = 1 THEN agenda[1] \ {c} ELSE agenda[i]
  BY <1>6 DEF x
<1>11. 1 \in DOMAIN agenda /\ c \in agenda[1] /\ c \in C
  BY <1>1, <1>5
<1> QED BY <1>7, <1>8, <1>9, <1>10, <1>11 DEF Stacked

\* What is pending after a call has returned with the loops of `body'.
LEMMA PendingAfter ==
    ASSUME NEW c, NEW body, Stacked(c, body)
    PROVE  /\ \A d : Pending(d) /\ d # c => Pending(d)'
           /\ \A i \in DOMAIN body : \A d \in body[i] : Pending(d)'
<1>1. /\ \A i \in DOMAIN body : i \in DOMAIN agenda' /\ agenda'[i] = body[i]
      /\ \A i \in DOMAIN agenda :
           /\ i + Len(body) \in DOMAIN agenda'
           /\ agenda'[i + Len(body)] = IF i = 1 THEN agenda[1] \ {c} ELSE agenda[i]
  BY DEF Stacked
<1>2. ASSUME NEW d, Pending(d), d # c PROVE Pending(d)'
  <2>1. PICK i \in DOMAIN agenda : d \in agenda[i]
    BY <1>2 DEF Pending
  <2> DEFINE k == i + Len(body)
  <2>2. k \in DOMAIN agenda' /\ agenda'[k] = IF i = 1 THEN agenda[1] \ {c} ELSE agenda[i]
    BY <1>1
  <2> HIDE DEF k
  <2>3. d \in agenda'[k]
    BY <2>1, <2>2, <1>2
  <2> QED BY <2>2, <2>3 DEF Pending
<1>3. ASSUME NEW i \in DOMAIN body, NEW d \in body[i] PROVE Pending(d)'
  BY <1>1 DEF Pending
<1> QED BY <1>2, <1>3

\* Each loop of agenda' is one of body or one of agenda, without c if innermost.
LEMMA LoopAfter ==
    ASSUME NEW c, NEW body, Stacked(c, body), NEW i \in DOMAIN agenda'
    PROVE  \/ i \in DOMAIN body /\ agenda'[i] = body[i]
           \/ \E k \in DOMAIN agenda :
                /\ i = k + Len(body)
                /\ agenda'[i] \subseteq agenda[k]
                /\ k = 1 => c \notin agenda'[i]
<1>1. CASE i \in DOMAIN body
  BY <1>1 DEF Stacked
<1>2. CASE i \notin DOMAIN body
  <2>1. PICK k \in DOMAIN agenda : i = k + Len(body)
    BY <1>2 DEF Stacked
  <2>2. agenda'[i] = IF k = 1 THEN agenda[1] \ {c} ELSE agenda[k]
    BY <2>1 DEF Stacked
  <2> QED BY <2>1, <2>2
<1> QED BY <1>1, <1>2

LEMMA PendingBefore ==
    ASSUME NEW c, NEW body, Stacked(c, body), NEW d, Pending(d)'
    PROVE  Pending(d) \/ \E i \in DOMAIN body : d \in body[i]
<1>1. PICK i \in DOMAIN agenda' : d \in agenda'[i]
  BY DEF Pending
<1> QED BY <1>1, LoopAfter DEF Pending

LEMMA OnceAfter ==
    ASSUME NEW c, NEW body, Stacked(c, body),
           NEW d, Once(d),
           \A i \in DOMAIN body : d \in body[i] => i = 1 /\ ~Pending(d)
    PROVE  Once(d)'
<1> SUFFICES ASSUME NEW i \in DOMAIN agenda', NEW j \in DOMAIN agenda',
                    d \in agenda'[i], d \in agenda'[j]
             PROVE  i = j
  BY DEF Once
<1>1. \/ i \in DOMAIN body /\ d \in body[i]
      \/ \E k \in DOMAIN agenda : i = k + Len(body) /\ d \in agenda[k]
  BY LoopAfter
<1>2. \/ j \in DOMAIN body /\ d \in body[j]
      \/ \E k \in DOMAIN agenda : j = k + Len(body) /\ d \in agenda[k]
  BY LoopAfter
<1>3. CASE \E n \in DOMAIN body : d \in body[n]
  BY <1>1, <1>2, <1>3 DEF Pending
<1>4. CASE ~\E n \in DOMAIN body : d \in body[n]
  BY <1>1, <1>2, <1>4 DEF Once
<1> QED BY <1>3, <1>4

LEMMA PushedStack ==
    ASSUME NEW C, agenda \in Seq(SUBSET C), NEW body \in Seq(SUBSET C),
           agenda' = body \o agenda, NEW c, c \notin C
    PROVE  agenda' \in Seq(SUBSET C) /\ Stacked(c, body)
<1> DEFINE S == SUBSET C
<1>1. agenda \in Seq(S) /\ body \in Seq(S)
  OBVIOUS
<1> HIDE DEF S
<1>2. /\ agenda' \in Seq(S) /\ Len(agenda') = Len(body) + Len(agenda)
      /\ \A i \in 1..(Len(body) + Len(agenda)) :
           agenda'[i] = IF i <= Len(body) THEN body[i] ELSE agenda[i - Len(body)]
  BY <1>1, ConcatProperties
<1>3. Len(body) \in Nat /\ Len(agenda) \in Nat
      /\ DOMAIN agenda = 1..Len(agenda) /\ DOMAIN body = 1..Len(body)
      /\ DOMAIN agenda' = 1..(Len(body) + Len(agenda))
  BY <1>1, <1>2
<1>4. ASSUME NEW i \in DOMAIN body PROVE i \in DOMAIN agenda' /\ agenda'[i] = body[i]
  BY <1>2, <1>3
<1>5. ASSUME NEW i \in DOMAIN agenda
      PROVE  /\ i + Len(body) \in DOMAIN agenda'
             /\ agenda'[i + Len(body)] = IF i = 1 THEN agenda[1] \ {c} ELSE agenda[i]
  <2> DEFINE k == i + Len(body)
  <2>1. k \in DOMAIN agenda' /\ ~(k <= Len(body)) /\ k - Len(body) = i
    BY <1>3
  <2> HIDE DEF k
  <2>2. agenda'[k] = agenda[i]
    BY <1>2, <1>3, <2>1
  <2>3. agenda[i] \subseteq C
    BY <1>1 DEF S
  <2> QED BY <2>1, <2>2, <2>3 DEF k
<1>6. ASSUME NEW i \in DOMAIN agenda', i \notin DOMAIN body
      PROVE  \E k \in DOMAIN agenda : i = k + Len(body)
  <2>1. i - Len(body) \in DOMAIN agenda /\ i = (i - Len(body)) + Len(body)
    BY <1>3, <1>6
  <2> QED BY <2>1
<1>7. agenda' \in Seq(SUBSET C)
  BY <1>2 DEF S
<1> QED BY <1>4, <1>5, <1>6, <1>7 DEF Stacked

\* The loop goes on with c: the loops of `body' are pushed, as if a call d that
\* is not there had returned.
LEMMA ResumedStack ==
    ASSUME NEW C, agenda \in Seq(SUBSET C), NEW c \in Innermost,
           NEW body \in Seq(SUBSET C), Resume(c, body, c), NEW d, d \notin C
    PROVE  agenda' \in Seq(SUBSET C) /\ Stacked(d, body) /\ c \in C
<1> DEFINE S == SUBSET C
<1>1. agenda \in Seq(S) /\ body \in Seq(S) /\ agenda # <<>> /\ c \in Head(agenda)
      /\ Head(agenda) = agenda[1]
  BY DEF Innermost
<1>2. (Head(agenda) \ {c}) \cup {c} = Head(agenda)
  BY <1>1
<1>3. agenda' = body \o <<Head(agenda)>> \o Tail(agenda)
  BY <1>2 DEF Resume
<1>4. agenda = <<Head(agenda)>> \o Tail(agenda) /\ Head(agenda) \in S /\ Tail(agenda) \in Seq(S)
      /\ <<Head(agenda)>> \in Seq(S)
  BY <1>1
<1>7. c \in C
  BY <1>1
<1> HIDE DEF S
<1>5. body \o <<Head(agenda)>> \o Tail(agenda) = body \o (<<Head(agenda)>> \o Tail(agenda))
  BY <1>1, <1>4, ConcatAssociative
<1>6. agenda' = body \o agenda
  BY <1>3, <1>4, <1>5
<1> QED BY <1>6, <1>7, PushedStack

LEMMA LoopTypes ==
    ASSUME NEW C
    PROVE  /\ <<>> \in Seq(SUBSET C)
           /\ \A A \in SUBSET C : <<A>> \in Seq(SUBSET C)
           /\ \A A \in SUBSET C, B \in SUBSET C : <<A, B>> \in Seq(SUBSET C)
           /\ \A A \in SUBSET C, B \in SUBSET C, D \in SUBSET C :
                <<A, B, D>> \in Seq(SUBSET C)
OBVIOUS

LEMMA EndedStack ==
    ASSUME NEW C, agenda \in Seq(SUBSET C), LoopEnds
    PROVE  /\ agenda' \in Seq(SUBSET C) /\ DOMAIN agenda' \subseteq Nat
           /\ \A i \in DOMAIN agenda' : i + 1 \in DOMAIN agenda /\ agenda'[i] = agenda[i + 1]
           /\ \A i \in DOMAIN agenda :
                agenda[i] # {} => \E k \in DOMAIN agenda' : i = k + 1
<1> DEFINE S == SUBSET C
<1>1. agenda \in Seq(S) /\ agenda # <<>> /\ agenda' = Tail(agenda) /\ agenda[1] = {}
  BY DEF LoopEnds
<1> HIDE DEF S
<1>2. /\ agenda' \in Seq(S) /\ Len(agenda') = Len(agenda) - 1
      /\ \A i \in 1..Len(agenda') : agenda'[i] = agenda[i + 1]
  BY <1>1, HeadTailProperties
<1>3. Len(agenda) \in Nat /\ Len(agenda) >= 1 /\ Len(agenda') \in Nat
      /\ DOMAIN agenda = 1..Len(agenda) /\ DOMAIN agenda' = 1..Len(agenda')
  BY <1>1, <1>2
<1>4. ASSUME NEW i \in DOMAIN agenda'
      PROVE  i + 1 \in DOMAIN agenda /\ agenda'[i] = agenda[i + 1]
  BY <1>2, <1>3
<1>5. ASSUME NEW i \in DOMAIN agenda, agenda[i] # {}
      PROVE  \E k \in DOMAIN agenda' : i = k + 1
  <2>1. i # 1
    BY <1>1, <1>5
  <2>2. i - 1 \in DOMAIN agenda' /\ i = (i - 1) + 1
    BY <1>2, <1>3, <2>1
  <2> QED BY <2>2
<1>6. agenda' \in Seq(SUBSET C)
  BY <1>2 DEF S
<1>7. DOMAIN agenda' \subseteq Nat
  BY <1>3
<1> QED BY <1>4, <1>5, <1>6, <1>7

(***************************************************************************)
(* One call d after a step.                                                *)
(***************************************************************************)
LEMMA CallKept ==
    ASSUME NEW c, NEW body, Stacked(c, body), NEW d, d # c,
           \A i \in DOMAIN body : d \notin body[i]
    PROVE  (Pending(d)' <=> Pending(d)) /\ (Once(d) => Once(d)')
<1>1. Pending(d) => Pending(d)'
  BY PendingAfter
<1>2. ASSUME NEW i \in DOMAIN agenda', d \in agenda'[i]
      PROVE  \E k \in DOMAIN agenda : i = k + Len(body) /\ d \in agenda[k]
  BY <1>2, LoopAfter
<1>3. Pending(d)' => Pending(d)
  BY <1>2 DEF Pending
<1>4. ASSUME Once(d), NEW i \in DOMAIN agenda', NEW j \in DOMAIN agenda',
             d \in agenda'[i], d \in agenda'[j]
      PROVE  i = j
  BY <1>2, <1>4 DEF Once
<1> QED BY <1>1, <1>3, <1>4 DEF Once

LEMMA CallTaken ==
    ASSUME NEW d, NEW body, Stacked(d, body), 1 \in DOMAIN agenda, d \in agenda[1], Once(d),
           \A i \in DOMAIN body : d \notin body[i]
    PROVE  ~Pending(d)' /\ Once(d)'
<1>1. ASSUME NEW i \in DOMAIN agenda', d \in agenda'[i] PROVE FALSE
  <2>1. PICK k \in DOMAIN agenda : /\ agenda'[i] \subseteq agenda[k]
                                   /\ k = 1 => d \notin agenda'[i]
    BY <1>1, LoopAfter
  <2>2. k = 1
    BY <1>1, <2>1 DEF Once
  <2> QED BY <1>1, <2>1, <2>2
<1> QED BY <1>1 DEF Pending, Once

LEMMA CallMade ==
    ASSUME NEW c, NEW body, Stacked(c, body), NEW d, ~Pending(d),
           NEW n \in DOMAIN body, d \in body[n],
           \A i \in DOMAIN body : d \in body[i] => i = n
    PROVE  Pending(d)' /\ Once(d)'
<1>1. Pending(d)'
  BY PendingAfter
<1>2. ASSUME NEW i \in DOMAIN agenda', d \in agenda'[i] PROVE i = n
  <2>1. ~\E k \in DOMAIN agenda : agenda'[i] \subseteq agenda[k]
    BY <1>2 DEF Pending
  <2>2. i \in DOMAIN body /\ agenda'[i] = body[i]
    BY <2>1, LoopAfter
  <2> QED BY <1>2, <2>2
<1> QED BY <1>1, <1>2 DEF Once

LEMMA CallKeptAtEnd ==
    ASSUME NEW C, agenda \in Seq(SUBSET C), LoopEnds, NEW d
    PROVE  (Pending(d)' <=> Pending(d)) /\ (Once(d) => Once(d)')
<1>1. /\ \A i \in DOMAIN agenda' : i + 1 \in DOMAIN agenda /\ agenda'[i] = agenda[i + 1]
      /\ \A i \in DOMAIN agenda :
           agenda[i] # {} => \E k \in DOMAIN agenda' : i = k + 1
      /\ DOMAIN agenda' \subseteq Nat
  BY EndedStack
<1>2. Pending(d)' => Pending(d)
  BY <1>1 DEF Pending
<1>3. ASSUME NEW i \in DOMAIN agenda, d \in agenda[i] PROVE Pending(d)'
  <2>1. PICK k \in DOMAIN agenda' : i = k + 1
    BY <1>1, <1>3
  <2>2. d \in agenda'[k]
    BY <1>1, <1>3, <2>1
  <2> QED BY <2>2 DEF Pending
<1>4. ASSUME Once(d), NEW i \in DOMAIN agenda', NEW j \in DOMAIN agenda',
             d \in agenda'[i], d \in agenda'[j]
      PROVE  i = j
  <2>1. i + 1 = j + 1
    BY <1>1, <1>4 DEF Once
  <2> QED BY <2>1, <1>1
<1> QED BY <1>2, <1>3, <1>4 DEF Once, Pending

(***************************************************************************)
(* Calls that a call e is made before.                                     *)
(***************************************************************************)
\* Every loop with d is behind a loop with e.
Behind(d, e) ==
    \A i \in DOMAIN agenda :
      d \in agenda[i] => \E j \in DOMAIN agenda : j < i /\ e \in agenda[j]

LEMMA BehindKept ==
    ASSUME NEW c, NEW body, Stacked(c, body), Len(body) \in Nat, DOMAIN agenda \subseteq Nat,
           NEW d, NEW e, Behind(d, e), e # c,
           \A i \in DOMAIN body :
             d \in body[i] => \E j \in DOMAIN body : j < i /\ e \in body[j]
    PROVE  Behind(d, e)'
<1>1. Len(body) \in Nat /\ DOMAIN agenda \subseteq Nat
  OBVIOUS
<1>2. ASSUME NEW i \in DOMAIN agenda', d \in agenda'[i]
      PROVE  \E j \in DOMAIN agenda' : j < i /\ e \in agenda'[j]
  <2>1. CASE i \in DOMAIN body /\ agenda'[i] = body[i]
    <3>1. PICK j \in DOMAIN body : j < i /\ e \in body[j]
      BY <1>2, <2>1
    <3>2. j \in DOMAIN agenda' /\ agenda'[j] = body[j]
      BY DEF Stacked
    <3> QED BY <3>1, <3>2
  <2>2. CASE \E k \in DOMAIN agenda : i = k + Len(body) /\ agenda'[i] \subseteq agenda[k]
    <3>1. PICK k \in DOMAIN agenda : i = k + Len(body) /\ agenda'[i] \subseteq agenda[k]
      BY <2>2
    <3>2. PICK j \in DOMAIN agenda : j < k /\ e \in agenda[j]
      BY <1>2, <3>1 DEF Behind
    <3> DEFINE m == j + Len(body)
    <3>3. m \in DOMAIN agenda' /\ agenda'[m] = IF j = 1 THEN agenda[1] \ {c} ELSE agenda[j]
      BY DEF Stacked
    <3>4. m < i
      BY <1>1, <3>1, <3>2
    <3> HIDE DEF m
    <3>5. e \in agenda'[m]
      BY <3>2, <3>3
    <3> QED BY <3>3, <3>4, <3>5
  <2> QED BY <2>1, <2>2, LoopAfter
<1> QED BY <1>2 DEF Behind

LEMMA BehindKeptAtEnd ==
    ASSUME NEW C, agenda \in Seq(SUBSET C), LoopEnds, NEW d, NEW e, Behind(d, e)
    PROVE  Behind(d, e)'
<1>1. /\ \A i \in DOMAIN agenda' : i + 1 \in DOMAIN agenda /\ agenda'[i] = agenda[i + 1]
      /\ \A i \in DOMAIN agenda :
           agenda[i] # {} => \E k \in DOMAIN agenda' : i = k + 1
      /\ DOMAIN agenda' \subseteq Nat
  BY EndedStack
<1>2. ASSUME NEW i \in DOMAIN agenda', d \in agenda'[i]
      PROVE  \E j \in DOMAIN agenda' : j < i /\ e \in agenda'[j]
  <2>1. PICK j \in DOMAIN agenda : j < i + 1 /\ e \in agenda[j]
    BY <1>1, <1>2 DEF Behind
  <2>2. PICK k \in DOMAIN agenda' : j = k + 1
    BY <1>1, <2>1
  <2>3. k < i /\ e \in agenda'[k]
    BY <1>1, <2>1, <2>2
  <2> QED BY <2>3
<1> QED BY <1>2 DEF Behind

LEMMA FirstNotBehind ==
    ASSUME NEW C, agenda \in Seq(SUBSET C), NEW c \in Innermost, NEW e
    PROVE  ~Behind(c, e)
<1>1. 1 \in DOMAIN agenda /\ c \in agenda[1] /\ DOMAIN agenda = 1..Len(agenda)
  BY DEF Innermost
<1>2. ~\E j \in DOMAIN agenda : j < 1
  BY <1>1
<1> QED BY <1>1, <1>2 DEF Behind

(***************************************************************************)
(* The calls on the stack after a step, as one set.                        *)
(***************************************************************************)
\* c is made and leaves the stack, the calls in `made' join it.
Moves(c, made) ==
    /\ Waiting \ {c} \subseteq Waiting'
    /\ made \subseteq Waiting'
    /\ Waiting' \subseteq Waiting \cup made

LEMMA PendingMoves ==
    ASSUME NEW c, NEW made, Moves(c, made)
    PROVE  /\ \A d : Pending(d) /\ d # c => Pending(d)'
           /\ \A d \in made : Pending(d)'
           /\ \A d : Pending(d)' => Pending(d) \/ d \in made
<1>1. \A d : Pending(d) <=> d \in Waiting
  BY DEF Pending, Waiting
<1>2. \A d : Pending(d)' <=> d \in Waiting'
  BY DEF Pending, Waiting
<1> QED BY <1>1, <1>2 DEF Moves

LEMMA StackedMoves ==
    ASSUME NEW c, NEW body, Stacked(c, body), NEW made,
           \A d : d \in made <=> \E i \in DOMAIN body : d \in body[i]
    PROVE  Moves(c, made)
<1>1. \A d : Pending(d) <=> d \in Waiting
  BY DEF Pending, Waiting
<1>2. \A d : Pending(d)' <=> d \in Waiting'
  BY DEF Pending, Waiting
<1> QED BY <1>1, <1>2, PendingAfter, PendingBefore DEF Moves

LEMMA WaitingAfter ==
    ASSUME NEW C, agenda \in Seq(SUBSET C), NEW c \in Innermost,
           NEW body \in Seq(SUBSET C), NEW loop \in SUBSET C,
           agenda' = body \o <<loop>> \o Tail(agenda),
           NEW made, Head(agenda) \ {c} \subseteq loop,
           loop \subseteq Head(agenda) \cup made,
           \A d \in made : d \in loop \/ \E i \in DOMAIN body : d \in body[i],
           \A i \in DOMAIN body : body[i] \subseteq made
    PROVE  Moves(c, made)
<1> DEFINE n == Len(body)
<1>1. agenda # <<>> /\ Len(agenda) \in Nat /\ Len(agenda) >= 1
      /\ Head(agenda) = agenda[1]
  BY DEF Innermost
<1>2. n \in Nat
  OBVIOUS
<1>3. /\ agenda' \in Seq(SUBSET C)
      /\ Len(agenda') = n + Len(agenda)
      /\ \A i \in 1..n : agenda'[i] = body[i]
      /\ agenda'[n + 1] = loop
      /\ \A i \in 2..Len(agenda) : agenda'[i + n] = agenda[i]
  BY <1>1, PushLoops
<1>4. /\ DOMAIN agenda = 1..Len(agenda) /\ DOMAIN body = 1..n
      /\ DOMAIN agenda' = 1..(n + Len(agenda))
  BY <1>3
<1> HIDE DEF n
<1>5. n + 1 \in DOMAIN agenda'
  BY <1>1, <1>2, <1>4
<1>6. ASSUME NEW d \in Waiting, d # c PROVE d \in Waiting'
  <2>1. PICK i \in DOMAIN agenda : d \in agenda[i]
    BY DEF Waiting
  <2>2. CASE i = 1
    <3>1. d \in agenda'[n + 1]
      BY <1>1, <1>3, <1>6, <2>1, <2>2
    <3> QED BY <1>5, <3>1 DEF Waiting
  <2>3. CASE i # 1
    <3>1. i \in 2..Len(agenda) /\ i + n \in DOMAIN agenda'
      BY <1>1, <1>2, <1>4, <2>3
    <3>2. d \in agenda'[i + n]
      BY <1>3, <2>1, <3>1
    <3> QED BY <3>1, <3>2 DEF Waiting
  <2> QED BY <2>2, <2>3
<1>7. ASSUME NEW d \in made PROVE d \in Waiting'
  <2>1. CASE d \in loop
    BY <1>3, <1>5, <2>1 DEF Waiting
  <2>2. CASE \E i \in DOMAIN body : d \in body[i]
    <3>1. PICK i \in DOMAIN body : d \in body[i]
      BY <2>2
    <3>2. i \in DOMAIN agenda' /\ d \in agenda'[i]
      BY <1>1, <1>2, <1>3, <1>4, <3>1
    <3> QED BY <3>2 DEF Waiting
  <2> QED BY <2>1, <2>2
<1>8. ASSUME NEW d \in Waiting' PROVE d \in Waiting \/ d \in made
  <2>1. PICK i \in DOMAIN agenda' : d \in agenda'[i]
    BY DEF Waiting
  <2>2. CASE i \in 1..n
    <3>1. i \in DOMAIN body /\ d \in body[i]
      BY <1>3, <1>4, <2>1, <2>2
    <3> QED BY <3>1
  <2>3. CASE i = n + 1
    <3>1. d \in loop
      BY <1>3, <2>1, <2>3
    <3>2. CASE d \in made
      BY <3>2
    <3>3. CASE d \in agenda[1]
      <4>1. 1 \in DOMAIN agenda
        BY <1>1, <1>4
      <4> QED BY <3>3, <4>1 DEF Waiting
    <3> QED BY <1>1, <3>1, <3>2, <3>3
  <2>4. CASE ~(i \in 1..n) /\ i # n + 1
    <3>1. i \in 1..(n + Len(agenda))
      BY <1>4, <2>1
    <3> DEFINE k == i - n
    <3>2. k \in 2..Len(agenda) /\ i = k + n
      BY <1>1, <1>2, <2>4, <3>1
    <3> HIDE DEF k
    <3>3. k \in DOMAIN agenda
      BY <1>1, <1>4, <3>2
    <3>4. d \in agenda[k]
      BY <1>3, <2>1, <3>2
    <3> QED BY <3>3, <3>4 DEF Waiting
  <2> QED BY <2>2, <2>3, <2>4
<1> QED BY <1>6, <1>7, <1>8 DEF Moves

LEMMA BodyDomains ==
    ASSUME NEW A, NEW B
    PROVE  /\ DOMAIN <<>> = {}
           /\ DOMAIN <<A>> = {1} /\ <<A>>[1] = A
           /\ DOMAIN <<A, B>> = {1, 2} /\ <<A, B>>[1] = A /\ <<A, B>>[2] = B
<1>1. {1} = 1..1 /\ {1, 2} = 1..2
  OBVIOUS
<1> QED BY <1>1

LEMMA MadeCalls ==
    ASSUME NEW A, NEW B
    PROVE  /\ \A d : d \in {} <=> \E i \in DOMAIN <<>> : d \in <<>>[i]
           /\ \A d : d \in A <=> \E i \in DOMAIN <<A>> : d \in <<A>>[i]
           /\ \A d : d \in A \cup B <=> \E i \in DOMAIN <<A, B>> : d \in <<A, B>>[i]
BY BodyDomains

\* The loops of a body of none, one or two loops may hold any calls.
LEMMA ReturnMoves ==
    ASSUME NEW C, agenda \in Seq(SUBSET C), NEW c \in Innermost, NEW A, NEW B
    PROVE  /\ Return(c, <<>>) => Moves(c, {})
           /\ Return(c, <<A>>) => Moves(c, A)
           /\ Return(c, <<A, B>>) => Moves(c, A \cup B)
<1> DEFINE D == C \cup A \cup B
           loop == Head(agenda) \ {c}
<1>1. agenda \in Seq(SUBSET D) /\ loop \in SUBSET D
  BY DEF Innermost
<1>2. <<>> \in Seq(SUBSET D) /\ <<A>> \in Seq(SUBSET D) /\ <<A, B>> \in Seq(SUBSET D)
  OBVIOUS
<1> HIDE DEF D
<1>3. ASSUME NEW body \in Seq(SUBSET D), Return(c, body), NEW made,
             \A d : d \in made <=> \E i \in DOMAIN body : d \in body[i]
      PROVE  Moves(c, made)
  <2>1. agenda' = body \o <<loop>> \o Tail(agenda)
    BY <1>3 DEF Return
  <2>2. Head(agenda) \ {c} \subseteq loop /\ loop \subseteq Head(agenda) \cup made
    OBVIOUS
  <2>3. /\ \A d \in made : d \in loop \/ \E i \in DOMAIN body : d \in body[i]
        /\ \A i \in DOMAIN body : body[i] \subseteq made
    BY <1>3
  <2> HIDE DEF loop
  <2> QED BY <1>1, <2>1, <2>2, <2>3, WaitingAfter
<1>4. Return(c, <<>>) => Moves(c, {})
  BY <1>2, <1>3, BodyDomains
<1>5. Return(c, <<A>>) => Moves(c, A)
  <2>1. \A d : d \in A <=> \E i \in DOMAIN <<A>> : d \in <<A>>[i]
    BY MadeCalls
  <2> QED BY <1>2, <1>3, <2>1
<1>6. \A d : d \in A \cup B <=> \E i \in DOMAIN <<A, B>> : d \in <<A, B>>[i]
  BY MadeCalls
<1>7. Return(c, <<A, B>>) => Moves(c, A \cup B)
  BY <1>2, <1>3, <1>6
<1> QED BY <1>4, <1>5, <1>7

\* A body of any number of loops.
LEMMA LoopsMove ==
    ASSUME NEW C, agenda \in Seq(SUBSET C), NEW c \in Innermost,
           NEW body \in Seq(SUBSET C), Return(c, body), NEW made,
           \A d : d \in made <=> \E i \in DOMAIN body : d \in body[i]
    PROVE  agenda' \in Seq(SUBSET C) /\ Moves(c, made)
<1> DEFINE loop == Head(agenda) \ {c}
<1>1. agenda' = body \o <<loop>> \o Tail(agenda)
  BY DEF Return
<1>2. /\ loop \in SUBSET C
      /\ Head(agenda) \ {c} \subseteq loop /\ loop \subseteq Head(agenda) \cup made
  BY DEF Innermost
<1>3. /\ \A d \in made : d \in loop \/ \E i \in DOMAIN body : d \in body[i]
      /\ \A i \in DOMAIN body : body[i] \subseteq made
  OBVIOUS
<1> HIDE DEF loop
<1>4. Moves(c, made)
  BY <1>1, <1>2, <1>3, WaitingAfter
<1>5. agenda' \in Seq(SUBSET C)
  BY ReturnStack
<1> QED BY <1>4, <1>5

LEMMA LongBodies ==
    ASSUME NEW A, NEW B, NEW C, NEW D, NEW E
    PROVE  /\ \A d : d \in A \cup B \cup C
                       <=> \E i \in DOMAIN <<A, B, C>> : d \in <<A, B, C>>[i]
           /\ \A d : d \in A \cup B \cup C \cup D \cup E
                       <=> \E i \in DOMAIN <<A, B, C, D, E>> : d \in <<A, B, C, D, E>>[i]
<1>1. DOMAIN <<A, B, C>> = {1, 2, 3} /\ DOMAIN <<A, B, C, D, E>> = {1, 2, 3, 4, 5}
  <2>1. 1..3 = {1, 2, 3} /\ 1..5 = {1, 2, 3, 4, 5}
    OBVIOUS
  <2> QED BY <2>1
<1>2. /\ <<A, B, C>>[1] = A /\ <<A, B, C>>[2] = B /\ <<A, B, C>>[3] = C
      /\ <<A, B, C, D, E>>[1] = A /\ <<A, B, C, D, E>>[2] = B /\ <<A, B, C, D, E>>[3] = C
      /\ <<A, B, C, D, E>>[4] = D /\ <<A, B, C, D, E>>[5] = E
  OBVIOUS
<1> QED BY <1>1, <1>2

LEMMA ResumeMoves ==
    ASSUME NEW C, agenda \in Seq(SUBSET C), NEW c \in Innermost, NEW A, NEW B, NEW x
    PROVE  /\ Resume(c, <<>>, x) => Moves(c, {x})
           /\ Resume(c, <<A>>, x) => Moves(c, A \cup {x})
           /\ Resume(c, <<A, B>>, x) => Moves(c, A \cup B \cup {x})
<1> DEFINE D == C \cup A \cup B \cup {x}
           loop == (Head(agenda) \ {c}) \cup {x}
<1>1. agenda \in Seq(SUBSET D) /\ loop \in SUBSET D
  BY DEF Innermost
<1>2. <<>> \in Seq(SUBSET D) /\ <<A>> \in Seq(SUBSET D) /\ <<A, B>> \in Seq(SUBSET D)
  OBVIOUS
<1> HIDE DEF D
<1>3. ASSUME NEW body \in Seq(SUBSET D), Resume(c, body, x), NEW calls,
             \A d : d \in calls <=> \E i \in DOMAIN body : d \in body[i]
      PROVE  Moves(c, calls \cup {x})
  <2> DEFINE made == calls \cup {x}
  <2>1. agenda' = body \o <<loop>> \o Tail(agenda)
    BY <1>3 DEF Resume
  <2>2. Head(agenda) \ {c} \subseteq loop /\ loop \subseteq Head(agenda) \cup made
    OBVIOUS
  <2>3. /\ \A d \in made : d \in loop \/ \E i \in DOMAIN body : d \in body[i]
        /\ \A i \in DOMAIN body : body[i] \subseteq made
    BY <1>3
  <2> HIDE DEF loop, made
  <2>4. Moves(c, made)
    BY <1>1, <2>1, <2>2, <2>3, WaitingAfter
  <2> QED BY <2>4 DEF made
<1>4. Resume(c, <<>>, x) => Moves(c, {} \cup {x})
  BY <1>2, <1>3, BodyDomains
<1>5. Resume(c, <<A>>, x) => Moves(c, A \cup {x})
  <2>1. \A d : d \in A <=> \E i \in DOMAIN <<A>> : d \in <<A>>[i]
    BY MadeCalls
  <2> QED BY <1>2, <1>3, <2>1
<1>6. \A d : d \in A \cup B <=> \E i \in DOMAIN <<A, B>> : d \in <<A, B>>[i]
  BY MadeCalls
<1>7. Resume(c, <<A, B>>, x) => Moves(c, (A \cup B) \cup {x})
  BY <1>2, <1>3, <1>6
<1> QED BY <1>4, <1>5, <1>7

LEMMA PushMoves ==
    ASSUME NEW C, agenda \in Seq(SUBSET C), NEW A, NEW B, NEW c
    PROVE  /\ agenda' = <<A>> \o agenda => Moves(c, A)
           /\ agenda' = <<A, B>> \o agenda => Moves(c, A \cup B)
<1> DEFINE D == C \cup A \cup B
<1>1. agenda \in Seq(SUBSET D)
  OBVIOUS
<1>2. <<A>> \in Seq(SUBSET D) /\ <<A, B>> \in Seq(SUBSET D)
  OBVIOUS
<1> HIDE DEF D
<1>3. ASSUME NEW body \in Seq(SUBSET D), agenda' = body \o agenda, NEW made,
             \A d : d \in made <=> \E i \in DOMAIN body : d \in body[i]
      PROVE  Moves(c, made)
  <2>1. /\ Len(agenda') = Len(body) + Len(agenda)
        /\ \A i \in 1..(Len(body) + Len(agenda)) :
             agenda'[i] = IF i <= Len(body) THEN body[i] ELSE agenda[i - Len(body)]
        /\ agenda' \in Seq(SUBSET D)
    BY <1>1, <1>3, ConcatProperties
  <2>2. /\ DOMAIN agenda = 1..Len(agenda) /\ DOMAIN body = 1..Len(body)
        /\ DOMAIN agenda' = 1..(Len(body) + Len(agenda))
        /\ Len(body) \in Nat /\ Len(agenda) \in Nat
    BY <1>1, <2>1
  <2>3. ASSUME NEW d \in Waiting PROVE d \in Waiting'
    <3>1. PICK i \in DOMAIN agenda : d \in agenda[i]
      BY <2>3 DEF Waiting
    <3>2. i + Len(body) \in DOMAIN agenda' /\ agenda'[i + Len(body)] = agenda[i]
      BY <2>1, <2>2
    <3> QED BY <3>1, <3>2 DEF Waiting
  <2>4. ASSUME NEW d \in made PROVE d \in Waiting'
    <3>1. PICK i \in DOMAIN body : d \in body[i]
      BY <1>3
    <3>2. i \in DOMAIN agenda' /\ agenda'[i] = body[i]
      BY <2>1, <2>2
    <3> QED BY <3>1, <3>2 DEF Waiting
  <2>5. ASSUME NEW d \in Waiting' PROVE d \in Waiting \/ d \in made
    <3>1. PICK i \in DOMAIN agenda' : d \in agenda'[i]
      BY DEF Waiting
    <3>2. CASE i <= Len(body)
      <4>1. i \in DOMAIN body /\ d \in body[i]
        BY <2>1, <2>2, <3>1, <3>2
      <4> QED BY <1>3, <4>1
    <3>3. CASE ~(i <= Len(body))
      <4>1. i - Len(body) \in DOMAIN agenda /\ agenda'[i] = agenda[i - Len(body)]
        BY <2>1, <2>2, <3>3
      <4> QED BY <3>1, <4>1 DEF Waiting
    <3> QED BY <3>2, <3>3
  <2> QED BY <2>3, <2>4, <2>5 DEF Moves
<1>4. agenda' = <<A>> \o agenda => Moves(c, A)
  <2>1. \A d : d \in A <=> \E i \in DOMAIN <<A>> : d \in <<A>>[i]
    BY MadeCalls
  <2> QED BY <1>2, <1>3, <2>1
<1>5. \A d : d \in A \cup B <=> \E i \in DOMAIN <<A, B>> : d \in <<A, B>>[i]
  BY MadeCalls
<1>6. agenda' = <<A, B>> \o agenda => Moves(c, A \cup B)
  BY <1>2, <1>3, <1>5
<1> QED BY <1>4, <1>6

LEMMA EndMoves ==
    ASSUME NEW C, agenda \in Seq(SUBSET C), LoopEnds, NEW c
    PROVE  Moves(c, {})
<1>1. /\ \A i \in DOMAIN agenda' : i + 1 \in DOMAIN agenda /\ agenda'[i] = agenda[i + 1]
      /\ \A i \in DOMAIN agenda :
           agenda[i] # {} => \E k \in DOMAIN agenda' : i = k + 1
  BY EndedStack
<1>2. ASSUME NEW d \in Waiting PROVE d \in Waiting'
  <2>1. PICK i \in DOMAIN agenda : d \in agenda[i]
    BY DEF Waiting
  <2>2. PICK k \in DOMAIN agenda' : i = k + 1
    BY <1>1, <2>1
  <2> QED BY <1>1, <2>1, <2>2 DEF Waiting
<1>3. ASSUME NEW d \in Waiting' PROVE d \in Waiting
  <2>1. PICK i \in DOMAIN agenda' : d \in agenda'[i]
    BY DEF Waiting
  <2> QED BY <1>1, <2>1 DEF Waiting
<1> QED BY <1>2, <1>3 DEF Moves
(***************************************************************************)
(* Closures.  A function f with f[x] = IF next[x] = x THEN x ELSE f[next[x]]*)
(* repeats next until nothing changes.  It is well defined where every step *)
(* adds something to a part of a finite set, called the rank here.          *)
(***************************************************************************)
Climbs(D, U, next, rank) ==
    /\ IsFiniteSet(U) /\ next \in [D -> D] /\ rank \in [D -> SUBSET U]
    /\ \A x \in D : next[x] = x \/ (rank[x] \subseteq rank[next[x]] /\ rank[x] # rank[next[x]])

Repeats(D, next, f) == f = [x \in D |-> IF next[x] = x THEN x ELSE f[next[x]]]

Orbit(D, next, x) ==
    {y \in D : \A S \in SUBSET D : x \in S /\ (\A z \in S : next[z] \in S) => y \in S}

Ends(D, next, x) == {y \in Orbit(D, next, x) : next[y] = y}

\* What holds where a step changes nothing, and before a step if after it, holds
\* everywhere: otherwise take a counterexample with the largest rank.
LEMMA GrowthInduction ==
    ASSUME NEW D, NEW U, NEW next, NEW rank, Climbs(D, U, next, rank),
           NEW G \in SUBSET D,
           \A x \in D : next[x] = x => x \in G,
           \A x \in D : next[x] \in G => x \in G
    PROVE  D \subseteq G
<1> SUFFICES ASSUME D \ G # {}
             PROVE  FALSE
  OBVIOUS
<1> DEFINE T == {U \ rank[x] : x \in D \ G}
<1>1. IsWellFoundedOn(StrictSubsetOrdering(U), SUBSET U)
  <2>1. IsFiniteSet(U)
    BY DEF Climbs
  <2>2. FiniteSubsetsOf(U) = SUBSET U
    BY <2>1, FS_FiniteSubsetsOfFinite
  <2>3. IsWellFoundedOn(StrictSubsetOrdering(U), FiniteSubsetsOf(U))
    BY FS_StrictSubsetOrderingWellFounded
  <2> QED BY <2>2, <2>3
<1>2. T \subseteq SUBSET U /\ T # {}
  OBVIOUS
<1>3. PICK m \in T : \A y \in T : ~(<<y, m>> \in StrictSubsetOrdering(U))
  BY <1>1, <1>2, WFMin
<1>4. PICK x \in D \ G : m = U \ rank[x]
  BY <1>3
<1>5. next[x] \in D \ G /\ rank[x] \subseteq rank[next[x]] /\ rank[x] # rank[next[x]]
      /\ rank[next[x]] \in SUBSET U /\ rank[x] \in SUBSET U
  BY <1>4 DEF Climbs
<1> DEFINE k == U \ rank[next[x]]
<1>6. k \in T
  BY <1>5
<1>7. k \subseteq m /\ k # m /\ k \in SUBSET U /\ m \in SUBSET U
  BY <1>4, <1>5
<1>8. <<k, m>> \in StrictSubsetOrdering(U)
  BY <1>7 DEF StrictSubsetOrdering
<1> QED BY <1>3, <1>6, <1>8

\* What can be reached from x in steps is x and what can be reached after one.
LEMMA OrbitOfNext ==
    ASSUME NEW D, NEW next, next \in [D -> D], NEW x \in D
    PROVE  /\ next[x] = x => Ends(D, next, x) = {x}
           /\ next[x] # x => Ends(D, next, x) = Ends(D, next, next[x])
<1>1. x \in Orbit(D, next, x)
  BY DEF Orbit
<1>2. ASSUME next[x] = x
      PROVE  Ends(D, next, x) = {x}
  <2>1. {x} \in SUBSET D /\ \A z \in {x} : next[z] \in {x}
    BY <1>2
  <2>2. Orbit(D, next, x) \subseteq {x}
    BY <2>1 DEF Orbit
  <2> QED BY <1>1, <1>2, <2>2 DEF Ends
<1>3. Orbit(D, next, next[x]) \subseteq Orbit(D, next, x)
  BY DEF Orbit
<1>4. ASSUME NEW y \in Orbit(D, next, x), y # x
      PROVE  y \in Orbit(D, next, next[x])
  <2>1. y \in D
    BY <1>4 DEF Orbit
  <2> SUFFICES ASSUME NEW S \in SUBSET D, next[x] \in S, \A z \in S : next[z] \in S
               PROVE  y \in S
    BY <2>1 DEF Orbit
  <2> DEFINE R == S \cup {x}
  <2>2. R \in SUBSET D /\ x \in R /\ \A z \in R : next[z] \in R
    OBVIOUS
  <2>3. y \in R
    BY <2>2 DEF Orbit
  <2> QED BY <1>4, <2>3
<1>5. ASSUME next[x] # x
      PROVE  Ends(D, next, x) = Ends(D, next, next[x])
  BY <1>3, <1>4, <1>5 DEF Ends
<1> QED BY <1>2, <1>5

LEMMA EndsExist ==
    ASSUME NEW D, NEW U, NEW next, NEW rank, Climbs(D, U, next, rank), NEW x \in D
    PROVE  Ends(D, next, x) # {}
<1> DEFINE G == {y \in D : Ends(D, next, y) # {}}
<1>0. next \in [D -> D]
  BY DEF Climbs
<1>1. \A y \in D : next[y] = y => y \in G
  BY <1>0, OrbitOfNext
<1>2. \A y \in D : next[y] \in G => y \in G
  BY <1>0, OrbitOfNext
<1>3. G \in SUBSET D
  OBVIOUS
<1> HIDE DEF G
<1>4. D \subseteq G
  BY <1>1, <1>2, <1>3, GrowthInduction
<1> QED BY <1>4 DEF G

\* There is such a function ...
LEMMA ClosureExists ==
    ASSUME NEW D, NEW U, NEW next, NEW rank, Climbs(D, U, next, rank)
    PROVE  \E f : Repeats(D, next, f)
<1> DEFINE g == [x \in D |-> CHOOSE y \in Ends(D, next, x) : TRUE]
<1>0. next \in [D -> D]
  BY DEF Climbs
<1>1. ASSUME NEW x \in D
      PROVE  g[x] = IF next[x] = x THEN x ELSE g[next[x]]
  <2>1. next[x] \in D
    BY <1>0
  <2>2. g[x] = (CHOOSE y \in Ends(D, next, x) : TRUE)
        /\ g[next[x]] = (CHOOSE y \in Ends(D, next, next[x]) : TRUE)
    BY <2>1
  <2> HIDE DEF g
  <2>3. ASSUME next[x] = x PROVE g[x] = x
    BY <1>0, <2>2, <2>3, OrbitOfNext
  <2>4. ASSUME next[x] # x PROVE g[x] = g[next[x]]
    BY <1>0, <2>2, <2>4, OrbitOfNext
  <2> QED BY <2>3, <2>4
<1>2. g = [x \in D |-> g[x]]
  OBVIOUS
<1> HIDE DEF g
<1>3. [x \in D |-> g[x]] = [x \in D |-> IF next[x] = x THEN x ELSE g[next[x]]]
  BY <1>1
<1> QED BY <1>2, <1>3 DEF Repeats

\* ... and every such function leads to where the steps end.
LEMMA ClosureEnds ==
    ASSUME NEW D, NEW U, NEW next, NEW rank, Climbs(D, U, next, rank),
           NEW f, Repeats(D, next, f), NEW x \in D
    PROVE  /\ f[x] \in D /\ next[f[x]] = f[x]
           /\ \A S \in SUBSET D : x \in S /\ (\A z \in S : next[z] \in S) => f[x] \in S
<1> DEFINE G == {y \in D : f[y] \in Ends(D, next, y)}
<1>0. next \in [D -> D] /\ \A y \in D : next[y] \in D
  BY DEF Climbs
<1>a. ASSUME NEW y \in D
      PROVE  f[y] = IF next[y] = y THEN y ELSE f[next[y]]
  BY DEF Repeats
<1>1. \A y \in D : next[y] = y => y \in G
  BY <1>0, <1>a, OrbitOfNext
<1>2. ASSUME NEW y \in D, next[y] \in G
      PROVE  y \in G
  <2>1. ASSUME next[y] = y PROVE y \in G
    BY <2>1, <1>1
  <2>2. ASSUME next[y] # y PROVE y \in G
    BY <1>0, <1>2, <1>a, <2>2, OrbitOfNext
  <2> QED BY <2>1, <2>2
<1>3. G \in SUBSET D
  OBVIOUS
<1> HIDE DEF G
<1>4. x \in G
  BY <1>1, <1>2, <1>3, GrowthInduction
<1>5. f[x] \in Ends(D, next, x)
  BY <1>4 DEF G
<1> QED BY <1>5 DEF Ends, Orbit
\* Steps that enlarge sets, and larger ones no less.
Expands(U, next) ==
    /\ IsFiniteSet(U) /\ next \in [SUBSET U -> SUBSET U]
    /\ \A x \in SUBSET U : x \subseteq next[x]
    /\ \A x, y \in SUBSET U : x \subseteq y => next[x] \subseteq next[y]

\* f leads to the least set above the first that next adds nothing to.
Closes(U, next, f) ==
    \A x \in SUBSET U :
      /\ f[x] \in SUBSET U /\ x \subseteq f[x] /\ next[f[x]] = f[x]
      /\ \A S \in SUBSET U : x \subseteq S /\ next[S] \subseteq S => f[x] \subseteq S

\* On finitely many elements such steps, repeated, lead there.
LEMMA SetClosure ==
    ASSUME NEW U, NEW next, Expands(U, next)
    PROVE  /\ \E f : Repeats(SUBSET U, next, f)
           /\ \A f : Repeats(SUBSET U, next, f) => Closes(U, next, f)
<1> DEFINE D == SUBSET U
           rank == [x \in D |-> x]
<1>1. Climbs(D, U, next, rank)
  BY DEF Climbs, Expands
<1> HIDE DEF D, rank
<1>2. \E f : Repeats(D, next, f)
  BY <1>1, ClosureExists
<1>3. ASSUME NEW f, Repeats(D, next, f), NEW x \in D
      PROVE  /\ f[x] \in D /\ x \subseteq f[x] /\ next[f[x]] = f[x]
             /\ \A S \in D : x \subseteq S /\ next[S] \subseteq S => f[x] \subseteq S
  <2>1. /\ f[x] \in D /\ next[f[x]] = f[x]
        /\ \A S \in SUBSET D : x \in S /\ (\A z \in S : next[z] \in S) => f[x] \in S
    BY <1>1, <1>3, ClosureEnds
  <2> DEFINE above == {y \in D : x \subseteq y}
  <2>2. above \in SUBSET D /\ x \in above /\ \A z \in above : next[z] \in above
    BY DEF D, Expands
  <2>3. f[x] \in above
    BY <2>1, <2>2
  <2>4. ASSUME NEW S \in D, x \subseteq S, next[S] \subseteq S
        PROVE  f[x] \subseteq S
    <3> DEFINE below == {y \in D : y \subseteq S}
    <3>1. below \in SUBSET D /\ x \in below /\ \A z \in below : next[z] \in below
      BY <2>4 DEF D, Expands
    <3>2. f[x] \in below
      BY <2>1, <3>1
    <3> QED BY <3>2
  <2> QED BY <2>1, <2>3, <2>4
<1> QED BY <1>2, <1>3 DEF D, Closes

\* What has a name each, of finitely many, is finite; and so is what they name.
LEMMA NamedFinite ==
    ASSUME NEW S, NEW T, IsFiniteSet(T), NEW name \in [S -> T],
           \A a, b \in S : name[a] = name[b] => a = b
    PROVE  IsFiniteSet(S)
<1>1. name \in Injection(S, T)
  BY Zenon DEF Injection, IsInjective
<1> QED BY <1>1, FS_Injection

LEMMA ImageFinite ==
    ASSUME NEW S, NEW T, IsFiniteSet(S), NEW f \in [S -> T],
           \A t \in T : \E s \in S : f[s] = t
    PROVE  IsFiniteSet(T)
<1>1. f \in Surjection(S, T)
  BY Zenon DEF Surjection
<1> QED BY <1>1, FS_Surjection
=============================================================================
