--------------------------- MODULE Solvers_proofs ---------------------------
(***************************************************************************)
(* Theorems about the solvers' automata: first SyncPDS, for every program, *)
(* query and client, then Summaries, for all rules and solvers.            *)
(*                                                                         *)
(* SyncPDS: a node is processed exactly when both automata reach it, and   *)
(* once; each listener is told as often as is due to it; and the result is *)
(* least, in whatever order.                                               *)
(*                                                                         *)
(* Summaries: the shared automata hold for each solver what an automaton   *)
(* of its own would.                                                       *)
(***************************************************************************)
EXTENDS SyncFixpoint, Summaries, CallStack_proofs

(***************************************************************************)
(* The inductive invariant.                                                *)
(***************************************************************************)
HeardCall(system, t) == [op |-> "heard", system |-> system, t |-> t]
ProcessCall(n) == [op |-> "process", n |-> n]
SuccessorsCall(n) == [op |-> "successors", n |-> n]
ReachableCall(l) == [op |-> "reachable", l |-> l]

\* The transitions that solve adds before it processes n.
StartField(n) ==
    [op |-> "add", system |-> "fields",
     t |-> Edge(Single(n), EmptyField, Single(InitialNode))]
StartCall(n) ==
    [op |-> "add", system |-> "calls",
     t |-> Edge(Single(n[2]), n[1], Single(InitialNode[2]))]

InFields(n) == \E t \in fieldEdges : t.start = Single(n)
InCalls(n) == \E t \in callEdges : t.start = Single(n[2]) /\ t.label = n[1]

\* Only transitions that are there are announced, and each has been or will be.
HeardSound ==
    /\ \A t \in FieldEdge : Pending(HeardCall("fields", t)) => t \in fieldEdges
    /\ \A t \in CallEdge : Pending(HeardCall("calls", t)) => t \in callEdges

HeardKept ==
    /\ \A t \in fieldEdges :
         \/ IsGenerated(t.start) \/ t.start[1] \in fieldContextReachable
         \/ Pending(HeardCall("fields", t))
    /\ \A t \in callEdges :
         \/ IsGenerated(t.start) \/ <<t.label, t.start[1]>> \in callingContextReachable
         \/ Pending(HeardCall("calls", t))

ContextSound ==
    /\ \A n \in fieldContextReachable : InFields(n)
    /\ \A n \in callingContextReachable : InCalls(n)

\* A node that both have announced is processed, or will be; one that will be
\* processed is in both automata, or solve will have put it there before.
ProcessKept ==
    \A n \in fieldContextReachable \cap callingContextReachable :
      n \in reachedStates \/ Pending(ProcessCall(n))

ProcessSound ==
    \A n \in Node :
      /\ InFields(n) \/ Behind(ProcessCall(n), StartField(n))
      /\ InCalls(n) \/ Behind(ProcessCall(n), StartCall(n))

ReachedSound == reachedStates \subseteq Matched

\* What is due has been done once, or will be by the one pending call d.
Counted(d, due, k) ==
    /\ Once(d)
    /\ Pending(d) => due /\ k = 0
    /\ due => k = 1 \/ Pending(d)
    /\ ~due => k = 0
    /\ k \in {0, 1}

AllComputed ==
    \A n \in Node : Counted(SuccessorsCall(n), n \in reachedStates, computed[n])

IsDue(l) == l \in listeners /\ ListensAt[l] \in reachedStates

\* What is due to l, and how far it is: l waits for the copy that CopyCall
\* makes, or is called, or has been; and if it was registered while that call
\* was on the stack, its first call comes before the copy.
Stage(l, k, called, copied) ==
    /\ told[l] = k
    /\ called <=> Pending(ReachableCall(l))
    /\ copied <=> ~Pending(CopyCall(ListensAt[l]))
ToldRight(l) ==
    /\ Once(ReachableCall(l)) /\ Once(CopyCall(ListensAt[l]))
    /\ Pending(CopyCall(ListensAt[l])) => ListensAt[l] \in reachedStates
    /\ l \in during => IsDue(l)
    /\ ~IsDue(l) => told[l] = 0 /\ ~Pending(ReachableCall(l))
    /\ IsDue(l) /\ l \notin during =>
         \/ Stage(l, 0, FALSE, FALSE) \/ Stage(l, 0, TRUE, TRUE)
         \/ Stage(l, 1, FALSE, TRUE)
    /\ l \in during =>
         /\ \/ Stage(l, 0, TRUE, FALSE) \/ Stage(l, 1, FALSE, FALSE)
            \/ Stage(l, 1, TRUE, TRUE) \/ Stage(l, 2, FALSE, TRUE)
         /\ told[l] = 0 => Behind(CopyCall(ListensAt[l]), ReachableCall(l))
AllTold == \A l \in StateListener : ToldRight(l)

SyncInv ==
    /\ TypeOK /\ HeardSound /\ HeardKept /\ ContextSound /\ ProcessKept /\ ProcessSound
    /\ ReachedSound /\ AllComputed /\ AllTold

(***************************************************************************)
(* Types.                                                                  *)
(***************************************************************************)
LEMMA FieldRuleTypes ==
    ASSUME NEW r \in FieldRules
    PROVE  /\ r.s1 \in FieldState /\ r.s2 \in {Single(n) : n \in Node}
           /\ r.kind \in {"normal", "push", "pop"}
           /\ r.kind = "normal" => r.l2 \in Wildcards
           /\ r.kind = "push" => r.l2 \in Field /\ r.callSite = AnyField
BY DEF FieldRules, RulesOf

LEMMA CallRuleTypes ==
    ASSUME NEW r \in CallRules
    PROVE  /\ r.s1 \in CallState /\ r.s2 \in {Single(f) : f \in Fact}
           /\ r.kind \in {"normal", "push", "pop"}
           /\ r.kind # "pop" => r.l2 \in Stmt
           /\ r.kind = "push" => r.callSite \in Stmt
BY DEF CallRules, RulesOf

LEMMA EdgesEntailed ==
    /\ \A E \in SUBSET FieldEdge, R \in SUBSET FieldRules :
         EntailedFields(E, R) \subseteq FieldEdge
    /\ \A E \in SUBSET CallEdge, R \in SUBSET CallRules :
         EntailedCalls(E, R) \subseteq CallEdge
<1>1. ASSUME NEW E \in SUBSET FieldEdge, NEW R \in SUBSET FieldRules
      PROVE  EntailedFields(E, R) \subseteq FieldEdge
  <2> DEFINE W == Unweighted(E)
  <2>1. DOMAIN W = E
    BY DEF Unweighted
  <2>2. ASSUME NEW f \in Fields!Normal(W, R) PROVE f.t \in FieldEdge
    <3>1. PICK rt \in R \X E :
             /\ rt[1].kind = "normal"
             /\ f = Fields!WithWeight(
                      Fields!Edge(rt[1].s2, IF Fields!Wild(rt[1].l2) THEN rt[2].label
                                            ELSE rt[1].l2, rt[2].target),
                      OnlyOne(W[rt[2]], rt[1].w))
      BY <2>1 DEF Fields!Normal
    <3>2. rt[1] \in FieldRules /\ rt[2] \in FieldEdge
      OBVIOUS
    <3>3. rt[1].l2 \in Wildcards /\ rt[1].s2 \in FieldState
      BY <3>1, <3>2, FieldRuleTypes DEF FieldState
    <3>4. f.t = [start |-> rt[1].s2, label |-> rt[2].label, target |-> rt[2].target]
      BY <3>1, <3>3 DEF Fields!Edge, Fields!Wild, Fields!WithWeight
    <3> QED BY <3>2, <3>3, <3>4 DEF FieldEdge
  <2>3. ASSUME NEW f \in Fields!Push(W, R) PROVE f.t \in FieldEdge
    <3>1. PICK r \in R, t \in E :
             /\ r.kind = "push"
             /\ \/ f.t = Fields!Edge(r.s2, r.l2, GeneratedState(r.s2, r.l2))
                \/ f.t = Fields!Edge(GeneratedState(r.s2, r.l2),
                           IF Fields!Wild(r.callSite) THEN t.label ELSE r.callSite, t.target)
      BY <2>1 DEF Fields!Push, Fields!WithWeight
    <3>2. r.l2 \in Field /\ r.callSite \in Wildcards /\ r.s2 \in FieldState
      BY <3>1, FieldRuleTypes DEF FieldState, Wildcards
    <3>3. GeneratedState(r.s2, r.l2) \in FieldState
      BY <3>2, FieldRuleTypes DEF FieldState, GeneratedState, Single
    <3> QED BY <3>1, <3>2, <3>3 DEF FieldEdge, Fields!Edge, Fields!Wild
  <2>4. ASSUME NEW f \in Fields!Pop(W, R) PROVE f.t \in FieldEdge
    <3>1. PICK r \in R, t \in E :
             \/ f.t = Fields!Edge(r.s2, EpsField, t.target)
             \/ \E u \in E : f.t = Fields!Edge(r.s2, u.label, u.target)
      BY <2>1 DEF Fields!Pop, Fields!Popped, Fields!WithWeight
    <3>2. r.s2 \in FieldState
      BY FieldRuleTypes DEF FieldState
    <3>3. t.target \in FieldState /\ \A u \in E : u \in FieldEdge
      BY DEF FieldEdge
    <3>4. CASE f.t = Fields!Edge(r.s2, EpsField, t.target)
      BY <3>2, <3>3, <3>4 DEF FieldEdge, Fields!Edge
    <3>5. CASE \E u \in E : f.t = Fields!Edge(r.s2, u.label, u.target)
      BY <3>2, <3>3, <3>5 DEF FieldEdge, Fields!Edge
    <3> QED BY <3>1, <3>4, <3>5
  <2> HIDE DEF W
  <2> QED BY <2>2, <2>3, <2>4 DEF EntailedFields, W
<1>2. ASSUME NEW E \in SUBSET CallEdge, NEW R \in SUBSET CallRules
      PROVE  EntailedCalls(E, R) \subseteq CallEdge
  <2> DEFINE W == Unweighted(E)
  <2>1. DOMAIN W = E
    BY DEF Unweighted
  <2>2. ASSUME NEW f \in Calls!Normal(W, R) PROVE f.t \in CallEdge
    <3>1. PICK r \in R, t \in E :
             r.kind = "normal" /\ f.t = Calls!Edge(r.s2, r.l2, t.target)
      BY <2>1 DEF Calls!Normal, Calls!WithWeight, Calls!Wild
    <3>2. r.l2 \in Stmt /\ r.s2 \in CallState
      BY <3>1, CallRuleTypes DEF CallState
    <3> QED BY <3>1, <3>2 DEF CallEdge, Calls!Edge
  <2>3. ASSUME NEW f \in Calls!Push(W, R) PROVE f.t \in CallEdge
    <3>1. PICK r \in R, t \in E :
             /\ r.kind = "push"
             /\ \/ f.t = Calls!Edge(r.s2, r.l2, GeneratedState(r.s2, r.l2))
                \/ f.t = Calls!Edge(GeneratedState(r.s2, r.l2), r.callSite, t.target)
      BY <2>1 DEF Calls!Push, Calls!WithWeight, Calls!Wild
    <3>2. r.l2 \in Stmt /\ r.callSite \in Stmt /\ r.s2 \in CallState
      BY <3>1, CallRuleTypes DEF CallState
    <3>3. GeneratedState(r.s2, r.l2) \in CallState
      BY <3>2, CallRuleTypes DEF CallState, GeneratedState, Single
    <3> QED BY <3>1, <3>2, <3>3 DEF CallEdge, Calls!Edge
  <2>4. ASSUME NEW f \in Calls!Pop(W, R) PROVE f.t \in CallEdge
    <3>1. PICK r \in R, t \in E :
             \/ f.t = Calls!Edge(r.s2, EpsStmt, t.target)
             \/ \E u \in E : f.t = Calls!Edge(r.s2, u.label, u.target)
      BY <2>1 DEF Calls!Pop, Calls!Popped, Calls!WithWeight
    <3>2. r.s2 \in CallState
      BY CallRuleTypes DEF CallState
    <3>3. t.target \in CallState /\ \A u \in E : u \in CallEdge
      BY DEF CallEdge
    <3>4. CASE f.t = Calls!Edge(r.s2, EpsStmt, t.target)
      BY <3>2, <3>3, <3>4 DEF CallEdge, Calls!Edge
    <3>5. CASE \E u \in E : f.t = Calls!Edge(r.s2, u.label, u.target)
      BY <3>2, <3>3, <3>5 DEF CallEdge, Calls!Edge
    <3> QED BY <3>1, <3>4, <3>5
  <2> HIDE DEF W
  <2> QED BY <2>2, <2>3, <2>4 DEF EntailedCalls, W
<1> QED BY <1>1, <1>2

LEMMA PopsForwarded ==
    /\ \A E \in SUBSET FieldEdge, R \in SUBSET FieldRules :
         ForwardedFields(E, R) \subseteq FieldRules
    /\ \A E \in SUBSET CallEdge, R \in SUBSET CallRules :
         ForwardedCalls(E, R) \subseteq CallRules
<1>1. ASSUME NEW E \in SUBSET FieldEdge, NEW R \in SUBSET FieldRules,
             NEW p \in ForwardedFields(E, R)
      PROVE  p \in FieldRules
  <2>1. PICK r \in R, t \in E : r.kind = "pop" /\ p = [r EXCEPT !.s1 = t.target]
    BY DEF ForwardedFields, Fields!Forwarded, Unweighted
  <2>2. t.target \in FieldState
    BY DEF FieldEdge
  <2> QED BY <2>1, <2>2 DEF FieldRules, RulesOf
<1>2. ASSUME NEW E \in SUBSET CallEdge, NEW R \in SUBSET CallRules,
             NEW p \in ForwardedCalls(E, R)
      PROVE  p \in CallRules
  <2>1. PICK r \in R, t \in E : r.kind = "pop" /\ p = [r EXCEPT !.s1 = t.target]
    BY DEF ForwardedCalls, Calls!Forwarded, Unweighted
  <2>2. t.target \in CallState
    BY DEF CallEdge
  <2> QED BY <2>1, <2>2 DEF CallRules, RulesOf
<1> QED BY <1>1, <1>2

LEMMA SuccessorRules ==
    ASSUME NEW n \in Node, NEW s \in Successor
    PROVE  FieldRule(n, s) \in FieldRules /\ CallRule(n, s) \in CallRules
<1>1. Target(s) \in Node /\ n = <<n[1], n[2]>> /\ n[1] \in Stmt /\ n[2] \in Fact
  BY DEF Target, Successor, Node
<1>2. /\ Single(n) \in FieldState /\ Single(Target(s)) \in {Single(m) : m \in Node}
      /\ Single(n[2]) \in CallState
      /\ Single(Target(s)[2]) \in {Single(f) : f \in Fact} /\ Target(s)[1] \in Stmt
  BY <1>1 DEF FieldState, CallState, Node
<1>3. FieldRule(n, s) \in FieldRules
  <2>1. CASE s.kind = "exclude"
    BY <1>2, <2>1 DEF FieldRule, FieldRules, RulesOf, NormalRule, Wildcards, Successor
  <2>2. CASE s.kind = "pushField"
    BY <1>2, <2>2 DEF FieldRule, FieldRules, RulesOf, PushRule, Successor
  <2>3. CASE s.kind = "popField"
    BY <1>2, <2>3 DEF FieldRule, FieldRules, RulesOf, PopRule, Successor
  <2>4. CASE s.kind \notin {"exclude", "pushField", "popField"}
    BY <1>2, <2>4 DEF FieldRule, FieldRules, RulesOf, NormalRule, Wildcards
  <2> QED BY <2>1, <2>2, <2>3, <2>4
<1>4. CallRule(n, s) \in CallRules
  <2>1. CASE s.kind = "pushCall"
    BY <1>1, <1>2, <2>1 DEF CallRule, CallRules, RulesOf, PushRule, Successor
  <2>2. CASE s.kind = "popCall"
    BY <1>1, <1>2, <2>2 DEF CallRule, CallRules, RulesOf, PopRule
  <2>3. CASE s.kind \notin {"pushCall", "popCall"}
    BY <1>1, <1>2, <2>3 DEF CallRule, CallRules, RulesOf, NormalRule
  <2> QED BY <2>1, <2>2, <2>3
<1> QED BY <1>3, <1>4

LEMMA CallTypes ==
    /\ \A t \in FieldEdge : /\ AddEdge("fields", t) \subseteq Call
                            /\ Heard("fields", t) \subseteq Call
    /\ \A t \in CallEdge : /\ AddEdge("calls", t) \subseteq Call
                           /\ Heard("calls", t) \subseteq Call
    /\ \A r \in FieldRules : AddRule("fields", r) \subseteq Call
    /\ \A r \in CallRules : AddRule("calls", r) \subseteq Call
    /\ \A x \in System : Saturate(x) \subseteq Call
    /\ \A n \in Node : /\ Process(n) \subseteq Call
                       /\ {CopyCall(n)} \subseteq Call
                       /\ {[op |-> "successors", n |-> n]} \subseteq Call
    /\ \A L \in SUBSET StateListener : Tell(L) \subseteq Call
    /\ {[op |-> "client"]} \subseteq Call
BY DEF Call, AddEdge, Heard, AddRule, Saturate, Process, CopyCall, Tell

LEMMA CallFields ==
    ASSUME NEW c \in Call
    PROVE  /\ c.op \in {"add", "heard"} /\ c.system = "fields" => c.t \in FieldEdge
           /\ c.op \in {"add", "heard"} /\ c.system = "calls" => c.t \in CallEdge
           /\ c.op = "rule" /\ c.system = "fields" => c.r \in FieldRules
           /\ c.op = "rule" /\ c.system = "calls" => c.r \in CallRules
           /\ c.op = "saturate" => c.system \in System
           /\ c.op \in {"process", "copy", "successors", "flow"} => c.n \in Node
           /\ c.op = "flow" => c.s \in Successor
           /\ c.op = "reachable" => c.l \in StateListener
BY DEF Call

LEMMA CallEqual ==
    ASSUME NEW c \in Call
    PROVE  /\ c.op = "heard" => c = HeardCall(c.system, c.t)
           /\ c.op = "process" => c = ProcessCall(c.n)
           /\ c.op = "copy" => c = CopyCall(c.n)
           /\ c.op = "successors" => c = SuccessorsCall(c.n)
           /\ c.op = "reachable" => c = ReachableCall(c.l)
BY DEF Call, HeardCall, ProcessCall, CopyCall, SuccessorsCall, ReachableCall

noCall == [op |-> "none"]
LEMMA NoCall == noCall \notin Call
BY DEF noCall, Call

(***************************************************************************)
(* What a step leaves as it is.                                            *)
(***************************************************************************)
Undisturbed(op) ==
    \A d : d.op = op => (Pending(d)' <=> Pending(d)) /\ (Once(d) => Once(d)')

\* The calls of one kind stay behind those of another.
Ordered(late, early) ==
    \A d, e : d.op = late /\ e.op = early /\ Behind(d, e) => Behind(d, e)'
ProcessOrdered == Ordered("process", "add")
CopyOrdered == Ordered("copy", "reachable")

Makes(body, ops) == \A i \in DOMAIN body : \A d \in body[i] : d.op \in ops

\* A step that takes c from the stack, or leaves it, and makes calls of some kinds.
Moved(c, body, ops) ==
    /\ agenda \in Seq(SUBSET Call) /\ agenda' \in Seq(SUBSET Call)
    /\ body \in Seq(SUBSET Call)
    /\ Stacked(c, body) /\ Makes(body, ops)

LEMMA OthersUndisturbed ==
    ASSUME NEW c, NEW body, NEW ops, Moved(c, body, ops), NEW op, op \notin ops, c.op # op
    PROVE  Undisturbed(op)
<1> SUFFICES ASSUME NEW d, d.op = op
             PROVE  (Pending(d)' <=> Pending(d)) /\ (Once(d) => Once(d)')
  BY DEF Undisturbed
<1>1. d # c /\ \A i \in DOMAIN body : d \notin body[i]
  BY DEF Moved, Makes
<1>2. Stacked(c, body)
  BY DEF Moved
<1> QED BY <1>1, <1>2, CallKept

LEMMA OrderKept ==
    ASSUME NEW c, NEW body, NEW ops, Moved(c, body, ops),
           NEW late, NEW early, late \notin ops, c.op # early
    PROVE  Ordered(late, early)
<1> SUFFICES ASSUME NEW d, NEW e, d.op = late, e.op = early, Behind(d, e)
             PROVE  Behind(d, e)'
  BY DEF Ordered
<1>1. \A i \in DOMAIN body : d \in body[i] => \E j \in DOMAIN body : j < i /\ e \in body[j]
  BY DEF Moved, Makes
<1>2. e # c /\ Stacked(c, body) /\ Len(body) \in Nat /\ DOMAIN agenda \subseteq Nat
  BY DEF Moved
<1> QED BY <1>1, <1>2, BehindKept

LEMMA HeardFrame ==
    ASSUME HeardSound, HeardKept, Undisturbed("heard"),
           UNCHANGED <<fieldEdges, callEdges, contexts>>
    PROVE  HeardSound' /\ HeardKept'
<1>1. \A x, t : Pending(HeardCall(x, t))' <=> Pending(HeardCall(x, t))
  BY DEF Undisturbed, HeardCall
<1> QED BY <1>1 DEF HeardSound, HeardKept, contexts

LEMMA SidesKept ==
    ASSUME fieldEdges \subseteq fieldEdges', callEdges \subseteq callEdges'
    PROVE  /\ \A n : InFields(n) => InFields(n)'
           /\ \A n : InCalls(n) => InCalls(n)'
           /\ Matched \subseteq Matched'
<1>1. \A n : (InFields(n) => InFields(n)') /\ (InCalls(n) => InCalls(n)')
  BY DEF InFields, InCalls
<1>2. Matched \subseteq Matched'
  BY DEF Matched
<1> QED BY <1>1, <1>2

LEMMA ContextFrame ==
    ASSUME ContextSound, ReachedSound, UNCHANGED <<contexts, reachedStates>>,
           fieldEdges \subseteq fieldEdges', callEdges \subseteq callEdges'
    PROVE  ContextSound' /\ ReachedSound'
BY SidesKept DEF ContextSound, ReachedSound, contexts

LEMMA ProcessFrame ==
    ASSUME ProcessKept, ProcessSound, Undisturbed("process"), ProcessOrdered,
           UNCHANGED <<contexts, reachedStates>>,
           fieldEdges \subseteq fieldEdges', callEdges \subseteq callEdges'
    PROVE  ProcessKept' /\ ProcessSound'
<1>1. \A n : Pending(ProcessCall(n))' <=> Pending(ProcessCall(n))
  BY DEF Undisturbed, ProcessCall
<1>2. ProcessKept'
  BY <1>1 DEF ProcessKept, contexts
<1>3. \A n : /\ Behind(ProcessCall(n), StartField(n)) => Behind(ProcessCall(n), StartField(n))'
             /\ Behind(ProcessCall(n), StartCall(n)) => Behind(ProcessCall(n), StartCall(n))'
  <2>1. \A n : ProcessCall(n).op = "process" /\ StartField(n).op = "add" /\ StartCall(n).op = "add"
    BY DEF ProcessCall, StartField, StartCall
  <2> QED BY <2>1 DEF ProcessOrdered, Ordered
<1>4. ProcessSound'
  BY <1>3, SidesKept DEF ProcessSound
<1> QED BY <1>2, <1>4

LEMMA ComputedFrame ==
    ASSUME AllComputed, Undisturbed("successors"), UNCHANGED <<reachedStates, computed>>
    PROVE  AllComputed'
<1> SUFFICES ASSUME NEW n \in Node
             PROVE  Counted(SuccessorsCall(n), n \in reachedStates, computed[n])'
  BY DEF AllComputed
<1>1. /\ Pending(SuccessorsCall(n))' <=> Pending(SuccessorsCall(n))
      /\ Once(SuccessorsCall(n)) => Once(SuccessorsCall(n))'
  BY DEF Undisturbed, SuccessorsCall
<1> QED BY <1>1 DEF AllComputed, Counted

\* What is right for l stays so if its calls and what is due to it do.
LEMMA ToldKept ==
    ASSUME NEW l, ToldRight(l),
           Pending(ReachableCall(l))' <=> Pending(ReachableCall(l)),
           Pending(CopyCall(ListensAt[l]))' <=> Pending(CopyCall(ListensAt[l])),
           Once(ReachableCall(l)) => Once(ReachableCall(l))',
           Once(CopyCall(ListensAt[l])) => Once(CopyCall(ListensAt[l]))',
           Behind(CopyCall(ListensAt[l]), ReachableCall(l))
             => Behind(CopyCall(ListensAt[l]), ReachableCall(l))',
           IsDue(l)' <=> IsDue(l), reachedStates \subseteq reachedStates',
           l \in during' <=> l \in during, told'[l] = told[l]
    PROVE  ToldRight(l)'
BY DEF ToldRight, Stage

LEMMA ToldFrame ==
    ASSUME AllTold, Undisturbed("reachable"), Undisturbed("copy"), CopyOrdered,
           UNCHANGED <<reachedStates, listeners, told, during>>
    PROVE  AllTold'
<1> SUFFICES ASSUME NEW l \in StateListener PROVE ToldRight(l)'
  BY DEF AllTold
<1> DEFINE d == ReachableCall(l)
           m == CopyCall(ListensAt[l])
<1>1. d.op = "reachable" /\ m.op = "copy"
  BY DEF ReachableCall, CopyCall
<1>2. /\ Pending(d)' <=> Pending(d)
      /\ Once(d) => Once(d)'
  BY <1>1 DEF Undisturbed
<1>3. /\ Pending(m)' <=> Pending(m)
      /\ Once(m) => Once(m)'
  BY <1>1 DEF Undisturbed
<1>4. Behind(m, d) => Behind(m, d)'
  BY <1>1 DEF CopyOrdered, Ordered
<1>5. ToldRight(l) /\ (IsDue(l)' <=> IsDue(l))
  BY DEF AllTold, IsDue
<1> QED BY <1>2, <1>3, <1>4, <1>5, ToldKept DEF ReachableCall, CopyCall

\* A step that disturbs no call and changes rules at most.
LEMMA QuietFrame ==
    ASSUME SyncInv, TypeOK',
           \A op \in {"heard", "process", "copy", "successors", "reachable"} : Undisturbed(op),
           ProcessOrdered, CopyOrdered,
           UNCHANGED <<fieldEdges, callEdges, contexts, reachedStates, listeners, history>>
    PROVE  SyncInv'
<1>1. HeardSound' /\ HeardKept'
  BY HeardFrame DEF SyncInv
<1>2. ContextSound' /\ ReachedSound'
  BY ContextFrame DEF SyncInv
<1>3. ProcessKept' /\ ProcessSound'
  BY ProcessFrame DEF SyncInv
<1>4. AllComputed' /\ AllTold'
  BY ComputedFrame, ToldFrame DEF SyncInv, history
<1> QED BY <1>1, <1>2, <1>3, <1>4 DEF SyncInv

LEMMA InnermostCall ==
    ASSUME TypeOK, NEW c \in Innermost
    PROVE  agenda \in Seq(SUBSET Call) /\ c \in Call /\ 1 \in DOMAIN agenda /\ c \in agenda[1]
<1>1. agenda \in Seq(SUBSET Call)
  BY DEF TypeOK
<1> QED BY <1>1 DEF Innermost

LEMMA ReturnMoved ==
    ASSUME TypeOK, NEW c \in Innermost, NEW body \in Seq(SUBSET Call), Return(c, body),
           NEW ops, Makes(body, ops)
    PROVE  Moved(c, body, ops)
<1>1. agenda \in Seq(SUBSET Call)
  BY DEF TypeOK
<1>2. agenda' \in Seq(SUBSET Call) /\ Stacked(c, body)
  BY <1>1, ReturnStack
<1> QED BY <1>1, <1>2 DEF Moved

LEMMA ResumeMoved ==
    ASSUME TypeOK, NEW c \in Innermost, NEW body \in Seq(SUBSET Call), Resume(c, body, c),
           NEW ops, Makes(body, ops)
    PROVE  Moved(noCall, body, ops)
<1>1. agenda \in Seq(SUBSET Call)
  BY DEF TypeOK
<1>2. agenda' \in Seq(SUBSET Call) /\ Stacked(noCall, body)
  BY <1>1, NoCall, ResumedStack
<1> QED BY <1>1, <1>2 DEF Moved

LEMMA PushMoved ==
    ASSUME TypeOK, NEW body \in Seq(SUBSET Call), agenda' = body \o agenda,
           NEW ops, Makes(body, ops)
    PROVE  Moved(noCall, body, ops)
<1>1. agenda \in Seq(SUBSET Call)
  BY DEF TypeOK
<1>2. agenda' \in Seq(SUBSET Call) /\ Stacked(noCall, body)
  BY <1>1, NoCall, PushedStack
<1> QED BY <1>1, <1>2 DEF Moved

(***************************************************************************)
(* The steps that only return or add rules.                                *)
(***************************************************************************)
LEMMA EndLoopInv == ASSUME SyncInv, EndLoop PROVE SyncInv'
<1>1. agenda \in Seq(SUBSET Call) /\ LoopEnds /\ UNCHANGED data
  BY DEF SyncInv, TypeOK, EndLoop
<1>2. agenda' \in Seq(SUBSET Call)
  BY <1>1, EndedStack
<1>3. TypeOK'
  BY <1>1, <1>2 DEF SyncInv, TypeOK, data, automata, contexts, clients, history
<1>4. \A op : Undisturbed(op)
  BY <1>1, CallKeptAtEnd DEF Undisturbed
<1>5. ProcessOrdered /\ CopyOrdered
  BY <1>1, BehindKeptAtEnd DEF ProcessOrdered, CopyOrdered, Ordered
<1> QED BY <1>1, <1>3, <1>4, <1>5, QuietFrame DEF data, automata, clients

\* A call that leaves these kinds of calls alone.
quiet == {"rule", "saturate", "client", "flow"}

LEMMA QuietReturn ==
    ASSUME SyncInv, NEW c \in Innermost, c.op \in quiet, NEW body \in Seq(SUBSET Call),
           Makes(body, quiet), Return(c, body),
           fieldRules' \subseteq FieldRules, callRules' \subseteq CallRules,
           UNCHANGED <<fieldEdges, callEdges, contexts, reachedStates, clients, history>>
    PROVE  SyncInv'
<1>1. Moved(c, body, quiet)
  BY ReturnMoved DEF SyncInv
<1>2. TypeOK'
  BY <1>1 DEF SyncInv, TypeOK, Moved, contexts, clients, history
<1>3. \A op \in {"heard", "process", "copy", "successors", "reachable"} : Undisturbed(op)
  BY <1>1, OthersUndisturbed DEF quiet
<1>4. ProcessOrdered /\ CopyOrdered
  BY <1>1, OrderKept DEF quiet, ProcessOrdered, CopyOrdered
<1> QED BY <1>2, <1>3, <1>4, QuietFrame DEF clients

LEMMA QuietActionsInv ==
    ASSUME SyncInv, NEW c \in Innermost,
           ClientReturn(c) \/ SaturationReturns(c) \/ AddFieldRule(c) \/ AddCallRule(c)
             \/ ProcessFlow(c)
    PROVE  SyncInv'
<1>1. c \in Call /\ fieldRules \subseteq FieldRules /\ callRules \subseteq CallRules
  BY InnermostCall DEF SyncInv, TypeOK
<1>2. <<>> \in Seq(SUBSET Call) /\ Makes(<<>>, quiet)
  BY DEF Makes
<1>3. ASSUME NEW x \in System
      PROVE  <<Saturate(x)>> \in Seq(SUBSET Call) /\ Makes(<<Saturate(x)>>, quiet)
  <2>1. <<Saturate(x)>> \in Seq(SUBSET Call)
    BY CallTypes, LoopTypes
  <2>2. \A d \in Saturate(x) : d.op \in quiet
    BY DEF Saturate, quiet
  <2> QED BY <2>1, <2>2 DEF Makes
<1>4. CASE ClientReturn(c) \/ SaturationReturns(c)
  <2>1. c.op \in quiet /\ Return(c, <<>>) /\ UNCHANGED data
    BY <1>4 DEF ClientReturn, SaturationReturns, quiet
  <2> QED BY <1>1, <1>2, <2>1, QuietReturn DEF data, automata
<1>5. CASE AddFieldRule(c)
  <2>1. /\ c.op \in quiet
        /\ Return(c, <<>>) \/ Return(c, <<Saturate("fields")>>)
        /\ fieldRules' \subseteq FieldRules /\ callRules' \subseteq CallRules
        /\ UNCHANGED <<fieldEdges, callEdges, contexts, reachedStates, clients, history>>
    BY <1>1, <1>5, CallFields DEF AddFieldRule, quiet
  <2> QED BY <1>2, <1>3, <2>1, QuietReturn DEF System
<1>6. CASE AddCallRule(c)
  <2>1. /\ c.op \in quiet
        /\ Return(c, <<>>) \/ Return(c, <<Saturate("calls")>>)
        /\ fieldRules' \subseteq FieldRules /\ callRules' \subseteq CallRules
        /\ UNCHANGED <<fieldEdges, callEdges, contexts, reachedStates, clients, history>>
    BY <1>1, <1>6, CallFields DEF AddCallRule, quiet
  <2> QED BY <1>2, <1>3, <2>1, QuietReturn DEF System
<1>7. CASE ProcessFlow(c)
  <2> DEFINE F == AddRule("fields", FieldRule(c.n, c.s))
             K == AddRule("calls", CallRule(c.n, c.s))
  <2>1. c.op \in quiet /\ Return(c, <<F, K>>) /\ UNCHANGED data
        /\ c.n \in Node /\ c.s \in Successor
    BY <1>1, <1>7, CallFields DEF ProcessFlow, quiet
  <2>2. F \in SUBSET Call /\ K \in SUBSET Call
    BY <2>1, SuccessorRules, CallTypes
  <2>3. \A d \in F \cup K : d.op \in quiet
    BY DEF AddRule, quiet
  <2> HIDE DEF F, K
  <2>4. <<F, K>> \in Seq(SUBSET Call) /\ Makes(<<F, K>>, quiet)
    BY <2>2, <2>3 DEF Makes
  <2> QED BY <1>1, <2>1, <2>4, QuietReturn DEF data, automata
<1> QED BY <1>4, <1>5, <1>6, <1>7

LEMMA ForwardPopsInv == ASSUME SyncInv, NEW c \in Innermost, ForwardPops(c) PROVE SyncInv'
<1>1. /\ UNCHANGED <<fieldEdges, callEdges, contexts, reachedStates, clients, history, agenda>>
      /\ fieldRules' \subseteq fieldRules \cup ForwardedFields(fieldEdges, fieldRules)
      /\ callRules' \subseteq callRules \cup ForwardedCalls(callEdges, callRules)
  BY DEF ForwardPops
<1>2. TypeOK'
  BY <1>1, PopsForwarded DEF SyncInv, TypeOK, contexts, clients, history
<1>3. (\A op : Undisturbed(op)) /\ ProcessOrdered /\ CopyOrdered
  BY <1>1 DEF Undisturbed, ProcessOrdered, CopyOrdered, Ordered, Pending, Once, Behind
<1> QED BY <1>1, <1>2, <1>3, QuietFrame DEF clients

(***************************************************************************)
(* The steps that add a transition.                                        *)
(***************************************************************************)
LEMMA FieldEdgeInv ==
    ASSUME SyncInv, NEW t \in FieldEdge, NEW c, NEW body, Moved(c, body, {"heard", "saturate"}),
           c.op = "none" \/ (c.op = "add" /\ c.system = "fields" /\ c.t = t),
           fieldEdges' = fieldEdges \cup {t},
           \A i \in DOMAIN body : \A d \in body[i] : d.op = "heard" => d = HeardCall("fields", t),
           t \in fieldEdges \/ \E i \in DOMAIN body : HeardCall("fields", t) \in body[i],
           UNCHANGED <<fieldRules, callRules, callEdges, contexts, reachedStates, clients, history>>
    PROVE  SyncInv'
<1>1. Stacked(c, body) /\ agenda' \in Seq(SUBSET Call)
      /\ Len(body) \in Nat /\ DOMAIN agenda \subseteq Nat
  BY DEF Moved
<1>2. TypeOK'
  BY <1>1 DEF SyncInv, TypeOK, contexts, clients, history
<1>3. HeardSound' /\ HeardKept'
  <2>1. \A d : d.op = "heard" /\ Pending(d) => Pending(d)'
    BY <1>1, PendingAfter
  <2>2. \A d : d.op = "heard" /\ Pending(d)' => Pending(d) \/ d = HeardCall("fields", t)
    BY <1>1, PendingBefore
  <2>3. t \in fieldEdges \/ Pending(HeardCall("fields", t))'
    BY <1>1, PendingAfter
  <2>4. \A x, u : /\ HeardCall(x, u).op = "heard"
                 /\ HeardCall(x, u) = HeardCall("fields", t) => x = "fields" /\ u = t
    BY DEF HeardCall
  <2>7. \A x, u : Pending(HeardCall(x, u)) => Pending(HeardCall(x, u))'
    BY <2>1 DEF HeardCall
  <2>8. \A x, u : Pending(HeardCall(x, u))' =>
                   Pending(HeardCall(x, u)) \/ (x = "fields" /\ u = t)
    BY <2>2 DEF HeardCall
  <2>5. HeardSound'
    BY <2>8 DEF SyncInv, HeardSound
  <2>6. HeardKept'
    BY <2>3, <2>7 DEF SyncInv, HeardKept, contexts
  <2> QED BY <2>5, <2>6
<1>4. ContextSound' /\ ReachedSound'
  BY ContextFrame DEF SyncInv
<1>5. /\ Undisturbed("process") /\ Undisturbed("successors")
      /\ Undisturbed("reachable") /\ Undisturbed("copy") /\ CopyOrdered
  BY OthersUndisturbed, OrderKept DEF CopyOrdered
<1>6. ProcessKept'
  <2>1. \A n : Pending(ProcessCall(n))' <=> Pending(ProcessCall(n))
    BY <1>5 DEF Undisturbed, ProcessCall
  <2> QED BY <2>1 DEF SyncInv, ProcessKept, contexts
<1>7. ASSUME NEW n \in Node
      PROVE  /\ InFields(n)' \/ Behind(ProcessCall(n), StartField(n))'
             /\ InCalls(n)' \/ Behind(ProcessCall(n), StartCall(n))'
  <2>1. \A i \in DOMAIN body : ProcessCall(n) \notin body[i]
    BY DEF Moved, Makes, ProcessCall
  <2>2. \A e : e # c /\ Behind(ProcessCall(n), e) => Behind(ProcessCall(n), e)'
    BY <1>1, <2>1, BehindKept
  <2>3. (InFields(n) => InFields(n)') /\ (InCalls(n) => InCalls(n)')
    BY SidesKept
  <2>4. StartField(n) = c => InFields(n)'
    BY DEF StartField, InFields, Edge
  <2>5. StartCall(n) # c
    BY DEF StartCall
  <2> QED BY <2>2, <2>3, <2>4, <2>5 DEF SyncInv, ProcessSound
<1>8. AllComputed' /\ AllTold'
  BY <1>5, ComputedFrame, ToldFrame DEF SyncInv, history, clients
<1> QED BY <1>2, <1>3, <1>4, <1>6, <1>7, <1>8 DEF SyncInv, ProcessSound

LEMMA AddFieldEdgeInv ==
    ASSUME SyncInv, NEW c \in Innermost, AddFieldEdge(c) \/ SaturateFields(c)
    PROVE  SyncInv'
<1> DEFINE ops == {"heard", "saturate"}
<1>1. /\ c \in Call /\ TypeOK /\ fieldEdges \in SUBSET FieldEdge
      /\ fieldRules \in SUBSET FieldRules
  BY InnermostCall DEF SyncInv, TypeOK
<1>2. ASSUME NEW t \in FieldEdge
      PROVE  /\ <<Heard("fields", t)>> \in Seq(SUBSET Call)
             /\ Makes(<<Heard("fields", t)>>, ops)
             /\ <<Heard("fields", t), Saturate("fields")>> \in Seq(SUBSET Call)
             /\ Makes(<<Heard("fields", t), Saturate("fields")>>, ops)
             /\ Heard("fields", t) = {HeardCall("fields", t)}
             /\ \A d \in Saturate("fields") : d.op # "heard"
  <2>1. Heard("fields", t) \in SUBSET Call /\ Saturate("fields") \in SUBSET Call
    BY CallTypes DEF System
  <2>2. (\A d \in Heard("fields", t) : d.op \in ops) /\ (\A d \in Saturate("fields") : d.op \in ops)
    BY DEF Heard, Saturate
  <2>3. /\ Heard("fields", t) = {HeardCall("fields", t)}
        /\ \A d \in Saturate("fields") : d.op # "heard"
    BY DEF Heard, HeardCall, Saturate
  <2> HIDE DEF ops
  <2> QED BY <2>1, <2>2, <2>3 DEF Makes
<1>3. CASE AddFieldEdge(c)
  <2>1. /\ c.op = "add" /\ c.system = "fields" /\ c.t \in FieldEdge
        /\ fieldEdges' = fieldEdges \cup {c.t}
        /\ UNCHANGED <<fieldRules, callRules, callEdges, contexts, reachedStates, clients, history>>
    BY <1>1, <1>3, CallFields DEF AddFieldEdge
  <2>2. CASE c.t \in fieldEdges
    <3>1. Return(c, <<>>) /\ <<>> \in Seq(SUBSET Call) /\ Makes(<<>>, ops)
      BY <1>3, <2>2 DEF AddFieldEdge, Makes
    <3>2. Moved(c, <<>>, ops)
      BY <1>1, <3>1, ReturnMoved
    <3> QED BY <2>1, <2>2, <3>2, FieldEdgeInv
  <2>3. CASE c.t \notin fieldEdges
    <3> DEFINE body == <<Heard("fields", c.t), Saturate("fields")>>
    <3>1. Return(c, body)
      BY <1>3, <2>3 DEF AddFieldEdge
    <3>2. Moved(c, body, ops)
      BY <1>1, <1>2, <2>1, <3>1, ReturnMoved
    <3>5. /\ DOMAIN body = {1, 2} /\ body[1] = Heard("fields", c.t)
          /\ body[2] = Saturate("fields")
      OBVIOUS
    <3> HIDE DEF body
    <3>6. /\ Heard("fields", c.t) = {HeardCall("fields", c.t)}
          /\ \A d \in Saturate("fields") : d.op # "heard"
      BY <1>2, <2>1
    <3>3. \A i \in DOMAIN body : \A d \in body[i] : d.op = "heard" => d = HeardCall("fields", c.t)
      BY <3>5, <3>6
    <3>4. 1 \in DOMAIN body /\ HeardCall("fields", c.t) \in body[1]
      BY <3>5, <3>6
    <3> QED BY <2>1, <3>2, <3>3, <3>4, FieldEdgeInv
  <2> QED BY <2>2, <2>3
<1>4. CASE SaturateFields(c)
  <2>1. PICK t \in EntailedFields(fieldEdges, fieldRules) :
           /\ fieldEdges' = fieldEdges \cup {t}
           /\ Resume(c, <<Heard("fields", t)>>, c)
    BY <1>4 DEF SaturateFields
  <2>2. t \in FieldEdge
    BY <1>1, EdgesEntailed
  <2>3. UNCHANGED <<fieldRules, callRules, callEdges, contexts, reachedStates, clients, history>>
    BY <1>4 DEF SaturateFields
  <2> DEFINE body == <<Heard("fields", t)>>
  <2>4. Moved(noCall, body, ops)
    BY <1>1, <1>2, <2>1, <2>2, ResumeMoved
  <2>7. noCall.op = "none"
    BY DEF noCall
  <2>8. DOMAIN body = {1} /\ body[1] = Heard("fields", t)
    OBVIOUS
  <2> HIDE DEF body
  <2>5. \A i \in DOMAIN body : \A d \in body[i] : d.op = "heard" => d = HeardCall("fields", t)
    BY <1>2, <2>2, <2>8
  <2>6. 1 \in DOMAIN body /\ HeardCall("fields", t) \in body[1]
    BY <1>2, <2>2, <2>8
  <2> QED BY <2>1, <2>2, <2>3, <2>4, <2>5, <2>6, <2>7, FieldEdgeInv
<1> QED BY <1>3, <1>4

LEMMA CallEdgeInv ==
    ASSUME SyncInv, NEW t \in CallEdge, NEW c, NEW body, Moved(c, body, {"heard", "saturate"}),
           c.op = "none" \/ (c.op = "add" /\ c.system = "calls" /\ c.t = t),
           callEdges' = callEdges \cup {t},
           \A i \in DOMAIN body : \A d \in body[i] : d.op = "heard" => d = HeardCall("calls", t),
           t \in callEdges \/ \E i \in DOMAIN body : HeardCall("calls", t) \in body[i],
           UNCHANGED <<fieldRules, callRules, fieldEdges, contexts, reachedStates, clients, history>>
    PROVE  SyncInv'
<1>1. Stacked(c, body) /\ agenda' \in Seq(SUBSET Call)
      /\ Len(body) \in Nat /\ DOMAIN agenda \subseteq Nat
  BY DEF Moved
<1>2. TypeOK'
  BY <1>1 DEF SyncInv, TypeOK, contexts, clients, history
<1>3. HeardSound' /\ HeardKept'
  <2>1. \A d : d.op = "heard" /\ Pending(d) => Pending(d)'
    BY <1>1, PendingAfter
  <2>2. \A d : d.op = "heard" /\ Pending(d)' => Pending(d) \/ d = HeardCall("calls", t)
    BY <1>1, PendingBefore
  <2>3. t \in callEdges \/ Pending(HeardCall("calls", t))'
    BY <1>1, PendingAfter
  <2>4. \A x, u : /\ HeardCall(x, u).op = "heard"
                 /\ HeardCall(x, u) = HeardCall("calls", t) => x = "calls" /\ u = t
    BY DEF HeardCall
  <2>7. \A x, u : Pending(HeardCall(x, u)) => Pending(HeardCall(x, u))'
    BY <2>1 DEF HeardCall
  <2>8. \A x, u : Pending(HeardCall(x, u))' =>
                   Pending(HeardCall(x, u)) \/ (x = "calls" /\ u = t)
    BY <2>2 DEF HeardCall
  <2>5. HeardSound'
    BY <2>8 DEF SyncInv, HeardSound
  <2>6. HeardKept'
    BY <2>3, <2>7 DEF SyncInv, HeardKept, contexts
  <2> QED BY <2>5, <2>6
<1>4. ContextSound' /\ ReachedSound'
  BY ContextFrame DEF SyncInv
<1>5. /\ Undisturbed("process") /\ Undisturbed("successors")
      /\ Undisturbed("reachable") /\ Undisturbed("copy") /\ CopyOrdered
  BY OthersUndisturbed, OrderKept DEF CopyOrdered
<1>6. ProcessKept'
  <2>1. \A n : Pending(ProcessCall(n))' <=> Pending(ProcessCall(n))
    BY <1>5 DEF Undisturbed, ProcessCall
  <2> QED BY <2>1 DEF SyncInv, ProcessKept, contexts
<1>7. ASSUME NEW n \in Node
      PROVE  /\ InFields(n)' \/ Behind(ProcessCall(n), StartField(n))'
             /\ InCalls(n)' \/ Behind(ProcessCall(n), StartCall(n))'
  <2>1. \A i \in DOMAIN body : ProcessCall(n) \notin body[i]
    BY DEF Moved, Makes, ProcessCall
  <2>2. \A e : e # c /\ Behind(ProcessCall(n), e) => Behind(ProcessCall(n), e)'
    BY <1>1, <2>1, BehindKept
  <2>3. (InFields(n) => InFields(n)') /\ (InCalls(n) => InCalls(n)')
    BY SidesKept
  <2>4. StartCall(n) = c => InCalls(n)'
    BY DEF StartCall, InCalls, Edge
  <2>5. StartField(n) # c
    BY DEF StartField
  <2> QED BY <2>2, <2>3, <2>4, <2>5 DEF SyncInv, ProcessSound
<1>8. AllComputed' /\ AllTold'
  BY <1>5, ComputedFrame, ToldFrame DEF SyncInv, history, clients
<1> QED BY <1>2, <1>3, <1>4, <1>6, <1>7, <1>8 DEF SyncInv, ProcessSound

LEMMA AddCallEdgeInv ==
    ASSUME SyncInv, NEW c \in Innermost, AddCallEdge(c) \/ SaturateCalls(c)
    PROVE  SyncInv'
<1> DEFINE ops == {"heard", "saturate"}
<1>1. /\ c \in Call /\ TypeOK /\ callEdges \in SUBSET CallEdge
      /\ callRules \in SUBSET CallRules
  BY InnermostCall DEF SyncInv, TypeOK
<1>2. ASSUME NEW t \in CallEdge
      PROVE  /\ <<Heard("calls", t)>> \in Seq(SUBSET Call)
             /\ Makes(<<Heard("calls", t)>>, ops)
             /\ <<Heard("calls", t), Saturate("calls")>> \in Seq(SUBSET Call)
             /\ Makes(<<Heard("calls", t), Saturate("calls")>>, ops)
             /\ Heard("calls", t) = {HeardCall("calls", t)}
             /\ \A d \in Saturate("calls") : d.op # "heard"
  <2>1. Heard("calls", t) \in SUBSET Call /\ Saturate("calls") \in SUBSET Call
    BY CallTypes DEF System
  <2>2. (\A d \in Heard("calls", t) : d.op \in ops) /\ (\A d \in Saturate("calls") : d.op \in ops)
    BY DEF Heard, Saturate
  <2>3. /\ Heard("calls", t) = {HeardCall("calls", t)}
        /\ \A d \in Saturate("calls") : d.op # "heard"
    BY DEF Heard, HeardCall, Saturate
  <2> HIDE DEF ops
  <2> QED BY <2>1, <2>2, <2>3 DEF Makes
<1>3. CASE AddCallEdge(c)
  <2>1. /\ c.op = "add" /\ c.system = "calls" /\ c.t \in CallEdge
        /\ callEdges' = callEdges \cup {c.t}
        /\ UNCHANGED <<fieldRules, callRules, fieldEdges, contexts, reachedStates, clients, history>>
    BY <1>1, <1>3, CallFields DEF AddCallEdge
  <2>2. CASE c.t \in callEdges
    <3>1. Return(c, <<>>) /\ <<>> \in Seq(SUBSET Call) /\ Makes(<<>>, ops)
      BY <1>3, <2>2 DEF AddCallEdge, Makes
    <3>2. Moved(c, <<>>, ops)
      BY <1>1, <3>1, ReturnMoved
    <3> QED BY <2>1, <2>2, <3>2, CallEdgeInv
  <2>3. CASE c.t \notin callEdges
    <3> DEFINE body == <<Heard("calls", c.t), Saturate("calls")>>
    <3>1. Return(c, body)
      BY <1>3, <2>3 DEF AddCallEdge
    <3>2. Moved(c, body, ops)
      BY <1>1, <1>2, <2>1, <3>1, ReturnMoved
    <3>5. /\ DOMAIN body = {1, 2} /\ body[1] = Heard("calls", c.t)
          /\ body[2] = Saturate("calls")
      OBVIOUS
    <3> HIDE DEF body
    <3>6. /\ Heard("calls", c.t) = {HeardCall("calls", c.t)}
          /\ \A d \in Saturate("calls") : d.op # "heard"
      BY <1>2, <2>1
    <3>3. \A i \in DOMAIN body : \A d \in body[i] : d.op = "heard" => d = HeardCall("calls", c.t)
      BY <3>5, <3>6
    <3>4. 1 \in DOMAIN body /\ HeardCall("calls", c.t) \in body[1]
      BY <3>5, <3>6
    <3> QED BY <2>1, <3>2, <3>3, <3>4, CallEdgeInv
  <2> QED BY <2>2, <2>3
<1>4. CASE SaturateCalls(c)
  <2>1. PICK t \in EntailedCalls(callEdges, callRules) :
           /\ callEdges' = callEdges \cup {t}
           /\ Resume(c, <<Heard("calls", t)>>, c)
    BY <1>4 DEF SaturateCalls
  <2>2. t \in CallEdge
    BY <1>1, EdgesEntailed
  <2>3. UNCHANGED <<fieldRules, callRules, fieldEdges, contexts, reachedStates, clients, history>>
    BY <1>4 DEF SaturateCalls
  <2> DEFINE body == <<Heard("calls", t)>>
  <2>4. Moved(noCall, body, ops)
    BY <1>1, <1>2, <2>1, <2>2, ResumeMoved
  <2>7. noCall.op = "none"
    BY DEF noCall
  <2>8. DOMAIN body = {1} /\ body[1] = Heard("calls", t)
    OBVIOUS
  <2> HIDE DEF body
  <2>5. \A i \in DOMAIN body : \A d \in body[i] : d.op = "heard" => d = HeardCall("calls", t)
    BY <1>2, <2>2, <2>8
  <2>6. 1 \in DOMAIN body /\ HeardCall("calls", t) \in body[1]
    BY <1>2, <2>2, <2>8
  <2> QED BY <2>1, <2>2, <2>3, <2>4, <2>5, <2>6, <2>7, CallEdgeInv
<1> QED BY <1>3, <1>4

(***************************************************************************)
(* The steps of the solver.                                                *)
(***************************************************************************)
LEMMA SetFieldContextReachableInv ==
    ASSUME SyncInv, NEW c \in Innermost, SetFieldContextReachable(c)
    PROVE  SyncInv'
<1> DEFINE nodes == IF IsGenerated(c.t.start) THEN {} ELSE {c.t.start[1]}
           new == (nodes \ fieldContextReachable) \cap callingContextReachable
           P == UNION {Process(n) : n \in new}
           body == <<P>>
<1>1. /\ c \in Call /\ TypeOK /\ c.op = "heard" /\ c.system = "fields" /\ c.t \in FieldEdge
      /\ Pending(c) /\ c = HeardCall("fields", c.t)
  <2>1. c.op = "heard" /\ c.system = "fields" /\ TypeOK
    BY DEF SetFieldContextReachable, SyncInv
  <2>2. c \in Call /\ Pending(c)
    BY <2>1, InnermostCall DEF Pending
  <2> QED BY <2>1, <2>2, CallFields, CallEqual
<1>2. c.t \in fieldEdges
  <2>1. Pending(HeardCall("fields", c.t))
    BY <1>1
  <2> QED BY <1>1, <2>1 DEF SyncInv, HeardSound
<1>3. nodes \subseteq Node
      /\ \A n \in nodes : InFields(n)
  <2>1. CASE IsGenerated(c.t.start)
    BY <2>1
  <2>2. CASE ~IsGenerated(c.t.start)
    <3>1. c.t.start = Single(c.t.start[1]) /\ nodes \subseteq Node
      BY <1>1, <2>2 DEF FieldEdge, FieldState, Single, IsGenerated, Node
    <3>2. \A n \in nodes : InFields(n)
      BY <1>2, <3>1, <2>2 DEF InFields
    <3> QED BY <3>1, <3>2
  <2> QED BY <2>1, <2>2
<1>4. /\ fieldContextReachable' = fieldContextReachable \cup nodes
      /\ Return(c, body)
      /\ UNCHANGED <<automata, callingContextReachable, reachedStates, clients, history>>
  BY DEF SetFieldContextReachable
<1>5. new \subseteq Node /\ P = {ProcessCall(n) : n \in new}
  BY <1>1, <1>3 DEF TypeOK, Process, ProcessCall
<1>6. P \in SUBSET Call /\ \A d \in P : d.op = "process"
  <2>1. \A n \in Node : ProcessCall(n) \in Call /\ ProcessCall(n).op = "process"
    BY DEF Call, ProcessCall
  <2> HIDE DEF P, new
  <2> QED BY <1>5, <2>1
<1>13. \A n \in new : InFields(n) /\ InCalls(n)
  BY <1>3 DEF SyncInv, ContextSound
<1>14. \A n \in fieldContextReachable' \cap callingContextReachable : n \in fieldContextReachable \/ n \in new
  BY <1>4
<1>15. IsGenerated(c.t.start) \/ c.t.start[1] \in nodes
  OBVIOUS
<1> HIDE DEF P, new, nodes
<1>7. body \in Seq(SUBSET Call) /\ DOMAIN body = {1} /\ body[1] = P
  BY <1>6, LoopTypes
<1> HIDE DEF body
<1>8. Makes(body, {"process"})
  BY <1>6, <1>7 DEF Makes
<1>9. Moved(c, body, {"process"})
  BY <1>1, <1>4, <1>7, <1>8, ReturnMoved
<1>10. /\ Stacked(c, body) /\ agenda' \in Seq(SUBSET Call)
       /\ Len(body) \in Nat /\ DOMAIN agenda \subseteq Nat
  BY <1>9 DEF Moved
<1>11. /\ Undisturbed("successors") /\ Undisturbed("reachable") /\ Undisturbed("copy")
       /\ CopyOrdered
  BY <1>1, <1>9, OthersUndisturbed, OrderKept DEF CopyOrdered
<1>12. TypeOK'
  BY <1>1, <1>3, <1>4, <1>10 DEF TypeOK, automata, clients, history
<1>16. HeardSound' /\ HeardKept'
  <2>1. \A x, t : Pending(HeardCall(x, t))' => Pending(HeardCall(x, t))
    <3>1. \A x, t : \A i \in DOMAIN body : HeardCall(x, t) \notin body[i]
      BY <1>6, <1>7 DEF HeardCall
    <3> QED BY <1>10, <3>1, PendingBefore DEF HeardCall
  <2>2. \A x, t : Pending(HeardCall(x, t)) =>
                     Pending(HeardCall(x, t))' \/ HeardCall(x, t) = c
    BY <1>10, PendingAfter DEF HeardCall
  <2>3. \A x, t : HeardCall(x, t) = c => x = "fields" /\ t = c.t
    BY <1>1 DEF HeardCall
  <2>4. HeardSound'
    BY <1>4, <2>1 DEF SyncInv, HeardSound, automata
  <2>5. HeardKept'
    BY <1>4, <1>15, <2>2, <2>3 DEF SyncInv, HeardKept, automata
  <2> QED BY <2>4, <2>5
<1>17. ContextSound' /\ ReachedSound'
  <2>1. fieldEdges \subseteq fieldEdges' /\ callEdges \subseteq callEdges'
    BY <1>4 DEF automata
  <2>2. /\ \A n : (InFields(n) => InFields(n)') /\ (InCalls(n) => InCalls(n)')
        /\ Matched \subseteq Matched'
    BY <2>1, SidesKept
  <2> QED BY <1>3, <1>4, <2>2 DEF SyncInv, ContextSound, ReachedSound
<1>18. ProcessKept'
  <2>1. \A n : Pending(ProcessCall(n)) => Pending(ProcessCall(n))'
    <3>1. \A n : ProcessCall(n) # c
      BY <1>1 DEF ProcessCall
    <3> QED BY <1>10, <3>1, PendingAfter DEF ProcessCall
  <2>2. \A n \in new : Pending(ProcessCall(n))'
    <3>1. \A n \in new : ProcessCall(n) \in body[1]
      BY <1>5, <1>7
    <3> QED BY <1>7, <1>10, <3>1, PendingAfter DEF ProcessCall
  <2> QED BY <1>4, <1>14, <2>1, <2>2 DEF SyncInv, ProcessKept
<1>19. ASSUME NEW n \in Node
       PROVE  /\ InFields(n)' \/ Behind(ProcessCall(n), StartField(n))'
              /\ InCalls(n)' \/ Behind(ProcessCall(n), StartCall(n))'
  <2>1. (InFields(n) => InFields(n)') /\ (InCalls(n) => InCalls(n)')
    BY <1>4, SidesKept DEF automata
  <2>2. CASE n \in new
    BY <1>13, <2>1, <2>2
  <2>3. CASE n \notin new
    <3>1. \A i \in DOMAIN body : ProcessCall(n) \notin body[i]
      BY <1>5, <1>7, <2>3 DEF ProcessCall
    <3>2. StartField(n) # c /\ StartCall(n) # c
      BY <1>1 DEF StartField, StartCall
    <3>3. \A e : e # c /\ Behind(ProcessCall(n), e) => Behind(ProcessCall(n), e)'
      BY <1>10, <3>1, BehindKept
    <3> QED BY <2>1, <3>2, <3>3 DEF SyncInv, ProcessSound
  <2> QED BY <2>2, <2>3
<1>20. AllComputed' /\ AllTold'
  BY <1>4, <1>11, ComputedFrame, ToldFrame DEF SyncInv, history, clients
<1> QED BY <1>12, <1>16, <1>17, <1>18, <1>19, <1>20 DEF SyncInv, ProcessSound

LEMMA SetCallingContextReachableInv ==
    ASSUME SyncInv, NEW c \in Innermost, SetCallingContextReachable(c)
    PROVE  SyncInv'
<1> DEFINE nodes == IF IsGenerated(c.t.start) THEN {} ELSE {<<c.t.label, c.t.start[1]>>}
           new == (nodes \ callingContextReachable) \cap fieldContextReachable
           P == UNION {Process(n) : n \in new}
           body == <<P>>
<1>1. /\ c \in Call /\ TypeOK /\ c.op = "heard" /\ c.system = "calls" /\ c.t \in CallEdge
      /\ Pending(c) /\ c = HeardCall("calls", c.t)
  <2>1. c.op = "heard" /\ c.system = "calls" /\ TypeOK
    BY DEF SetCallingContextReachable, SyncInv
  <2>2. c \in Call /\ Pending(c)
    BY <2>1, InnermostCall DEF Pending
  <2> QED BY <2>1, <2>2, CallFields, CallEqual
<1>2. c.t \in callEdges
  <2>1. Pending(HeardCall("calls", c.t))
    BY <1>1
  <2> QED BY <1>1, <2>1 DEF SyncInv, HeardSound
<1>3. nodes \subseteq (Stmt \cup {EpsStmt}) \X Fact
      /\ \A n \in nodes : InCalls(n)
  <2>1. CASE IsGenerated(c.t.start)
    BY <2>1
  <2>2. CASE ~IsGenerated(c.t.start)
    <3>1. c.t.start = Single(c.t.start[1]) /\ nodes \subseteq (Stmt \cup {EpsStmt}) \X Fact
      BY <1>1, <2>2 DEF CallEdge, CallState, Single, IsGenerated, Node
    <3>2. \A n \in nodes : InCalls(n)
      BY <1>2, <3>1, <2>2 DEF InCalls
    <3> QED BY <3>1, <3>2
  <2> QED BY <2>1, <2>2
<1>4. /\ callingContextReachable' = callingContextReachable \cup nodes
      /\ Return(c, body)
      /\ UNCHANGED <<automata, fieldContextReachable, reachedStates, clients, history>>
  BY DEF SetCallingContextReachable
<1>5. new \subseteq Node /\ P = {ProcessCall(n) : n \in new}
  BY <1>1, <1>3 DEF TypeOK, Process, ProcessCall
<1>6. P \in SUBSET Call /\ \A d \in P : d.op = "process"
  <2>1. \A n \in Node : ProcessCall(n) \in Call /\ ProcessCall(n).op = "process"
    BY DEF Call, ProcessCall
  <2> HIDE DEF P, new
  <2> QED BY <1>5, <2>1
<1>13. \A n \in new : InFields(n) /\ InCalls(n)
  BY <1>3 DEF SyncInv, ContextSound
<1>14. \A n \in callingContextReachable' \cap fieldContextReachable : n \in callingContextReachable \/ n \in new
  BY <1>4
<1>15. IsGenerated(c.t.start) \/ <<c.t.label, c.t.start[1]>> \in nodes
  OBVIOUS
<1> HIDE DEF P, new, nodes
<1>7. body \in Seq(SUBSET Call) /\ DOMAIN body = {1} /\ body[1] = P
  BY <1>6, LoopTypes
<1> HIDE DEF body
<1>8. Makes(body, {"process"})
  BY <1>6, <1>7 DEF Makes
<1>9. Moved(c, body, {"process"})
  BY <1>1, <1>4, <1>7, <1>8, ReturnMoved
<1>10. /\ Stacked(c, body) /\ agenda' \in Seq(SUBSET Call)
       /\ Len(body) \in Nat /\ DOMAIN agenda \subseteq Nat
  BY <1>9 DEF Moved
<1>11. /\ Undisturbed("successors") /\ Undisturbed("reachable") /\ Undisturbed("copy")
       /\ CopyOrdered
  BY <1>1, <1>9, OthersUndisturbed, OrderKept DEF CopyOrdered
<1>12. TypeOK'
  BY <1>1, <1>3, <1>4, <1>10 DEF TypeOK, automata, clients, history
<1>16. HeardSound' /\ HeardKept'
  <2>1. \A x, t : Pending(HeardCall(x, t))' => Pending(HeardCall(x, t))
    <3>1. \A x, t : \A i \in DOMAIN body : HeardCall(x, t) \notin body[i]
      BY <1>6, <1>7 DEF HeardCall
    <3> QED BY <1>10, <3>1, PendingBefore DEF HeardCall
  <2>2. \A x, t : Pending(HeardCall(x, t)) =>
                     Pending(HeardCall(x, t))' \/ HeardCall(x, t) = c
    BY <1>10, PendingAfter DEF HeardCall
  <2>3. \A x, t : HeardCall(x, t) = c => x = "calls" /\ t = c.t
    BY <1>1 DEF HeardCall
  <2>4. HeardSound'
    BY <1>4, <2>1 DEF SyncInv, HeardSound, automata
  <2>5. HeardKept'
    BY <1>4, <1>15, <2>2, <2>3 DEF SyncInv, HeardKept, automata
  <2> QED BY <2>4, <2>5
<1>17. ContextSound' /\ ReachedSound'
  <2>1. fieldEdges \subseteq fieldEdges' /\ callEdges \subseteq callEdges'
    BY <1>4 DEF automata
  <2>2. /\ \A n : (InFields(n) => InFields(n)') /\ (InCalls(n) => InCalls(n)')
        /\ Matched \subseteq Matched'
    BY <2>1, SidesKept
  <2> QED BY <1>3, <1>4, <2>2 DEF SyncInv, ContextSound, ReachedSound
<1>18. ProcessKept'
  <2>1. \A n : Pending(ProcessCall(n)) => Pending(ProcessCall(n))'
    <3>1. \A n : ProcessCall(n) # c
      BY <1>1 DEF ProcessCall
    <3> QED BY <1>10, <3>1, PendingAfter DEF ProcessCall
  <2>2. \A n \in new : Pending(ProcessCall(n))'
    <3>1. \A n \in new : ProcessCall(n) \in body[1]
      BY <1>5, <1>7
    <3> QED BY <1>7, <1>10, <3>1, PendingAfter DEF ProcessCall
  <2> QED BY <1>4, <1>14, <2>1, <2>2 DEF SyncInv, ProcessKept
<1>19. ASSUME NEW n \in Node
       PROVE  /\ InFields(n)' \/ Behind(ProcessCall(n), StartField(n))'
              /\ InCalls(n)' \/ Behind(ProcessCall(n), StartCall(n))'
  <2>1. (InFields(n) => InFields(n)') /\ (InCalls(n) => InCalls(n)')
    BY <1>4, SidesKept DEF automata
  <2>2. CASE n \in new
    BY <1>13, <2>1, <2>2
  <2>3. CASE n \notin new
    <3>1. \A i \in DOMAIN body : ProcessCall(n) \notin body[i]
      BY <1>5, <1>7, <2>3 DEF ProcessCall
    <3>2. StartField(n) # c /\ StartCall(n) # c
      BY <1>1 DEF StartField, StartCall
    <3>3. \A e : e # c /\ Behind(ProcessCall(n), e) => Behind(ProcessCall(n), e)'
      BY <1>10, <3>1, BehindKept
    <3> QED BY <2>1, <3>2, <3>3 DEF SyncInv, ProcessSound
  <2> QED BY <2>2, <2>3
<1>20. AllComputed' /\ AllTold'
  BY <1>4, <1>11, ComputedFrame, ToldFrame DEF SyncInv, history, clients
<1> QED BY <1>12, <1>16, <1>17, <1>18, <1>19, <1>20 DEF SyncInv, ProcessSound

\* What processing a node, again or for the first time, does to the other calls.
LEMMA ProcessedInv ==
    ASSUME SyncInv, NEW c \in Innermost, c.op = "process", NEW body,
           Moved(c, body, {"client", "copy", "successors"}),
           reachedStates' = reachedStates \cup {c.n},
           UNCHANGED <<automata, contexts, clients, history>>
    PROVE  /\ TypeOK' /\ HeardSound' /\ HeardKept' /\ ContextSound' /\ ReachedSound'
           /\ ProcessKept' /\ ProcessSound'
<1>1. c \in Call /\ c.n \in Node /\ c = ProcessCall(c.n) /\ agenda \in Seq(SUBSET Call)
  BY InnermostCall, CallFields, CallEqual DEF SyncInv
<1>2. /\ Stacked(c, body) /\ agenda' \in Seq(SUBSET Call)
      /\ Len(body) \in Nat /\ DOMAIN agenda \subseteq Nat
  BY DEF Moved
<1>3. InFields(c.n) /\ InCalls(c.n)
  <2>1. \A e : ~Behind(c, e)
    BY <1>1, FirstNotBehind
  <2>2. /\ InFields(c.n) \/ Behind(ProcessCall(c.n), StartField(c.n))
        /\ InCalls(c.n) \/ Behind(ProcessCall(c.n), StartCall(c.n))
    BY <1>1 DEF SyncInv, ProcessSound
  <2> QED BY <1>1, <2>1, <2>2
<1>4. TypeOK'
  BY <1>1, <1>2 DEF SyncInv, TypeOK, automata, contexts, clients, history
<1>5. HeardSound' /\ HeardKept'
  <2>1. Undisturbed("heard")
    BY OthersUndisturbed
  <2> QED BY <2>1, HeardFrame DEF SyncInv, automata
<1>6. /\ \A n : (InFields(n) => InFields(n)') /\ (InCalls(n) => InCalls(n)')
      /\ Matched \subseteq Matched'
  BY SidesKept DEF automata
<1>7. ContextSound'
  BY <1>6 DEF SyncInv, ContextSound, contexts
<1>8. ReachedSound'
  <2>1. c.n \in Matched
    BY <1>1, <1>3 DEF Matched, InFields, InCalls
  <2> QED BY <1>6, <2>1 DEF SyncInv, ReachedSound
<1>9. ProcessKept'
  <2>1. \A n : n # c.n /\ Pending(ProcessCall(n)) => Pending(ProcessCall(n))'
    <3>1. \A n : n # c.n => ProcessCall(n) # c
      BY DEF ProcessCall
    <3> QED BY <1>2, <3>1, PendingAfter DEF ProcessCall
  <2> QED BY <2>1 DEF SyncInv, ProcessKept, contexts
<1>10. ASSUME NEW n \in Node
       PROVE  /\ InFields(n)' \/ Behind(ProcessCall(n), StartField(n))'
              /\ InCalls(n)' \/ Behind(ProcessCall(n), StartCall(n))'
  <2>1. \A i \in DOMAIN body : ProcessCall(n) \notin body[i]
    BY DEF Moved, Makes, ProcessCall
  <2>2. StartField(n) # c /\ StartCall(n) # c
    BY DEF StartField, StartCall
  <2>3. \A e : e # c /\ Behind(ProcessCall(n), e) => Behind(ProcessCall(n), e)'
    BY <1>2, <2>1, BehindKept
  <2> QED BY <1>6, <2>2, <2>3 DEF SyncInv, ProcessSound
<1> QED BY <1>4, <1>5, <1>7, <1>8, <1>9, <1>10 DEF ProcessSound

LEMMA ProcessNodeInv == ASSUME SyncInv, NEW c \in Innermost, ProcessNode(c) PROVE SyncInv'
<1> DEFINE ops == {"client", "copy", "successors"}
           client == [op |-> "client"]
           copy == CopyCall(c.n)
           succ == SuccessorsCall(c.n)
           body == <<{client}, {copy}, {succ}>>
<1>1. /\ TypeOK /\ c.op = "process" /\ c.n \in Node /\ reachedStates' = reachedStates \cup {c.n}
      /\ UNCHANGED <<automata, contexts, clients, history>>
  BY InnermostCall, CallFields DEF SyncInv, ProcessNode
<1>2. CASE c.n \in reachedStates
  <2>1. Return(c, <<>>) /\ <<>> \in Seq(SUBSET Call) /\ Makes(<<>>, ops)
    BY <1>2 DEF ProcessNode, Makes
  <2>2. Moved(c, <<>>, ops)
    BY <1>1, <2>1, ReturnMoved
  <2>3. Makes(<<>>, {})
    BY DEF Makes
  <2>4. Moved(c, <<>>, {})
    BY <2>2, <2>3 DEF Moved
  <2>5. /\ Undisturbed("successors") /\ Undisturbed("reachable") /\ Undisturbed("copy")
        /\ CopyOrdered
    BY <1>1, <2>4, OthersUndisturbed, OrderKept DEF CopyOrdered
  <2>6. AllComputed' /\ AllTold'
    BY <1>1, <1>2, <2>5, ComputedFrame, ToldFrame DEF SyncInv, history, clients
  <2> QED BY <1>1, <2>2, <2>6, ProcessedInv DEF SyncInv
<1>3. CASE c.n \notin reachedStates
  <2>1. Return(c, body)
    BY <1>3 DEF ProcessNode, SuccessorsCall
  <2>3. {client} \in SUBSET Call /\ {copy} \in SUBSET Call /\ {succ} \in SUBSET Call
    BY <1>1, CallTypes DEF SuccessorsCall
  <2>5. client.op = "client" /\ copy.op = "copy" /\ succ.op = "successors"
    BY DEF CopyCall, SuccessorsCall
  <2> HIDE DEF client, copy, succ
  <2>7. /\ body \in Seq(SUBSET Call) /\ DOMAIN body = {1, 2, 3}
        /\ body[1] = {client} /\ body[2] = {copy} /\ body[3] = {succ}
    BY <2>3, LoopTypes
  <2> HIDE DEF body
  <2>8. Makes(body, ops)
    BY <2>5, <2>7 DEF Makes
  <2>9. Moved(c, body, ops)
    BY <1>1, <2>1, <2>7, <2>8, ReturnMoved
  <2>10. Stacked(c, body)
    BY <2>9 DEF Moved
  <2>11. ASSUME NEW n \in Node
         PROVE  Counted(SuccessorsCall(n), n \in reachedStates, computed[n])'
    <3>1. Counted(SuccessorsCall(n), n \in reachedStates, computed[n])
      BY DEF SyncInv, AllComputed
    <3>2. CASE n = c.n
      <4>1. SuccessorsCall(n) = succ /\ ~Pending(succ) /\ computed[n] = 0
        BY <1>3, <3>1, <3>2 DEF Counted, succ
      <4>2. succ \in body[3] /\ \A i \in DOMAIN body : succ \in body[i] => i = 3
        BY <2>5, <2>7
      <4>3. Pending(succ)' /\ Once(succ)'
        BY <2>7, <2>10, <4>1, <4>2, CallMade DEF succ, SuccessorsCall
      <4>4. Pending(SuccessorsCall(n))' /\ Once(SuccessorsCall(n))'
        BY <3>2, <4>3 DEF succ, SuccessorsCall
      <4>5. n \in reachedStates' /\ computed'[n] = 0
        BY <1>1, <3>2, <4>1 DEF history
      <4> QED BY <4>4, <4>5 DEF Counted
    <3>3. CASE n # c.n
      <4>1. SuccessorsCall(n) # c /\ SuccessorsCall(n) # succ
            /\ SuccessorsCall(n).op = "successors"
        BY <1>1, <3>3 DEF succ, SuccessorsCall
      <4>2. \A i \in DOMAIN body : SuccessorsCall(n) \notin body[i]
        BY <2>5, <2>7, <4>1
      <4>3. /\ Pending(SuccessorsCall(n))' <=> Pending(SuccessorsCall(n))
            /\ Once(SuccessorsCall(n)) => Once(SuccessorsCall(n))'
        BY <2>10, <4>1, <4>2, CallKept DEF SuccessorsCall
      <4> QED BY <1>1, <3>1, <3>3, <4>3 DEF Counted, history
    <3> QED BY <3>2, <3>3
  <2>12. ASSUME NEW l \in StateListener
         PROVE  ToldRight(l)'
    <3> DEFINE d == ReachableCall(l)
               m == CopyCall(ListensAt[l])
    <3>1. ToldRight(l)
      BY DEF SyncInv, AllTold
    <3>2. d.op = "reachable" /\ m.op = "copy"
          /\ \A n : CopyCall(n) = m => n = ListensAt[l]
      BY DEF ReachableCall, CopyCall
    <3>3. d # c /\ m # c /\ \A i \in DOMAIN body : d \notin body[i]
      BY <1>1, <2>5, <2>7, <3>2
    <3>4. /\ Pending(d)' <=> Pending(d)
          /\ Once(d) => Once(d)'
      BY <2>10, <3>3, CallKept DEF ReachableCall
    <3>5. CASE ListensAt[l] = c.n
      <4>1. /\ ~IsDue(l) /\ told[l] = 0 /\ ~Pending(d) /\ ~Pending(m) /\ l \notin during
            /\ Once(d)
        BY <1>3, <3>1, <3>5 DEF ToldRight, IsDue
      <4>2. 2 \in DOMAIN body /\ m \in body[2]
            /\ \A i \in DOMAIN body : m \in body[i] => i = 2
        BY <2>5, <2>7, <3>2, <3>5 DEF copy
      <4>3. Pending(m)' /\ Once(m)'
        BY <2>10, <4>1, <4>2, CallMade DEF CopyCall
      <4>4. ListensAt[l] \in reachedStates' /\ told'[l] = 0 /\ l \notin during'
        BY <1>1, <3>5, <4>1 DEF history
      <4> QED BY <3>4, <4>1, <4>3, <4>4
              DEF ToldRight, Stage, ReachableCall, CopyCall
    <3>6. CASE ListensAt[l] # c.n
      <4>1. \A i \in DOMAIN body : m \notin body[i]
        BY <2>5, <2>7, <3>2, <3>6 DEF copy
      <4>2. /\ Pending(m)' <=> Pending(m)
            /\ Once(m) => Once(m)'
        BY <2>10, <3>3, <4>1, CallKept DEF CopyCall
      <4>3. Behind(m, d) => Behind(m, d)'
        BY <2>9, <2>10, <3>3, <4>1, BehindKept DEF Moved, ReachableCall, CopyCall
      <4>4. /\ IsDue(l)' <=> IsDue(l)
            /\ reachedStates \subseteq reachedStates' /\ told' = told /\ during' = during
        BY <1>1, <3>6 DEF IsDue, clients, history
      <4> QED BY <3>1, <3>4, <4>2, <4>3, <4>4, ToldKept DEF ReachableCall, CopyCall
    <3> QED BY <3>5, <3>6
  <2>13. AllComputed' /\ AllTold'
    BY <2>11, <2>12 DEF AllComputed, AllTold
  <2> QED BY <1>1, <2>9, <2>13, ProcessedInv DEF SyncInv
<1> QED BY <1>2, <1>3

LEMMA TellStateListenersInv ==
    ASSUME SyncInv, NEW c \in Innermost, TellStateListeners(c)
    PROVE  SyncInv'
<1> DEFINE L == {l \in listeners : ListensAt[l] = c.n}
           body == <<Tell(L)>>
<1>1. /\ TypeOK /\ c \in Call /\ c.op = "copy" /\ c.n \in Node /\ c = CopyCall(c.n)
      /\ agenda \in Seq(SUBSET Call) /\ 1 \in DOMAIN agenda /\ c \in agenda[1]
  BY InnermostCall, CallFields, CallEqual DEF SyncInv, TellStateListeners
<1>2. Return(c, body) /\ UNCHANGED data
  BY DEF TellStateListeners
<1>3. \A l : l \in L <=> l \in listeners /\ ListensAt[l] = c.n
  OBVIOUS
<1>4. L \in SUBSET StateListener
  BY <1>1 DEF TypeOK
<1>5. /\ Tell(L) \in SUBSET Call /\ \A d \in Tell(L) : d.op = "reachable"
      /\ \A l : ReachableCall(l) \in Tell(L) <=> l \in L
  <2>1. Tell(L) \subseteq Call
    BY <1>4, CallTypes
  <2>2. (\A d \in Tell(L) : d.op = "reachable") /\ Tell(L) = {ReachableCall(l) : l \in L}
    BY DEF Tell, ReachableCall
  <2>3. \A k, l : ReachableCall(k) = ReachableCall(l) => k = l
    BY DEF ReachableCall
  <2> HIDE DEF L
  <2> QED BY <2>1, <2>2, <2>3
<1> HIDE DEF L
<1>6. body \in Seq(SUBSET Call) /\ DOMAIN body = {1} /\ body[1] = Tell(L)
  BY <1>5, LoopTypes
<1> HIDE DEF body
<1>7. Makes(body, {"reachable"})
  BY <1>5, <1>6 DEF Makes
<1>8. Moved(c, body, {"reachable"})
  BY <1>1, <1>2, <1>6, <1>7, ReturnMoved
<1>9. /\ Stacked(c, body) /\ agenda' \in Seq(SUBSET Call)
      /\ Len(body) \in Nat /\ DOMAIN agenda \subseteq Nat
  BY <1>8 DEF Moved
<1>10. /\ Undisturbed("heard") /\ Undisturbed("process") /\ Undisturbed("successors")
       /\ ProcessOrdered
  BY <1>1, <1>8, OthersUndisturbed, OrderKept DEF ProcessOrdered
<1>11. TypeOK'
  BY <1>1, <1>2, <1>9 DEF TypeOK, data, automata, contexts, clients, history
<1>12. ASSUME NEW l \in StateListener PROVE ToldRight(l)'
  <2> DEFINE d == ReachableCall(l)
             m == CopyCall(ListensAt[l])
  <2>1. ToldRight(l)
    BY DEF SyncInv, AllTold
  <2>2. d.op = "reachable" /\ m.op = "copy"
        /\ \A n : CopyCall(n) = m => n = ListensAt[l]
    BY DEF ReachableCall, CopyCall
  <2>3. /\ reachedStates' = reachedStates /\ told' = told /\ during' = during
        /\ IsDue(l)' <=> IsDue(l)
    BY <1>2 DEF data, clients, history, IsDue
  <2>4. d # c /\ \A i \in DOMAIN body : m \notin body[i]
    BY <1>1, <1>5, <1>6, <2>2
  <2>5. d \in body[1] <=> l \in listeners /\ ListensAt[l] = c.n
    BY <1>3, <1>5, <1>6
  <2>6. CASE ListensAt[l] = c.n
    <3>1. m = c /\ Pending(m) /\ Once(m) /\ Once(d) /\ ~Behind(m, d)
          /\ (IsDue(l) <=> l \in listeners)
      <4>1. m = c
        BY <1>1, <2>6
      <4>2. Pending(c) /\ ~Behind(c, d)
        BY <1>1, FirstNotBehind DEF Pending
      <4> QED BY <2>1, <4>1, <4>2 DEF ToldRight, IsDue
    <3>2. ~Pending(m)' /\ Once(m)'
      <4>1. ~Pending(c)' /\ Once(c)'
        BY <1>1, <1>9, <2>4, <3>1, CallTaken
      <4> QED BY <1>1, <2>6, <4>1 DEF CopyCall
    <3>3. CASE l \in listeners
      <4>1. ~Pending(d) /\ told[l] = (IF l \in during THEN 1 ELSE 0)
        BY <2>1, <3>1, <3>3 DEF ToldRight, Stage
      <4>2. 1 \in DOMAIN body /\ d \in body[1] /\ \A i \in DOMAIN body : d \in body[i] => i = 1
        BY <1>6, <2>5, <2>6, <3>3
      <4>3. Pending(d)' /\ Once(d)'
        BY <1>9, <4>1, <4>2, CallMade DEF ReachableCall
      <4> QED BY <2>3, <3>1, <3>2, <3>3, <4>1, <4>3
              DEF ToldRight, Stage, ReachableCall, CopyCall
    <3>4. CASE l \notin listeners
      <4>1. \A i \in DOMAIN body : d \notin body[i]
        BY <1>6, <2>5, <3>4
      <4>2. /\ Pending(d)' <=> Pending(d)
            /\ Once(d) => Once(d)'
        BY <1>9, <2>4, <4>1, CallKept DEF ReachableCall
      <4> QED BY <2>1, <2>3, <3>1, <3>2, <3>4, <4>2
              DEF ToldRight, Stage, ReachableCall, CopyCall
    <3> QED BY <3>3, <3>4
  <2>7. CASE ListensAt[l] # c.n
    <3>1. m # c /\ \A i \in DOMAIN body : d \notin body[i]
      BY <1>1, <1>6, <2>2, <2>5, <2>7
    <3>2. /\ Pending(d)' <=> Pending(d)
          /\ Once(d) => Once(d)'
      BY <1>9, <2>4, <3>1, CallKept DEF ReachableCall
    <3>3. /\ Pending(m)' <=> Pending(m)
          /\ Once(m) => Once(m)'
      BY <1>9, <2>4, <3>1, CallKept DEF CopyCall
    <3>4. Behind(m, d) => Behind(m, d)'
      BY <1>9, <2>4, BehindKept DEF ReachableCall, CopyCall
    <3> QED BY <2>1, <2>3, <3>2, <3>3, <3>4, ToldKept DEF ReachableCall, CopyCall
  <2> QED BY <2>6, <2>7
<1>13. HeardSound' /\ HeardKept'
  BY <1>2, <1>10, HeardFrame DEF SyncInv, data, automata
<1>14. ContextSound' /\ ReachedSound' /\ ProcessKept' /\ ProcessSound'
  BY <1>2, <1>10, ContextFrame, ProcessFrame DEF SyncInv, data, automata
<1>15. AllComputed'
  BY <1>2, <1>10, ComputedFrame DEF SyncInv, data, history
<1> QED BY <1>11, <1>12, <1>13, <1>14, <1>15 DEF SyncInv, AllTold

LEMMA ComputeSuccessorsInv ==
    ASSUME SyncInv, NEW c \in Innermost, ComputeSuccessors(c)
    PROVE  SyncInv'
<1> DEFINE flows == {[op |-> "flow", n |-> c.n, s |-> s] : s \in Successors[c.n]}
           body == <<flows>>
<1>1. /\ TypeOK /\ c \in Call /\ c.op = "successors" /\ c.n \in Node /\ c = SuccessorsCall(c.n)
      /\ 1 \in DOMAIN agenda /\ c \in agenda[1]
  BY InnermostCall, CallFields, CallEqual DEF SyncInv, ComputeSuccessors
<1>2. /\ computed' = [computed EXCEPT ![c.n] = @ + 1] /\ Return(c, body)
      /\ UNCHANGED <<automata, contexts, reachedStates, clients, told, during>>
  BY DEF ComputeSuccessors
<1>3. flows \in SUBSET Call /\ \A d \in flows : d.op = "flow"
  <2>1. Successors[c.n] \subseteq Successor
    BY <1>1, SyncAssumption
  <2> QED BY <1>1, <2>1 DEF Call
<1> HIDE DEF flows
<1>4. body \in Seq(SUBSET Call) /\ DOMAIN body = {1} /\ body[1] = flows
  BY <1>3, LoopTypes
<1> HIDE DEF body
<1>5. Makes(body, {"flow"})
  BY <1>3, <1>4 DEF Makes
<1>6. Moved(c, body, {"flow"})
  BY <1>1, <1>2, <1>4, <1>5, ReturnMoved
<1>7. Stacked(c, body) /\ agenda' \in Seq(SUBSET Call)
  BY <1>6 DEF Moved
<1>8. /\ Undisturbed("heard") /\ Undisturbed("process") /\ Undisturbed("reachable")
      /\ Undisturbed("copy") /\ ProcessOrdered /\ CopyOrdered
  BY <1>1, <1>6, OthersUndisturbed, OrderKept DEF ProcessOrdered, CopyOrdered
<1>9. TypeOK'
  BY <1>1, <1>2, <1>7 DEF TypeOK, automata, contexts, clients
<1>10. ASSUME NEW n \in Node
       PROVE  Counted(SuccessorsCall(n), n \in reachedStates, computed[n])'
  <2>1. Counted(SuccessorsCall(n), n \in reachedStates, computed[n])
    BY DEF SyncInv, AllComputed
  <2>2. \A i \in DOMAIN body : SuccessorsCall(n) \notin body[i]
    BY <1>3, <1>4 DEF SuccessorsCall
  <2>3. CASE n = c.n
    <3>1. Once(c) /\ n \in reachedStates /\ computed[n] = 0
      <4>1. Pending(SuccessorsCall(n))
        BY <1>1, <2>3 DEF Pending
      <4> QED BY <1>1, <2>1, <2>3, <4>1 DEF Counted
    <3>2. ~Pending(c)' /\ Once(c)'
      BY <1>1, <1>7, <2>2, <2>3, <3>1, CallTaken
    <3>3. ~Pending(SuccessorsCall(n))' /\ Once(SuccessorsCall(n))'
      BY <1>1, <2>3, <3>2 DEF SuccessorsCall
    <3>4. n \in reachedStates' /\ computed'[n] = 1
      BY <1>1, <1>2, <2>3, <3>1 DEF TypeOK
    <3> QED BY <3>3, <3>4 DEF Counted
  <2>4. CASE n # c.n
    <3>1. SuccessorsCall(n) # c
      BY <1>1, <2>4 DEF SuccessorsCall
    <3>2. /\ Pending(SuccessorsCall(n))' <=> Pending(SuccessorsCall(n))
          /\ Once(SuccessorsCall(n)) => Once(SuccessorsCall(n))'
      BY <1>7, <2>2, <3>1, CallKept DEF SuccessorsCall
    <3>3. reachedStates' = reachedStates /\ computed'[n] = computed[n]
      BY <1>1, <1>2, <2>4 DEF TypeOK
    <3> QED BY <2>1, <3>2, <3>3 DEF Counted
  <2> QED BY <2>3, <2>4
<1>11. HeardSound' /\ HeardKept'
  BY <1>2, <1>8, HeardFrame DEF SyncInv, automata
<1>12. ContextSound' /\ ReachedSound' /\ ProcessKept' /\ ProcessSound'
  BY <1>2, <1>8, ContextFrame, ProcessFrame DEF SyncInv, automata
<1>13. AllTold'
  BY <1>2, <1>8, ToldFrame DEF SyncInv, clients
<1> QED BY <1>9, <1>10, <1>11, <1>12, <1>13 DEF SyncInv, AllComputed

LEMMA ReachableInv == ASSUME SyncInv, NEW c \in Innermost, Reachable(c) PROVE SyncInv'
<1> DEFINE client == {[op |-> "client"]}
           body == <<client>>
<1>1. /\ TypeOK /\ c \in Call /\ c.op = "reachable" /\ c.l \in StateListener
      /\ c = ReachableCall(c.l) /\ 1 \in DOMAIN agenda /\ c \in agenda[1]
  BY InnermostCall, CallFields, CallEqual DEF SyncInv, Reachable
<1>2. /\ told' = [told EXCEPT ![c.l] = @ + 1] /\ Return(c, body)
      /\ UNCHANGED <<automata, contexts, reachedStates, clients, computed, during>>
  BY DEF Reachable
<1>3. client \in SUBSET Call /\ \A d \in client : d.op = "client"
  BY CallTypes
<1> HIDE DEF client
<1>4. body \in Seq(SUBSET Call) /\ DOMAIN body = {1} /\ body[1] = client
  BY <1>3, LoopTypes
<1> HIDE DEF body
<1>5. Makes(body, {"client"})
  BY <1>3, <1>4 DEF Makes
<1>6. Moved(c, body, {"client"})
  BY <1>1, <1>2, <1>4, <1>5, ReturnMoved
<1>7. /\ Stacked(c, body) /\ agenda' \in Seq(SUBSET Call)
      /\ Len(body) \in Nat /\ DOMAIN agenda \subseteq Nat
  BY <1>6 DEF Moved
<1>8. /\ Undisturbed("heard") /\ Undisturbed("process") /\ Undisturbed("successors")
      /\ ProcessOrdered
  BY <1>1, <1>6, OthersUndisturbed, OrderKept DEF ProcessOrdered
<1>9. TypeOK'
  BY <1>1, <1>2, <1>7 DEF TypeOK, automata, contexts, clients
<1>10. ASSUME NEW l \in StateListener PROVE ToldRight(l)'
  <2> DEFINE d == ReachableCall(l)
             m == CopyCall(ListensAt[l])
  <2>1. ToldRight(l)
    BY DEF SyncInv, AllTold
  <2>2. m # c /\ \A i \in DOMAIN body : m \notin body[i] /\ d \notin body[i]
    BY <1>1, <1>3, <1>4 DEF ReachableCall, CopyCall
  <2>3. /\ IsDue(l)' <=> IsDue(l)
        /\ reachedStates' = reachedStates /\ during' = during
    BY <1>2 DEF IsDue, clients
  <2>4. /\ Pending(m)' <=> Pending(m)
        /\ Once(m) => Once(m)'
    BY <1>7, <2>2, CallKept DEF CopyCall
  <2>5. CASE l = c.l
    <3>1. d = c /\ Pending(d) /\ Once(d) /\ IsDue(l)
      <4>1. d = c /\ Pending(c)
        BY <1>1, <2>5 DEF Pending
      <4> QED BY <2>1, <4>1 DEF ToldRight
    <3>2. ~Pending(d)' /\ Once(d)'
      <4>1. ~Pending(c)' /\ Once(c)'
        BY <1>1, <1>7, <2>2, <3>1, CallTaken
      <4> QED BY <1>1, <2>5, <4>1 DEF ReachableCall
    <3>3. told'[l] = told[l] + 1
      BY <1>1, <1>2, <2>5 DEF TypeOK
    <3>4. CASE l \in during
      <4>1. \/ told[l] = 0 /\ Pending(m)
            \/ told[l] = 1 /\ ~Pending(m)
        BY <2>1, <3>1, <3>4 DEF ToldRight, Stage
      <4>2. \/ told'[l] = 1 /\ Pending(m)'
            \/ told'[l] = 2 /\ ~Pending(m)'
        BY <2>4, <3>3, <4>1
      <4> QED BY <2>1, <2>3, <2>4, <3>1, <3>2, <3>4, <4>2
              DEF ToldRight, Stage, ReachableCall, CopyCall
    <3>5. CASE l \notin during
      <4>1. told[l] = 0 /\ ~Pending(m)
        BY <2>1, <3>1, <3>5 DEF ToldRight, Stage
      <4>2. told'[l] = 1 /\ ~Pending(m)'
        BY <2>4, <3>3, <4>1
      <4> QED BY <2>1, <2>3, <2>4, <3>1, <3>2, <3>5, <4>2
              DEF ToldRight, Stage, ReachableCall, CopyCall
    <3> QED BY <3>4, <3>5
  <2>6. CASE l # c.l
    <3>1. d # c
      BY <1>1, <2>6 DEF ReachableCall
    <3>2. /\ Pending(d)' <=> Pending(d)
          /\ Once(d) => Once(d)'
      BY <1>7, <2>2, <3>1, CallKept DEF ReachableCall
    <3>3. Behind(m, d) => Behind(m, d)'
      BY <1>7, <2>2, <3>1, BehindKept DEF ReachableCall, CopyCall
    <3>4. told'[l] = told[l]
      BY <1>1, <1>2, <2>6 DEF TypeOK
    <3> QED BY <2>1, <2>3, <2>4, <3>2, <3>3, <3>4, ToldKept DEF ReachableCall, CopyCall
  <2> QED BY <2>5, <2>6
<1>11. HeardSound' /\ HeardKept'
  BY <1>2, <1>8, HeardFrame DEF SyncInv, automata
<1>12. ContextSound' /\ ReachedSound' /\ ProcessKept' /\ ProcessSound'
  BY <1>2, <1>8, ContextFrame, ProcessFrame DEF SyncInv, automata
<1>13. AllComputed'
  BY <1>2, <1>8, ComputedFrame DEF SyncInv
<1> QED BY <1>9, <1>10, <1>11, <1>12, <1>13 DEF SyncInv, AllTold

LEMMA SolveInv == ASSUME SyncInv, NEW n \in Starts, Solve(n) PROVE SyncInv'
<1> DEFINE A == {StartField(n)}
           B == {StartCall(n)}
           P == {ProcessCall(n)}
           body == <<A, B, P>>
<1>1. /\ TypeOK /\ n \in Node /\ n = <<n[1], n[2]>> /\ n[1] \in Stmt /\ n[2] \in Fact
      /\ InitialNode \in Node /\ InitialNode[2] \in Fact
  BY SyncAssumption DEF SyncInv, Node
<1>2. /\ solved' = solved \cup {n} /\ agenda' = body \o agenda
      /\ UNCHANGED <<automata, contexts, reachedStates, listeners, history>>
  BY DEF Solve, AddEdge, Process, StartField, StartCall, ProcessCall
<1>3. StartField(n).t \in FieldEdge /\ StartCall(n).t \in CallEdge
  <2>1. Single(n) \in FieldState /\ Single(InitialNode) \in FieldState
    BY <1>1 DEF FieldState
  <2>2. Single(n[2]) \in CallState /\ Single(InitialNode[2]) \in CallState
    BY <1>1 DEF CallState
  <2> QED BY <1>1, <2>1, <2>2 DEF StartField, StartCall, Edge, FieldEdge, CallEdge
<1>4. A \in SUBSET Call /\ B \in SUBSET Call /\ P \in SUBSET Call
  <2>1. A \subseteq AddEdge("fields", StartField(n).t)
        /\ B \subseteq AddEdge("calls", StartCall(n).t) /\ P \subseteq Process(n)
    BY DEF AddEdge, Process, StartField, StartCall, ProcessCall
  <2> QED BY <1>1, <1>3, <2>1, CallTypes
<1>5. /\ \A d \in A \cup B : d.op = "add"
      /\ \A d \in P : d.op = "process" /\ d = ProcessCall(n)
      /\ StartField(n) \in A /\ StartCall(n) \in B
  BY DEF StartField, StartCall, ProcessCall
<1> HIDE DEF A, B, P
<1>6. /\ body \in Seq(SUBSET Call) /\ DOMAIN body = {1, 2, 3}
      /\ body[1] = A /\ body[2] = B /\ body[3] = P
  BY <1>4, LoopTypes
<1> HIDE DEF body
<1>7. Makes(body, {"add", "process"})
  BY <1>5, <1>6 DEF Makes
<1>8. Moved(noCall, body, {"add", "process"})
  BY <1>1, <1>2, <1>6, <1>7, PushMoved
<1>9. /\ Stacked(noCall, body) /\ agenda' \in Seq(SUBSET Call)
      /\ Len(body) \in Nat /\ DOMAIN agenda \subseteq Nat
  BY <1>8 DEF Moved
<1>10. /\ Undisturbed("heard") /\ Undisturbed("successors") /\ Undisturbed("reachable")
       /\ Undisturbed("copy") /\ CopyOrdered
  BY <1>8, OthersUndisturbed, OrderKept DEF noCall, CopyOrdered
<1>11. TypeOK'
  BY <1>1, <1>2, <1>9 DEF TypeOK, automata, contexts, history
<1>12. HeardSound' /\ HeardKept'
  BY <1>2, <1>10, HeardFrame DEF SyncInv, automata
<1>13. ContextSound' /\ ReachedSound'
  BY <1>2, ContextFrame DEF SyncInv, automata
<1>14. ProcessKept'
  <2>1. \A m : Pending(ProcessCall(m)) => Pending(ProcessCall(m))'
    <3>1. \A m : ProcessCall(m) # noCall
      BY DEF ProcessCall, noCall
    <3> QED BY <1>9, <3>1, PendingAfter DEF ProcessCall
  <2> QED BY <1>2, <2>1 DEF SyncInv, ProcessKept, contexts
<1>15. ASSUME NEW m \in Node
       PROVE  /\ InFields(m)' \/ Behind(ProcessCall(m), StartField(m))'
              /\ InCalls(m)' \/ Behind(ProcessCall(m), StartCall(m))'
  <2>1. (InFields(m) => InFields(m)') /\ (InCalls(m) => InCalls(m)')
    BY <1>2, SidesKept DEF automata
  <2>2. StartField(m) # noCall /\ StartCall(m) # noCall
    BY DEF StartField, StartCall, noCall
  <2>3. ASSUME NEW i \in DOMAIN body, ProcessCall(m) \in body[i] PROVE i = 3 /\ m = n
    <3>1. ProcessCall(m).op = "process" /\ (ProcessCall(m) = ProcessCall(n) => m = n)
      BY DEF ProcessCall
    <3> QED BY <1>5, <1>6, <2>3, <3>1
  <2>4. \A i \in DOMAIN body : ProcessCall(m) \in body[i] =>
           /\ \E j \in DOMAIN body : j < i /\ StartField(m) \in body[j]
           /\ \E j \in DOMAIN body : j < i /\ StartCall(m) \in body[j]
    <3>1. 1 \in DOMAIN body /\ 2 \in DOMAIN body /\ 1 < 3 /\ 2 < 3
          /\ StartField(n) \in body[1] /\ StartCall(n) \in body[2]
      BY <1>5, <1>6
    <3> QED BY <2>3, <3>1
  <2>5. /\ Behind(ProcessCall(m), StartField(m)) => Behind(ProcessCall(m), StartField(m))'
        /\ Behind(ProcessCall(m), StartCall(m)) => Behind(ProcessCall(m), StartCall(m))'
    <3>1. \A i \in DOMAIN body : ProcessCall(m) \in body[i] =>
             \E j \in DOMAIN body : j < i /\ StartField(m) \in body[j]
      BY <2>4
    <3>2. \A i \in DOMAIN body : ProcessCall(m) \in body[i] =>
             \E j \in DOMAIN body : j < i /\ StartCall(m) \in body[j]
      BY <2>4
    <3>3. \A d, e : /\ e # noCall /\ Behind(d, e)
                    /\ \A i \in DOMAIN body :
                         d \in body[i] => \E j \in DOMAIN body : j < i /\ e \in body[j]
                    => Behind(d, e)'
      BY <1>9, BehindKept
    <3> QED BY <2>2, <3>1, <3>2, <3>3 DEF ProcessCall, StartField, StartCall
  <2> QED BY <2>1, <2>5 DEF SyncInv, ProcessSound
<1>16. AllComputed' /\ AllTold'
  BY <1>2, <1>10, ComputedFrame, ToldFrame DEF SyncInv, history
<1> QED BY <1>11, <1>12, <1>13, <1>14, <1>15, <1>16 DEF SyncInv, ProcessSound

LEMMA RegisterListenerInv ==
    ASSUME SyncInv, NEW l \in StateListener, RegisterListener(l)
    PROVE  SyncInv'
<1> DEFINE T == IF ListensAt[l] \in reachedStates THEN Tell({l}) ELSE {}
           body == <<T>>
<1>1. /\ TypeOK /\ l \notin listeners /\ listeners' = listeners \cup {l}
      /\ agenda' = body \o agenda
      /\ during' = IF Pending(CopyCall(ListensAt[l])) THEN during \cup {l} ELSE during
      /\ UNCHANGED <<automata, contexts, reachedStates, solved, told, computed>>
  BY DEF SyncInv, RegisterListener
<1>2. /\ T \in SUBSET Call /\ \A d \in T : d.op = "reachable" /\ d = ReachableCall(l)
      /\ ReachableCall(l) \in T <=> ListensAt[l] \in reachedStates
  <2>1. {l} \in SUBSET StateListener
    OBVIOUS
  <2>2. Tell({l}) \subseteq Call
    BY <2>1, CallTypes
  <2>3. Tell({l}) = {ReachableCall(l)} /\ ReachableCall(l).op = "reachable"
    BY DEF Tell, ReachableCall
  <2> QED BY <2>2, <2>3
<1> HIDE DEF T
<1>3. body \in Seq(SUBSET Call) /\ DOMAIN body = {1} /\ body[1] = T
  BY <1>2, LoopTypes
<1> HIDE DEF body
<1>4. Makes(body, {"reachable"})
  BY <1>2, <1>3 DEF Makes
<1>5. Moved(noCall, body, {"reachable"})
  BY <1>1, <1>3, <1>4, PushMoved
<1>6. /\ Stacked(noCall, body) /\ agenda' \in Seq(SUBSET Call)
      /\ Len(body) = 1 /\ DOMAIN agenda \subseteq Nat \ {0}
  BY <1>3, <1>5 DEF Moved
<1>7. /\ Undisturbed("heard") /\ Undisturbed("process") /\ Undisturbed("successors")
      /\ ProcessOrdered
  BY <1>5, OthersUndisturbed, OrderKept DEF noCall, ProcessOrdered
<1>8. TypeOK'
  BY <1>1, <1>6 DEF TypeOK, automata, contexts
<1>9. ASSUME NEW k \in StateListener PROVE ToldRight(k)'
  <2> DEFINE d == ReachableCall(k)
             m == CopyCall(ListensAt[k])
  <2>1. ToldRight(k)
    BY DEF SyncInv, AllTold
  <2>2. told'[k] = told[k] /\ reachedStates' = reachedStates
    BY <1>1
  <2>3. m # noCall /\ d # noCall /\ m.op = "copy"
        /\ \A j : ReachableCall(j) = d => j = k
    BY DEF ReachableCall, CopyCall, noCall
  <2>4. \A i \in DOMAIN body : m \notin body[i]
    BY <1>2, <1>3, <2>3
  <2>5. /\ Pending(m)' <=> Pending(m)
        /\ Once(m) => Once(m)'
    BY <1>6, <2>3, <2>4, CallKept DEF CopyCall
  <2>6. CASE k = l /\ ListensAt[l] \in reachedStates
    <3>1. ~IsDue(k) /\ IsDue(k)' /\ ~Pending(d) /\ told[k] = 0 /\ k \notin during
      BY <1>1, <2>1, <2>6 DEF IsDue, ToldRight
    <3>2. 1 \in DOMAIN body /\ d \in body[1] /\ \A i \in DOMAIN body : d \in body[i] => i = 1
      BY <1>2, <1>3, <2>6
    <3>3. Pending(d)' /\ Once(d)'
      BY <1>6, <3>1, <3>2, CallMade DEF ReachableCall
    <3>4. Behind(m, d)'
      <4>1. 1 \in DOMAIN agenda' /\ d \in agenda'[1]
        BY <1>6, <3>2 DEF Stacked
      <4>2. ASSUME NEW i \in DOMAIN agenda', m \in agenda'[i] PROVE 1 < i
        <5>1. Stacked(noCall, body)
          BY <1>6
        <5>2. \/ i \in DOMAIN body /\ agenda'[i] = body[i]
              \/ \E j \in DOMAIN agenda : i = j + Len(body)
          BY <5>1, LoopAfter
        <5>3. \E j \in DOMAIN agenda : i = j + Len(body)
          BY <2>4, <4>2, <5>2
        <5> QED BY <1>6, <5>3
      <4>3. \A i \in DOMAIN agenda' :
               m \in agenda'[i] => \E j \in DOMAIN agenda' : j < i /\ d \in agenda'[j]
        BY <4>1, <4>2
      <4> QED BY <4>3 DEF Behind, ReachableCall, CopyCall
    <3>5. k \in during' <=> Pending(m)
      BY <1>1, <2>6, <3>1
    <3> QED BY <2>1, <2>2, <2>5, <3>1, <3>3, <3>4, <3>5
            DEF ToldRight, Stage, ReachableCall, CopyCall
  <2>7. CASE ~(k = l /\ ListensAt[l] \in reachedStates)
    <3>1. /\ IsDue(k)' <=> IsDue(k)
          /\ k \in during' <=> k \in during
      BY <1>1, <2>1, <2>7 DEF IsDue, ToldRight
    <3>2. \A i \in DOMAIN body : d \notin body[i]
      BY <1>2, <1>3, <2>3, <2>7
    <3>3. /\ Pending(d)' <=> Pending(d)
          /\ Once(d) => Once(d)'
      BY <1>6, <2>3, <3>2, CallKept DEF ReachableCall
    <3>4. Behind(m, d) => Behind(m, d)'
      BY <1>6, <2>3, <2>4, BehindKept DEF ReachableCall, CopyCall
    <3> QED BY <2>1, <2>2, <2>5, <3>1, <3>3, <3>4, ToldKept DEF ReachableCall, CopyCall
  <2> QED BY <2>6, <2>7
<1>10. HeardSound' /\ HeardKept'
  BY <1>1, <1>7, HeardFrame DEF SyncInv, automata
<1>11. ContextSound' /\ ReachedSound' /\ ProcessKept' /\ ProcessSound'
  BY <1>1, <1>7, ContextFrame, ProcessFrame DEF SyncInv, automata
<1>12. AllComputed'
  BY <1>1, <1>7, ComputedFrame DEF SyncInv
<1> QED BY <1>8, <1>9, <1>10, <1>11, <1>12 DEF SyncInv, AllTold

(***************************************************************************)
(* The invariant, and what follows from it.                                *)
(***************************************************************************)
LEMMA InitInv == Init => SyncInv
<1> SUFFICES ASSUME Init PROVE SyncInv
  OBVIOUS
<1>1. TypeOK
  BY DEF Init, TypeOK
<1>2. agenda = <<>> /\ DOMAIN agenda = {}
  BY DEF Init
<1>3. \A d : ~Pending(d) /\ Once(d)
  BY <1>2 DEF Pending, Once
<1>4. \A d, e : Behind(d, e)
  BY <1>2 DEF Behind
<1>5. HeardSound /\ HeardKept /\ ContextSound /\ ProcessKept /\ ReachedSound
  BY <1>3 DEF Init, HeardSound, HeardKept, ContextSound, ProcessKept, ReachedSound
<1>6. ProcessSound
  BY <1>4 DEF ProcessSound
<1>7. AllComputed /\ AllTold
  BY <1>3 DEF Init, AllComputed, AllTold, Counted, ToldRight, IsDue
<1> QED BY <1>1, <1>5, <1>6, <1>7 DEF SyncInv

LEMMA NextInv == SyncInv /\ [Next]_vars => SyncInv'
<1> SUFFICES ASSUME SyncInv, [Next]_vars PROVE SyncInv'
  OBVIOUS
<1>1. CASE Step
  <2>1. CASE EndLoop
    BY <2>1, EndLoopInv
  <2>2. ASSUME NEW c \in Innermost,
               ClientReturn(c) \/ SaturationReturns(c) \/ AddFieldRule(c) \/ AddCallRule(c)
                 \/ ProcessFlow(c)
        PROVE  SyncInv'
    BY <2>2, QuietActionsInv
  <2>3. ASSUME NEW c \in Innermost,
               AddFieldEdge(c) \/ SaturateFields(c) \/ AddCallEdge(c) \/ SaturateCalls(c)
        PROVE  SyncInv'
    BY <2>3, AddFieldEdgeInv, AddCallEdgeInv
  <2>4. ASSUME NEW c \in Innermost, ForwardPops(c) PROVE SyncInv'
    BY <2>4, ForwardPopsInv
  <2>5. ASSUME NEW c \in Innermost, SetFieldContextReachable(c) \/ SetCallingContextReachable(c)
        PROVE  SyncInv'
    BY <2>5, SetFieldContextReachableInv, SetCallingContextReachableInv
  <2>6. ASSUME NEW c \in Innermost,
               ProcessNode(c) \/ TellStateListeners(c) \/ ComputeSuccessors(c) \/ Reachable(c)
        PROVE  SyncInv'
    BY <2>6, ProcessNodeInv, TellStateListenersInv, ComputeSuccessorsInv, ReachableInv
  <2> QED BY <1>1, <2>1, <2>2, <2>3, <2>4, <2>5, <2>6 DEF Step
<1>2. CASE \E n \in Starts : Solve(n)
  BY <1>2, SolveInv
<1>3. CASE \E l \in StateListener : RegisterListener(l)
  BY <1>3, RegisterListenerInv
<1>4. CASE UNCHANGED vars
  <2>1. UNCHANGED data /\ UNCHANGED agenda
    BY <1>4 DEF vars
  <2>2. TypeOK'
    BY <2>1 DEF SyncInv, TypeOK, data, automata, contexts, clients, history
  <2>3. (\A op : Undisturbed(op)) /\ ProcessOrdered /\ CopyOrdered
    BY <2>1 DEF Undisturbed, ProcessOrdered, CopyOrdered, Ordered, Pending, Once, Behind
  <2> QED BY <2>1, <2>2, <2>3, QuietFrame DEF data, automata, clients
<1> QED BY <1>1, <1>2, <1>3, <1>4 DEF Next

LEMMA InvSynchronized == SyncInv => Synchronized
<1> SUFFICES ASSUME SyncInv PROVE Synchronized
  OBVIOUS
<1>1. reachedStates \subseteq Matched
  BY DEF SyncInv, ReachedSound
<1>2. ASSUME Idle, NEW n \in Matched PROVE n \in reachedStates
  <2>1. \A d : ~Pending(d)
    BY <1>2 DEF Idle, Pending
  <2>2. n \in Node /\ n = <<n[1], n[2]>>
    BY DEF Matched, Node
  <2>3. n \in fieldContextReachable
    <3>1. PICK t \in fieldEdges : t.start = Single(n)
      BY DEF Matched
    <3>2. ~IsGenerated(t.start) /\ t.start[1] = n
      BY <3>1 DEF IsGenerated, Single
    <3> QED BY <2>1, <3>2 DEF SyncInv, HeardKept
  <2>4. n \in callingContextReachable
    <3>1. PICK t \in callEdges : t.start = Single(n[2]) /\ t.label = n[1]
      BY DEF Matched
    <3>2. ~IsGenerated(t.start) /\ t.start[1] = n[2]
      BY <3>1 DEF IsGenerated, Single
    <3> QED BY <2>1, <2>2, <3>1, <3>2 DEF SyncInv, HeardKept
  <2> QED BY <2>1, <2>3, <2>4 DEF SyncInv, ProcessKept
<1> QED BY <1>1, <1>2 DEF Synchronized

LEMMA InvComputed == SyncInv => ComputedOnce
<1> SUFFICES ASSUME SyncInv, NEW n \in Node
             PROVE  computed[n] <= 1 /\ (Idle /\ n \in reachedStates => computed[n] = 1)
  BY DEF ComputedOnce
<1>1. Counted(SuccessorsCall(n), n \in reachedStates, computed[n])
  BY DEF SyncInv, AllComputed
<1>2. computed[n] <= 1
  BY <1>1 DEF Counted
<1>3. Idle => ~Pending(SuccessorsCall(n))
  BY DEF Idle, Pending
<1> QED BY <1>1, <1>2, <1>3 DEF Counted

LEMMA InvTold == SyncInv => ToldAsDue
<1> SUFFICES ASSUME SyncInv, NEW l \in StateListener
             PROVE  told[l] <= TimesDue(l) /\ (Idle => told[l] = TimesDue(l))
  BY DEF ToldAsDue
<1>1. ToldRight(l)
  BY DEF SyncInv, AllTold
<1>2. Idle => ~Pending(ReachableCall(l)) /\ ~Pending(CopyCall(ListensAt[l]))
  BY DEF Idle, Pending
<1>3. TimesDue(l) = IF IsDue(l) THEN IF l \in during THEN 2 ELSE 1 ELSE 0
  BY DEF TimesDue, IsDue
<1>4. CASE ~IsDue(l)
  BY <1>1, <1>3, <1>4 DEF ToldRight
<1>5. CASE IsDue(l) /\ l \notin during
  BY <1>1, <1>2, <1>3, <1>5 DEF ToldRight, Stage
<1>6. CASE l \in during
  BY <1>1, <1>2, <1>3, <1>6 DEF ToldRight, Stage
<1> QED BY <1>4, <1>5, <1>6

(***************************************************************************)
(* The theorems.                                                           *)
(***************************************************************************)
LEMMA InvAlways == Spec => []SyncInv
<1>1. Init => SyncInv
  BY InitInv
<1>2. SyncInv /\ [Next]_vars => SyncInv'
  BY NextInv
<1> QED BY <1>1, <1>2, PTL DEF Spec

\* The variables of SyncPDSSolver hold values of their kinds, and every call it
\* makes has arguments of theirs.
THEOREM TypeCorrect == Spec => []TypeOK
<1>1. SyncInv => TypeOK
  BY DEF SyncInv
<1> QED BY <1>1, InvAlways, PTL

\* For every program and however the calls nest, a node is processed only when
\* both automata reach it, and all such nodes are when the outermost call returns
\* (setFieldContextReachable, setCallingContextReachable, processNode).
THEOREM AlwaysSynchronized == Spec => []Synchronized
<1>1. SyncInv => Synchronized
  BY InvSynchronized
<1> QED BY <1>1, InvAlways, PTL

\* The successors of a node are computed once, however often processNode is
\* called with it, before or while they are computed.
THEOREM AlwaysComputedOnce == Spec => []ComputedOnce
<1>1. SyncInv => ComputedOnce
  BY InvComputed
<1> QED BY <1>1, InvAlways, PTL

\* registerListener and addReachableState between them tell each listener of a
\* reached node once, in whichever order they run and however they nest, but for
\* the listeners registered by an update listener that is hearing of the node:
\* these are told exactly twice.
THEOREM AlwaysToldAsDue == Spec => []ToldAsDue
<1>1. SyncInv => ToldAsDue
  BY InvTold
<1> QED BY <1>1, InvAlways, PTL

(***************************************************************************)
(* The result without any order.                                           *)
(***************************************************************************)
\* More transitions and rules entail more.
LEMMA FieldsMonotone ==
    ASSUME NEW E, NEW F, E \subseteq F, NEW R, NEW Q, R \subseteq Q
    PROVE  /\ EntailedFields(E, R) \subseteq EntailedFields(F, Q)
           /\ ForwardedFields(E, R) \subseteq ForwardedFields(F, Q)
<1> DEFINE V == Unweighted(E)
           W == Unweighted(F)
<1>1. DOMAIN V = E /\ DOMAIN W = F
  BY DEF Unweighted
<1> HIDE DEF V, W
<1>2. Fields!Normal(V, R) \subseteq Fields!Normal(W, Q)
  BY <1>1 DEF Fields!Normal, OnlyOne
<1>3. Fields!Push(V, R) \subseteq Fields!Push(W, Q)
  BY <1>1 DEF Fields!Push, OnlyOne
<1>4. Fields!Pop(V, R) \subseteq Fields!Pop(W, Q)
  BY <1>1 DEF Fields!Pop, Fields!Popped, OnlyOne
<1>5. Fields!Forwarded(V, R) \subseteq Fields!Forwarded(W, Q)
  BY <1>1 DEF Fields!Forwarded
<1> QED BY <1>2, <1>3, <1>4, <1>5 DEF EntailedFields, ForwardedFields, V, W

LEMMA CallsMonotone ==
    ASSUME NEW E, NEW F, E \subseteq F, NEW R, NEW Q, R \subseteq Q
    PROVE  /\ EntailedCalls(E, R) \subseteq EntailedCalls(F, Q)
           /\ ForwardedCalls(E, R) \subseteq ForwardedCalls(F, Q)
<1> DEFINE V == Unweighted(E)
           W == Unweighted(F)
<1>1. DOMAIN V = E /\ DOMAIN W = F
  BY DEF Unweighted
<1> HIDE DEF V, W
<1>2. Calls!Normal(V, R) \subseteq Calls!Normal(W, Q)
  BY <1>1 DEF Calls!Normal, OnlyOne
<1>3. Calls!Push(V, R) \subseteq Calls!Push(W, Q)
  BY <1>1 DEF Calls!Push, OnlyOne
<1>4. Calls!Pop(V, R) \subseteq Calls!Pop(W, Q)
  BY <1>1 DEF Calls!Pop, Calls!Popped, OnlyOne
<1>5. Calls!Forwarded(V, R) \subseteq Calls!Forwarded(W, Q)
  BY <1>1 DEF Calls!Forwarded
<1> QED BY <1>2, <1>3, <1>4, <1>5 DEF EntailedCalls, ForwardedCalls, V, W

\* The outcome S says no more than it does already.
IsClosed(S) == S \in Outcomes /\ Round(S) = S

\* S holds what solve adds for the nodes solved.
HasStarts(S) ==
    \A n \in solved : StartsOf(n)[1] \in S.fieldEdges /\ StartsOf(n)[2] \in S.callEdges

\* x is the least closed outcome for the nodes solved.
IsLeast(x) ==
    /\ IsClosed(x) /\ HasStarts(x)
    /\ \A S : IsClosed(S) /\ HasStarts(S) =>
         /\ x.reached \subseteq S.reached
         /\ x.fieldRules \subseteq S.fieldRules /\ x.callRules \subseteq S.callRules
         /\ x.fieldEdges \subseteq S.fieldEdges /\ x.callEdges \subseteq S.callEdges

Within(S) ==
    /\ reachedStates \subseteq S.reached
    /\ fieldRules \subseteq S.fieldRules /\ callRules \subseteq S.callRules
    /\ fieldEdges \subseteq S.fieldEdges /\ callEdges \subseteq S.callEdges

\* What a call does lies within S.
Implied(S, d) ==
    /\ d.op = "add" => d.t \in (IF d.system = "fields" THEN S.fieldEdges ELSE S.callEdges)
    /\ d.op = "rule" => d.r \in (IF d.system = "fields" THEN S.fieldRules ELSE S.callRules)
    /\ d.op \in {"process", "successors", "flow"} => d.n \in S.reached
    /\ d.op = "flow" => d.s \in Successors[d.n]

Followed ==
    \A S : IsClosed(S) /\ HasStarts(S) =>
      Within(S) /\ \A d : Pending(d) => Implied(S, d)

FlowCall(n, s) == [op |-> "flow", n |-> n, s |-> s]
RuleCall(system, r) == [op |-> "rule", system |-> system, r |-> r]
SaturateCall(system) == [op |-> "saturate", system |-> system]

\* What an add or a rule call asks for is there, or a call on the stack will
\* put it there.
Done(d) ==
    /\ d.op = "add" => d.t \in (IF d.system = "fields" THEN fieldEdges ELSE callEdges)
    /\ d.op = "rule" => d.r \in (IF d.system = "fields" THEN fieldRules ELSE callRules)
Asked(d) == Done(d) \/ Pending(d)

\* The solver has, or will have, the transitions of each solved node, the rules
\* of each reached one, and the rest of post* in both systems.
StartsHeeded == \A n \in solved : Asked(StartField(n)) /\ Asked(StartCall(n))

RulesAsked(n, s) == /\ Asked(RuleCall("fields", FieldRule(n, s)))
                    /\ Asked(RuleCall("calls", CallRule(n, s)))
ReachedHeeded ==
    \A n \in reachedStates :
      \/ Pending(SuccessorsCall(n))
      \/ \A s \in Successors[n] : Pending(FlowCall(n, s)) \/ RulesAsked(n, s)

SystemsHeeded == \A x \in System : Saturated(x) \/ Pending(SaturateCall(x))

Heeded == StartsHeeded /\ ReachedHeeded /\ SystemsHeeded

(***************************************************************************)
(* What a step does to both.                                               *)
(***************************************************************************)
Grows ==
    /\ fieldRules \subseteq fieldRules' /\ callRules \subseteq callRules'
    /\ fieldEdges \subseteq fieldEdges' /\ callEdges \subseteq callEdges'

\* The step makes the call c and leaves nothing it owes to no one.
Heeds(c, made) ==
    /\ Grows /\ Done(c)'
    /\ \A n \in solved' \ solved : StartField(n) \in made /\ StartCall(n) \in made
    /\ \A n \in reachedStates' \ reachedStates : SuccessorsCall(n) \in made
    /\ c.op = "successors" => \A s \in Successors[c.n] : FlowCall(c.n, s) \in made
    /\ c.op = "flow" => /\ RuleCall("fields", FieldRule(c.n, c.s)) \in made
                        /\ RuleCall("calls", CallRule(c.n, c.s)) \in made
    /\ \A x \in System :
         \/ SaturateCall(x) \in made
         \/ Pending(SaturateCall(x))'
         \/ Saturated(x)'
         \/ c # SaturateCall(x) /\ (Saturated(x) => Saturated(x)')

\* The step and the calls it makes stay within what follows.
Follows(made) ==
    \A S : /\ IsClosed(S) /\ HasStarts(S)' /\ Within(S)
           /\ \A d : Pending(d) => Implied(S, d)
           => Within(S)' /\ \A d \in made : Implied(S, d)

LEMMA FollowedAfter ==
    ASSUME Followed, NEW c, NEW made, Moves(c, made), Follows(made), solved \subseteq solved'
    PROVE  Followed'
<1> SUFFICES ASSUME NEW S, IsClosed(S), HasStarts(S)'
             PROVE  Within(S)' /\ \A d : Pending(d)' => Implied(S, d)
  BY DEF Followed
<1>1. HasStarts(S)
  BY DEF HasStarts
<1>2. Within(S) /\ \A d : Pending(d) => Implied(S, d)
  BY <1>1 DEF Followed
<1>3. Within(S)' /\ \A d \in made : Implied(S, d)
  BY <1>2 DEF Follows
<1> QED BY <1>2, <1>3, PendingMoves

LEMMA AskedStays ==
    ASSUME NEW c, NEW made, Moves(c, made), Grows, Done(c)',
           NEW d, d.op \in {"add", "rule"}, Asked(d)
    PROVE  Asked(d)'
<1>1. Done(d) => Done(d)'
  BY DEF Done, Grows
<1>2. Pending(d) => d = c \/ Pending(d)'
  BY PendingMoves
<1> QED BY <1>1, <1>2 DEF Asked

LEMMA HeededAfter ==
    ASSUME Heeded, NEW c, NEW made, Moves(c, made), Heeds(c, made)
    PROVE  Heeded'
<1>1. StartsHeeded'
  <2> SUFFICES ASSUME NEW n \in solved' PROVE Asked(StartField(n))' /\ Asked(StartCall(n))'
    BY DEF StartsHeeded
  <2>1. CASE n \in solved
    <3>1. Asked(StartField(n)) /\ Asked(StartCall(n))
      BY <2>1 DEF Heeded, StartsHeeded
    <3>2. StartField(n).op = "add" /\ StartCall(n).op = "add"
      BY DEF StartField, StartCall
    <3> QED BY <3>1, <3>2, AskedStays DEF Heeds
  <2>2. CASE n \notin solved
    BY <2>2, PendingMoves DEF Heeds, Asked
  <2> QED BY <2>1, <2>2
<1>2. ASSUME NEW n, NEW s, RulesAsked(n, s) PROVE RulesAsked(n, s)'
  <2>1. \A x, r : RuleCall(x, r).op = "rule"
    BY DEF RuleCall
  <2> QED BY <1>2, <2>1, AskedStays DEF Heeds, RulesAsked
<1>3. ReachedHeeded'
  <2> SUFFICES ASSUME NEW n \in reachedStates', ~Pending(SuccessorsCall(n))',
                      NEW s \in Successors[n]
               PROVE  Pending(FlowCall(n, s))' \/ RulesAsked(n, s)'
    BY DEF ReachedHeeded
  <2>1. n \in reachedStates
    BY PendingMoves DEF Heeds
  <2>2. CASE Pending(SuccessorsCall(n))
    <3>1. c = SuccessorsCall(n)
      BY <2>2, PendingMoves
    <3>2. c.op = "successors" /\ c.n = n
      BY <3>1 DEF SuccessorsCall
    <3>3. FlowCall(n, s) \in made
      BY <3>2 DEF Heeds
    <3> QED BY <3>3, PendingMoves
  <2>3. CASE Pending(FlowCall(n, s))
    <3>1. CASE c = FlowCall(n, s)
      <4>1. c.op = "flow" /\ c.n = n /\ c.s = s
        BY <3>1 DEF FlowCall
      <4>2. /\ RuleCall("fields", FieldRule(n, s)) \in made
            /\ RuleCall("calls", CallRule(n, s)) \in made
        BY <4>1 DEF Heeds
      <4> QED BY <4>2, PendingMoves DEF RulesAsked, Asked
    <3> QED BY <2>3, <3>1, PendingMoves
  <2>4. CASE RulesAsked(n, s)
    BY <1>2, <2>4
  <2> QED BY <2>1, <2>2, <2>3, <2>4 DEF Heeded, ReachedHeeded
<1>4. SystemsHeeded'
  <2> SUFFICES ASSUME NEW x \in System PROVE Saturated(x)' \/ Pending(SaturateCall(x))'
    BY DEF SystemsHeeded
  <2>1. Saturated(x) \/ Pending(SaturateCall(x))
    BY DEF Heeded, SystemsHeeded
  <2> QED BY <2>1, PendingMoves DEF Heeds
<1> QED BY <1>1, <1>3, <1>4 DEF Heeded

LEMMA ClosedOutcome ==
    ASSUME NEW S, IsClosed(S)
    PROVE  /\ Meet(S) \subseteq S.reached
           /\ \A n \in S.reached : \A s \in Successors[n] :
                /\ FieldRule(n, s) \in S.fieldRules
                /\ CallRule(n, s) \in S.callRules
           /\ ForwardedFields(S.fieldEdges, S.fieldRules) \subseteq S.fieldRules
           /\ ForwardedCalls(S.callEdges, S.callRules) \subseteq S.callRules
           /\ EntailedFields(S.fieldEdges, S.fieldRules) \subseteq S.fieldEdges
           /\ EntailedCalls(S.callEdges, S.callRules) \subseteq S.callEdges
<1>1. /\ Round(S).reached = S.reached
      /\ Round(S).fieldRules = S.fieldRules /\ Round(S).callRules = S.callRules
      /\ Round(S).fieldEdges = S.fieldEdges /\ Round(S).callEdges = S.callEdges
  BY DEF IsClosed
<1>2. /\ S.reached = S.reached \cup Meet(S)
      /\ S.fieldRules = S.fieldRules \cup {FieldRule(f[1], f[2]) : f \in FlowsOf(S)}
                          \cup ForwardedFields(S.fieldEdges, S.fieldRules)
      /\ S.callRules = S.callRules \cup {CallRule(f[1], f[2]) : f \in FlowsOf(S)}
                         \cup ForwardedCalls(S.callEdges, S.callRules)
      /\ S.fieldEdges = S.fieldEdges \cup EntailedFields(S.fieldEdges, S.fieldRules)
      /\ S.callEdges = S.callEdges \cup EntailedCalls(S.callEdges, S.callRules)
  BY <1>1 DEF Round
<1>3. ASSUME NEW n \in S.reached, NEW s \in Successors[n]
      PROVE  FieldRule(n, s) \in S.fieldRules /\ CallRule(n, s) \in S.callRules
  <2>1. PICK f : f = <<n, s>>
    OBVIOUS
  <2>2. f \in FlowsOf(S) /\ f[1] = n /\ f[2] = s
    BY <2>1 DEF FlowsOf
  <2>3. /\ FieldRule(f[1], f[2]) \in {FieldRule(g[1], g[2]) : g \in FlowsOf(S)}
        /\ CallRule(f[1], f[2]) \in {CallRule(g[1], g[2]) : g \in FlowsOf(S)}
    BY <2>2
  <2> QED BY <1>2, <2>2, <2>3
<1> QED BY <1>2, <1>3

\* A node that both automata reach is reached by every closed outcome that holds them.
LEMMA MetWithin ==
    ASSUME NEW S, IsClosed(S), Within(S), NEW n \in Node, InFields(n), InCalls(n)
    PROVE  n \in S.reached
<1>1. n \in Meet(S)
  BY DEF Within, InFields, InCalls, Meet
<1> QED BY <1>1, ClosedOutcome

LEMMA EntailedWithin ==
    ASSUME NEW S, IsClosed(S), Within(S)
    PROVE  /\ EntailedFields(fieldEdges, fieldRules) \subseteq S.fieldEdges
           /\ EntailedCalls(callEdges, callRules) \subseteq S.callEdges
           /\ ForwardedFields(fieldEdges, fieldRules) \subseteq S.fieldRules
           /\ ForwardedCalls(callEdges, callRules) \subseteq S.callRules
<1>1. /\ EntailedFields(fieldEdges, fieldRules) \subseteq EntailedFields(S.fieldEdges, S.fieldRules)
      /\ ForwardedFields(fieldEdges, fieldRules) \subseteq ForwardedFields(S.fieldEdges, S.fieldRules)
  BY FieldsMonotone DEF Within
<1>2. /\ EntailedCalls(callEdges, callRules) \subseteq EntailedCalls(S.callEdges, S.callRules)
      /\ ForwardedCalls(callEdges, callRules) \subseteq ForwardedCalls(S.callEdges, S.callRules)
  BY CallsMonotone DEF Within
<1> QED BY <1>1, <1>2, ClosedOutcome

\* Saturated(x) is about the automaton and the rules of x alone.
LEMMA SaturatedKept ==
    ASSUME NEW x \in System
    PROVE  /\ x = "fields" /\ UNCHANGED <<fieldEdges, fieldRules>> => (Saturated(x)' <=> Saturated(x))
           /\ x = "calls" /\ UNCHANGED <<callEdges, callRules>> => (Saturated(x)' <=> Saturated(x))
<1>1. "fields" # "calls"
  OBVIOUS
<1> QED BY <1>1 DEF Saturated

(***************************************************************************)
(* One action after the other.                                             *)
(***************************************************************************)
Effect(c) == \E made : Moves(c, made) /\ Heeds(c, made) /\ Follows(made)

LEMMA AutomataKept ==
    ASSUME NEW c, c.op # "saturate", UNCHANGED automata
    PROVE  \A x \in System : c # SaturateCall(x) /\ (Saturated(x) => Saturated(x)')
<1>1. \A x \in System : SaturateCall(x).op = "saturate"
  BY DEF SaturateCall
<1>2. \A x \in System : x = "fields" \/ x = "calls"
  BY DEF System
<1> QED BY <1>1, <1>2, SaturatedKept DEF automata

\* A step that leaves the automata and the nodes alone, and makes calls of no account.
LEMMA QuietEffect ==
    ASSUME NEW c, NEW made, Moves(c, made), UNCHANGED <<automata, reachedStates, solved>>,
           c.op \notin {"add", "rule", "saturate", "successors", "flow"},
           \A d \in made : d.op \notin {"add", "rule", "process", "successors", "flow"}
    PROVE  Effect(c)
<1>1. \A x \in System : c # SaturateCall(x) /\ (Saturated(x) => Saturated(x)')
  BY AutomataKept
<1>2. Heeds(c, made)
  BY <1>1 DEF Heeds, Grows, Done, automata
<1>3. Follows(made)
  BY DEF Follows, Within, Implied, automata
<1> QED BY <1>2, <1>3 DEF Effect

LEMMA ListenerEffect ==
    ASSUME SyncInv, NEW c \in Innermost,
           ClientReturn(c) \/ Reachable(c) \/ TellStateListeners(c)
    PROVE  Effect(c)
<1>1. agenda \in Seq(SUBSET Call)
  BY DEF SyncInv, TypeOK
<1>2. CASE ClientReturn(c)
  <2>1. Moves(c, {}) /\ c.op = "client" /\ UNCHANGED <<automata, reachedStates, solved>>
    BY <1>1, <1>2, ReturnMoves DEF ClientReturn, data, clients
  <2> QED BY <2>1, QuietEffect
<1>3. CASE Reachable(c)
  <2>1. /\ Moves(c, {[op |-> "client"]}) /\ c.op = "reachable"
        /\ UNCHANGED <<automata, reachedStates, solved>>
    BY <1>1, <1>3, ReturnMoves DEF Reachable, clients
  <2> QED BY <2>1, QuietEffect
<1>4. CASE TellStateListeners(c)
  <2> DEFINE made == Tell({l \in listeners : ListensAt[l] = c.n})
  <2>1. \A d \in made : d.op = "reachable"
    BY DEF Tell
  <2>2. /\ Return(c, <<made>>) /\ c.op = "copy"
        /\ UNCHANGED <<automata, reachedStates, solved>>
    BY <1>4 DEF TellStateListeners, data, clients
  <2> HIDE DEF made
  <2>3. Moves(c, made)
    BY <1>1, <2>2, ReturnMoves
  <2> QED BY <2>1, <2>2, <2>3, QuietEffect
<1> QED BY <1>2, <1>3, <1>4

LEMMA AddFieldEdgeEffect ==
    ASSUME SyncInv, NEW c \in Innermost, AddFieldEdge(c)
    PROVE  Effect(c)
<1> DEFINE made == IF c.t \in fieldEdges THEN {} ELSE Heard("fields", c.t) \cup Saturate("fields")
<1>1. agenda \in Seq(SUBSET Call)
  BY DEF SyncInv, TypeOK
<1>2. /\ c.op = "add" /\ c.system = "fields" /\ fieldEdges' = fieldEdges \cup {c.t}
      /\ UNCHANGED <<fieldRules, callRules, callEdges, reachedStates, solved>>
  BY DEF AddFieldEdge, clients
<1>3. Moves(c, made)
  BY <1>1, ReturnMoves DEF AddFieldEdge
<1>4. /\ c.t \notin fieldEdges => SaturateCall("fields") \in made
      /\ \A d \in made : d.op \in {"heard", "saturate"}
  BY DEF Heard, Saturate, SaturateCall
<1> HIDE DEF made
<1>5. c # SaturateCall("fields") /\ c # SaturateCall("calls")
  BY <1>2 DEF SaturateCall
<1>6. Saturated("calls") => Saturated("calls")'
  BY <1>2, SaturatedKept DEF System
<1>7. c.t \in fieldEdges => (Saturated("fields") => Saturated("fields")')
  <2>1. c.t \in fieldEdges => fieldEdges' = fieldEdges
    BY <1>2
  <2> QED BY <1>2, <2>1, SaturatedKept DEF System
<1>8. Heeds(c, made)
  BY <1>2, <1>4, <1>5, <1>6, <1>7 DEF Heeds, Grows, Done, System
<1>9. Follows(made)
  <2> SUFFICES ASSUME NEW S, Within(S), \A d : Pending(d) => Implied(S, d)
               PROVE  Within(S)' /\ \A d \in made : Implied(S, d)
    BY DEF Follows
  <2>1. Pending(c)
    BY <1>1, InnermostCall DEF SyncInv, Pending
  <2>2. c.t \in S.fieldEdges
    BY <1>2, <2>1 DEF Implied
  <2> QED BY <1>2, <1>4, <2>2 DEF Within, Implied
<1> QED BY <1>3, <1>8, <1>9 DEF Effect

LEMMA AddCallEdgeEffect ==
    ASSUME SyncInv, NEW c \in Innermost, AddCallEdge(c)
    PROVE  Effect(c)
<1> DEFINE made == IF c.t \in callEdges THEN {} ELSE Heard("calls", c.t) \cup Saturate("calls")
<1>1. agenda \in Seq(SUBSET Call)
  BY DEF SyncInv, TypeOK
<1>2. /\ c.op = "add" /\ c.system = "calls" /\ callEdges' = callEdges \cup {c.t}
      /\ UNCHANGED <<fieldRules, callRules, fieldEdges, reachedStates, solved>>
  BY DEF AddCallEdge, clients
<1>3. Moves(c, made)
  BY <1>1, ReturnMoves DEF AddCallEdge
<1>4. /\ c.t \notin callEdges => SaturateCall("calls") \in made
      /\ \A d \in made : d.op \in {"heard", "saturate"}
  BY DEF Heard, Saturate, SaturateCall
<1> HIDE DEF made
<1>5. c # SaturateCall("fields") /\ c # SaturateCall("calls")
  BY <1>2 DEF SaturateCall
<1>6. Saturated("fields") => Saturated("fields")'
  BY <1>2, SaturatedKept DEF System
<1>7. c.t \in callEdges => (Saturated("calls") => Saturated("calls")')
  <2>1. c.t \in callEdges => callEdges' = callEdges
    BY <1>2
  <2> QED BY <1>2, <2>1, SaturatedKept DEF System
<1>8. Heeds(c, made)
  BY <1>2, <1>4, <1>5, <1>6, <1>7 DEF Heeds, Grows, Done, System
<1>9. Follows(made)
  <2> SUFFICES ASSUME NEW S, Within(S), \A d : Pending(d) => Implied(S, d)
               PROVE  Within(S)' /\ \A d \in made : Implied(S, d)
    BY DEF Follows
  <2>1. Pending(c)
    BY <1>1, InnermostCall DEF SyncInv, Pending
  <2>2. c.t \in S.callEdges
    BY <1>2, <2>1 DEF Implied
  <2> QED BY <1>2, <1>4, <2>2 DEF Within, Implied
<1> QED BY <1>3, <1>8, <1>9 DEF Effect

LEMMA AddFieldRuleEffect ==
    ASSUME SyncInv, NEW c \in Innermost, AddFieldRule(c)
    PROVE  Effect(c)
<1> DEFINE made == IF c.r \in fieldRules THEN {} ELSE Saturate("fields")
<1>1. agenda \in Seq(SUBSET Call)
  BY DEF SyncInv, TypeOK
<1>2. /\ c.op = "rule" /\ c.system = "fields" /\ fieldRules' = fieldRules \cup {c.r}
      /\ UNCHANGED <<callRules, fieldEdges, callEdges, reachedStates, solved>>
  BY DEF AddFieldRule, clients
<1>3. Moves(c, made)
  BY <1>1, ReturnMoves DEF AddFieldRule
<1>4. /\ c.r \notin fieldRules => SaturateCall("fields") \in made
      /\ \A d \in made : d.op = "saturate"
  BY DEF Saturate, SaturateCall
<1> HIDE DEF made
<1>5. c # SaturateCall("fields") /\ c # SaturateCall("calls")
  BY <1>2 DEF SaturateCall
<1>6. Saturated("calls") => Saturated("calls")'
  BY <1>2, SaturatedKept DEF System
<1>7. c.r \in fieldRules => (Saturated("fields") => Saturated("fields")')
  <2>1. c.r \in fieldRules => fieldRules' = fieldRules
    BY <1>2
  <2> QED BY <1>2, <2>1, SaturatedKept DEF System
<1>8. Heeds(c, made)
  BY <1>2, <1>4, <1>5, <1>6, <1>7 DEF Heeds, Grows, Done, System
<1>9. Follows(made)
  <2> SUFFICES ASSUME NEW S, Within(S), \A d : Pending(d) => Implied(S, d)
               PROVE  Within(S)' /\ \A d \in made : Implied(S, d)
    BY DEF Follows
  <2>1. Pending(c)
    BY <1>1, InnermostCall DEF SyncInv, Pending
  <2>2. c.r \in S.fieldRules
    BY <1>2, <2>1 DEF Implied
  <2> QED BY <1>2, <1>4, <2>2 DEF Within, Implied
<1> QED BY <1>3, <1>8, <1>9 DEF Effect

LEMMA AddCallRuleEffect ==
    ASSUME SyncInv, NEW c \in Innermost, AddCallRule(c)
    PROVE  Effect(c)
<1> DEFINE made == IF c.r \in callRules THEN {} ELSE Saturate("calls")
<1>1. agenda \in Seq(SUBSET Call)
  BY DEF SyncInv, TypeOK
<1>2. /\ c.op = "rule" /\ c.system = "calls" /\ callRules' = callRules \cup {c.r}
      /\ UNCHANGED <<fieldRules, fieldEdges, callEdges, reachedStates, solved>>
  BY DEF AddCallRule, clients
<1>3. Moves(c, made)
  BY <1>1, ReturnMoves DEF AddCallRule
<1>4. /\ c.r \notin callRules => SaturateCall("calls") \in made
      /\ \A d \in made : d.op = "saturate"
  BY DEF Saturate, SaturateCall
<1> HIDE DEF made
<1>5. c # SaturateCall("fields") /\ c # SaturateCall("calls")
  BY <1>2 DEF SaturateCall
<1>6. Saturated("fields") => Saturated("fields")'
  BY <1>2, SaturatedKept DEF System
<1>7. c.r \in callRules => (Saturated("calls") => Saturated("calls")')
  <2>1. c.r \in callRules => callRules' = callRules
    BY <1>2
  <2> QED BY <1>2, <2>1, SaturatedKept DEF System
<1>8. Heeds(c, made)
  BY <1>2, <1>4, <1>5, <1>6, <1>7 DEF Heeds, Grows, Done, System
<1>9. Follows(made)
  <2> SUFFICES ASSUME NEW S, Within(S), \A d : Pending(d) => Implied(S, d)
               PROVE  Within(S)' /\ \A d \in made : Implied(S, d)
    BY DEF Follows
  <2>1. Pending(c)
    BY <1>1, InnermostCall DEF SyncInv, Pending
  <2>2. c.r \in S.callRules
    BY <1>2, <2>1 DEF Implied
  <2> QED BY <1>2, <1>4, <2>2 DEF Within, Implied
<1> QED BY <1>3, <1>8, <1>9 DEF Effect

LEMMA SaturateFieldsEffect ==
    ASSUME SyncInv, NEW c \in Innermost, SaturateFields(c)
    PROVE  Effect(c)
<1>1. agenda \in Seq(SUBSET Call) /\ c \in Call
  BY InnermostCall DEF SyncInv, TypeOK
<1>2. PICK t \in EntailedFields(fieldEdges, fieldRules) :
         fieldEdges' = fieldEdges \cup {t} /\ Resume(c, <<Heard("fields", t)>>, c)
  BY DEF SaturateFields
<1>3. /\ c.op = "saturate" /\ c.system = "fields"
      /\ UNCHANGED <<fieldRules, callRules, callEdges, reachedStates, solved>>
  BY DEF SaturateFields, clients
<1>4. c = SaturateCall("fields")
  BY <1>1, <1>3 DEF Call, SaturateCall
<1> DEFINE made == Heard("fields", t) \cup {c}
<1>5. Moves(c, made)
  BY <1>1, <1>2, ResumeMoves
<1>6. c \in made /\ \A d \in made : d.op \in {"heard", "saturate"}
  BY <1>3 DEF Heard
<1> HIDE DEF made
<1>7. c # SaturateCall("calls") /\ (Saturated("calls") => Saturated("calls")')
  BY <1>3, SaturatedKept DEF System, SaturateCall
<1>8. Heeds(c, made)
  BY <1>2, <1>3, <1>4, <1>6, <1>7 DEF Heeds, Grows, Done, System
<1>9. Follows(made)
  <2> SUFFICES ASSUME NEW S, IsClosed(S), Within(S)
               PROVE  Within(S)' /\ \A d \in made : Implied(S, d)
    BY DEF Follows
  <2>1. t \in S.fieldEdges
    BY <1>2, EntailedWithin
  <2> QED BY <1>2, <1>3, <1>6, <2>1 DEF Within, Implied
<1> QED BY <1>5, <1>8, <1>9 DEF Effect

LEMMA SaturateCallsEffect ==
    ASSUME SyncInv, NEW c \in Innermost, SaturateCalls(c)
    PROVE  Effect(c)
<1>1. agenda \in Seq(SUBSET Call) /\ c \in Call
  BY InnermostCall DEF SyncInv, TypeOK
<1>2. PICK t \in EntailedCalls(callEdges, callRules) :
         callEdges' = callEdges \cup {t} /\ Resume(c, <<Heard("calls", t)>>, c)
  BY DEF SaturateCalls
<1>3. /\ c.op = "saturate" /\ c.system = "calls"
      /\ UNCHANGED <<fieldRules, callRules, fieldEdges, reachedStates, solved>>
  BY DEF SaturateCalls, clients
<1>4. c = SaturateCall("calls")
  BY <1>1, <1>3 DEF Call, SaturateCall
<1> DEFINE made == Heard("calls", t) \cup {c}
<1>5. Moves(c, made)
  BY <1>1, <1>2, ResumeMoves
<1>6. c \in made /\ \A d \in made : d.op \in {"heard", "saturate"}
  BY <1>3 DEF Heard
<1> HIDE DEF made
<1>7. c # SaturateCall("fields") /\ (Saturated("fields") => Saturated("fields")')
  BY <1>3, SaturatedKept DEF System, SaturateCall
<1>8. Heeds(c, made)
  BY <1>2, <1>3, <1>4, <1>6, <1>7 DEF Heeds, Grows, Done, System
<1>9. Follows(made)
  <2> SUFFICES ASSUME NEW S, IsClosed(S), Within(S)
               PROVE  Within(S)' /\ \A d \in made : Implied(S, d)
    BY DEF Follows
  <2>1. t \in S.callEdges
    BY <1>2, EntailedWithin
  <2> QED BY <1>2, <1>3, <1>6, <2>1 DEF Within, Implied
<1> QED BY <1>5, <1>8, <1>9 DEF Effect

LEMMA ForwardPopsEffect ==
    ASSUME SyncInv, NEW c \in Innermost, ForwardPops(c)
    PROVE  Effect(c)
<1>1. c \in Call /\ Pending(c)
  BY InnermostCall DEF SyncInv, Pending
<1>2. c.op = "saturate" /\ c.system \in System
  BY <1>1, CallFields DEF ForwardPops
<1>3. c = SaturateCall(c.system)
  BY <1>1, <1>2 DEF Call, SaturateCall
<1>4. /\ UNCHANGED <<fieldEdges, callEdges, reachedStates, solved, agenda>>
      /\ fieldRules \subseteq fieldRules' /\ callRules \subseteq callRules'
      /\ fieldRules' \subseteq fieldRules \cup ForwardedFields(fieldEdges, fieldRules)
      /\ callRules' \subseteq callRules \cup ForwardedCalls(callEdges, callRules)
      /\ c.system = "fields" => callRules' = callRules
      /\ c.system # "fields" => fieldRules' = fieldRules
  BY DEF ForwardPops, clients
<1>5. Moves(c, {c})
  BY <1>1, <1>4 DEF Moves, Waiting, Pending
<1>6. ASSUME NEW x \in System, x # c.system
      PROVE  c # SaturateCall(x) /\ (Saturated(x) => Saturated(x)')
  BY <1>2, <1>4, <1>6, SaturatedKept DEF System, SaturateCall
<1>7. Heeds(c, {c})
  BY <1>2, <1>3, <1>4, <1>6 DEF Heeds, Grows, Done
<1>8. Follows({c})
  <2> SUFFICES ASSUME NEW S, IsClosed(S), Within(S)
               PROVE  Within(S)' /\ Implied(S, c)
    BY DEF Follows
  <2>1. /\ ForwardedFields(fieldEdges, fieldRules) \subseteq S.fieldRules
        /\ ForwardedCalls(callEdges, callRules) \subseteq S.callRules
    BY EntailedWithin
  <2> QED BY <1>2, <1>4, <2>1 DEF Within, Implied
<1> QED BY <1>5, <1>7, <1>8 DEF Effect

LEMMA SaturationReturnsEffect ==
    ASSUME SyncInv, NEW c \in Innermost, SaturationReturns(c)
    PROVE  Effect(c)
<1>1. agenda \in Seq(SUBSET Call) /\ c \in Call
  BY InnermostCall DEF SyncInv, TypeOK
<1>2. c.op = "saturate" /\ c.system \in System /\ Return(c, <<>>) /\ UNCHANGED data
  BY <1>1, CallFields DEF SaturationReturns
<1>3. c = SaturateCall(c.system)
  BY <1>1, <1>2 DEF Call, SaturateCall
<1>4. Moves(c, {})
  BY <1>1, <1>2, ReturnMoves
<1>5. \A x \in System : Saturated(x) => Saturated(x)'
  BY <1>2, SaturatedKept DEF System, data, automata
<1>6. Saturated(c.system) \/ Pending(c)'
  <2>1. CASE \E i \in 2 .. Len(agenda) : c \in agenda[i]
    <3>1. PICK i \in 2 .. Len(agenda) : c \in agenda[i]
      BY <2>1
    <3>2. i \in DOMAIN agenda /\ i # 1 /\ Len(<<>>) = 0
      BY <1>1, <3>1
    <3>3. Stacked(c, <<>>)
      BY <1>1, <1>2, LoopTypes, ReturnStack
    <3>4. i + Len(<<>>) \in DOMAIN agenda' /\ agenda'[i + Len(<<>>)] = agenda[i]
      BY <3>2, <3>3 DEF Stacked
    <3> QED BY <3>1, <3>4 DEF Pending
  <2> QED BY <2>1 DEF SaturationReturns
<1>7. \A x \in System : x # c.system => c # SaturateCall(x)
  BY DEF SaturateCall
<1>8. Heeds(c, {})
  BY <1>2, <1>3, <1>5, <1>6, <1>7 DEF Heeds, Grows, Done, data, automata, clients
<1>9. Follows({})
  BY <1>2 DEF Follows, Within, data, automata
<1> QED BY <1>4, <1>8, <1>9 DEF Effect

LEMMA ContextEffect ==
    ASSUME SyncInv, NEW c \in Innermost, c.op = "heard",
           NEW N \in SUBSET Node, \A n \in N : InFields(n) /\ InCalls(n),
           Return(c, <<UNION {Process(n) : n \in N}>>),
           UNCHANGED <<automata, reachedStates, solved>>
    PROVE  Effect(c)
<1> DEFINE made == UNION {Process(n) : n \in N}
<1>1. agenda \in Seq(SUBSET Call)
  BY DEF SyncInv, TypeOK
<1>2. Moves(c, made)
  BY <1>1, ReturnMoves
<1>3. \A d \in made : d.op = "process" /\ d.n \in N
  BY DEF Process
<1> HIDE DEF made
<1>4. Heeds(c, made)
  BY AutomataKept DEF Heeds, Grows, Done, automata
<1>5. Follows(made)
  <2> SUFFICES ASSUME NEW S, IsClosed(S), Within(S)
               PROVE  Within(S)' /\ \A d \in made : Implied(S, d)
    BY DEF Follows
  <2>1. N \subseteq S.reached
    BY MetWithin
  <2> QED BY <1>3, <2>1 DEF Within, Implied, automata
<1> QED BY <1>2, <1>4, <1>5 DEF Effect

LEMMA SetFieldContextReachableEffect ==
    ASSUME SyncInv, NEW c \in Innermost, SetFieldContextReachable(c)
    PROVE  Effect(c)
<1> DEFINE nodes == IF IsGenerated(c.t.start) THEN {} ELSE {c.t.start[1]}
           N == (nodes \ fieldContextReachable) \cap callingContextReachable
<1>1. /\ c.op = "heard" /\ Return(c, <<UNION {Process(n) : n \in N}>>)
      /\ UNCHANGED <<automata, reachedStates, solved>>
  BY DEF SetFieldContextReachable, clients
<1>2. c.t \in FieldEdge /\ c.t \in fieldEdges
  <2>1. c.op = "heard" /\ c.system = "fields" /\ c \in Call /\ Pending(c)
    BY InnermostCall DEF SetFieldContextReachable, SyncInv, Pending
  <2>2. c.t \in FieldEdge /\ c = HeardCall("fields", c.t)
    BY <2>1, CallFields, CallEqual
  <2>3. Pending(HeardCall("fields", c.t))
    BY <2>1, <2>2
  <2> QED BY <2>2, <2>3 DEF SyncInv, HeardSound
<1>3. nodes \subseteq Node /\ \A n \in nodes : InFields(n)
  <2>1. CASE ~IsGenerated(c.t.start)
    <3>1. c.t.start = Single(c.t.start[1]) /\ nodes \subseteq Node
      BY <1>2, <2>1 DEF FieldEdge, FieldState, Single, IsGenerated, Node
    <3> QED BY <1>2, <2>1, <3>1 DEF InFields
  <2> QED BY <2>1
<1>4. N \in SUBSET Node /\ \A n \in N : InFields(n) /\ InCalls(n)
  BY <1>3 DEF SyncInv, ContextSound
<1> HIDE DEF N
<1> QED BY <1>1, <1>4, ContextEffect

LEMMA SetCallingContextReachableEffect ==
    ASSUME SyncInv, NEW c \in Innermost, SetCallingContextReachable(c)
    PROVE  Effect(c)
<1> DEFINE nodes == IF IsGenerated(c.t.start) THEN {} ELSE {<<c.t.label, c.t.start[1]>>}
           N == (nodes \ callingContextReachable) \cap fieldContextReachable
<1>1. /\ c.op = "heard" /\ Return(c, <<UNION {Process(n) : n \in N}>>)
      /\ UNCHANGED <<automata, reachedStates, solved>>
  BY DEF SetCallingContextReachable, clients
<1>2. c.t \in CallEdge /\ c.t \in callEdges
  <2>1. c.op = "heard" /\ c.system = "calls" /\ c \in Call /\ Pending(c)
    BY InnermostCall DEF SetCallingContextReachable, SyncInv, Pending
  <2>2. c.t \in CallEdge /\ c = HeardCall("calls", c.t)
    BY <2>1, CallFields, CallEqual
  <2>3. Pending(HeardCall("calls", c.t))
    BY <2>1, <2>2
  <2> QED BY <2>2, <2>3 DEF SyncInv, HeardSound
<1>3. \A n \in nodes : InCalls(n)
  <2>1. CASE ~IsGenerated(c.t.start)
    <3>1. c.t.start = Single(c.t.start[1])
      BY <1>2, <2>1 DEF CallEdge, CallState, Single, IsGenerated
    <3> QED BY <1>2, <2>1, <3>1 DEF InCalls
  <2> QED BY <2>1
<1>4. N \in SUBSET Node /\ \A n \in N : InFields(n) /\ InCalls(n)
  BY <1>3 DEF SyncInv, ContextSound, TypeOK
<1> HIDE DEF N
<1> QED BY <1>1, <1>4, ContextEffect

LEMMA ProcessNodeEffect ==
    ASSUME SyncInv, NEW c \in Innermost, ProcessNode(c)
    PROVE  Effect(c)
<1> DEFINE A == {[op |-> "client"]}
           B == {CopyCall(c.n)}
           D == {SuccessorsCall(c.n)}
           body == <<A, B, D>>
           made == IF c.n \in reachedStates THEN {} ELSE A \cup B \cup D
<1>1. agenda \in Seq(SUBSET Call) /\ Pending(c) /\ c.op = "process" /\ c.n \in Node
  BY InnermostCall, CallFields DEF SyncInv, TypeOK, Pending, ProcessNode
<1>2. /\ c.op = "process" /\ reachedStates' = reachedStates \cup {c.n}
      /\ UNCHANGED <<automata, solved>>
  BY DEF ProcessNode, clients
<1>3. Moves(c, made)
  <2>1. CASE c.n \in reachedStates
    BY <1>1, <2>1, ReturnMoves DEF ProcessNode
  <2>2. CASE c.n \notin reachedStates
    <3>1. Return(c, body)
      BY <2>2 DEF ProcessNode, SuccessorsCall
    <3>2. A \in SUBSET Call /\ B \in SUBSET Call /\ D \in SUBSET Call
      BY <1>1, CallTypes DEF SuccessorsCall
    <3> HIDE DEF A, B, D
    <3>3. /\ body \in Seq(SUBSET Call) /\ DOMAIN body = {1, 2, 3}
          /\ body[1] = A /\ body[2] = B /\ body[3] = D
      BY <3>2, LoopTypes
    <3> HIDE DEF body
    <3>4. Stacked(c, body)
      BY <1>1, <3>1, <3>3, ReturnStack
    <3> QED BY <2>2, <3>3, <3>4, StackedMoves
  <2> QED BY <2>1, <2>2
<1>4. /\ c.n \notin reachedStates => SuccessorsCall(c.n) \in made
      /\ \A d \in made : d.op \in {"client", "copy"} \/ (d.op = "successors" /\ d.n = c.n)
  BY DEF CopyCall, SuccessorsCall
<1> HIDE DEF made
<1>5. Heeds(c, made)
  BY <1>2, <1>4, AutomataKept DEF Heeds, Grows, Done, automata
<1>6. Follows(made)
  <2> SUFFICES ASSUME NEW S, Within(S), \A d : Pending(d) => Implied(S, d)
               PROVE  Within(S)' /\ \A d \in made : Implied(S, d)
    BY DEF Follows
  <2>1. c.n \in S.reached
    BY <1>1, <1>2 DEF Implied
  <2> QED BY <1>2, <1>4, <2>1 DEF Within, Implied, automata
<1> QED BY <1>3, <1>5, <1>6 DEF Effect

LEMMA ComputeSuccessorsEffect ==
    ASSUME SyncInv, NEW c \in Innermost, ComputeSuccessors(c)
    PROVE  Effect(c)
<1> DEFINE made == {FlowCall(c.n, s) : s \in Successors[c.n]}
<1>1. agenda \in Seq(SUBSET Call) /\ Pending(c)
  BY InnermostCall DEF SyncInv, TypeOK, Pending
<1>2. c.op = "successors" /\ UNCHANGED <<automata, reachedStates, solved>>
  BY DEF ComputeSuccessors, clients
<1>3. Moves(c, made)
  BY <1>1, ReturnMoves DEF ComputeSuccessors, FlowCall
<1>4. /\ \A s \in Successors[c.n] : FlowCall(c.n, s) \in made
      /\ \A d \in made : d.op = "flow" /\ d.n = c.n /\ d.s \in Successors[c.n]
  BY DEF FlowCall
<1> HIDE DEF made
<1>5. Heeds(c, made)
  BY <1>2, <1>4, AutomataKept DEF Heeds, Grows, Done, automata
<1>6. Follows(made)
  <2> SUFFICES ASSUME NEW S, Within(S), \A d : Pending(d) => Implied(S, d)
               PROVE  Within(S)' /\ \A d \in made : Implied(S, d)
    BY DEF Follows
  <2>1. c.n \in S.reached
    BY <1>1, <1>2 DEF Implied
  <2> QED BY <1>2, <1>4, <2>1 DEF Within, Implied, automata
<1> QED BY <1>3, <1>5, <1>6 DEF Effect

LEMMA ProcessFlowEffect ==
    ASSUME SyncInv, NEW c \in Innermost, ProcessFlow(c)
    PROVE  Effect(c)
<1> DEFINE F == RuleCall("fields", FieldRule(c.n, c.s))
           K == RuleCall("calls", CallRule(c.n, c.s))
           made == {F} \cup {K}
<1>1. agenda \in Seq(SUBSET Call) /\ Pending(c)
  BY InnermostCall DEF SyncInv, TypeOK, Pending
<1>2. c.op = "flow" /\ UNCHANGED <<automata, reachedStates, solved>>
  BY DEF ProcessFlow, data, clients
<1>3. Moves(c, made)
  <2>1. Return(c, <<{F}, {K}>>)
    BY DEF ProcessFlow, AddRule, RuleCall
  <2> HIDE DEF F, K
  <2> QED BY <1>1, <2>1, ReturnMoves, Zenon
<1>4. /\ F.op = "rule" /\ F.system = "fields" /\ F.r = FieldRule(c.n, c.s)
      /\ K.op = "rule" /\ K.system = "calls" /\ K.r = CallRule(c.n, c.s)
  BY DEF RuleCall
<1>5. Heeds(c, made)
  BY <1>2, AutomataKept DEF Heeds, Grows, Done, automata
<1>6. Follows(made)
  <2> SUFFICES ASSUME NEW S, IsClosed(S), Within(S), \A d : Pending(d) => Implied(S, d)
               PROVE  Within(S)' /\ Implied(S, F) /\ Implied(S, K)
    BY DEF Follows
  <2>1. c.n \in S.reached /\ c.s \in Successors[c.n]
    BY <1>1, <1>2 DEF Implied
  <2>2. FieldRule(c.n, c.s) \in S.fieldRules /\ CallRule(c.n, c.s) \in S.callRules
    BY <2>1, ClosedOutcome
  <2> HIDE DEF F, K
  <2>3. Implied(S, F) /\ Implied(S, K)
    BY <1>4, <2>2 DEF Implied
  <2> QED BY <1>2, <2>3 DEF Within, automata
<1> QED BY <1>3, <1>5, <1>6 DEF Effect

LEMMA StepEffect ==
    ASSUME SyncInv, NEW c \in Innermost,
           \/ ClientReturn(c) \/ Reachable(c)
           \/ AddFieldEdge(c) \/ AddCallEdge(c) \/ AddFieldRule(c) \/ AddCallRule(c)
           \/ SaturateFields(c) \/ SaturateCalls(c) \/ ForwardPops(c) \/ SaturationReturns(c)
           \/ SetFieldContextReachable(c) \/ SetCallingContextReachable(c)
           \/ ProcessNode(c) \/ TellStateListeners(c) \/ ComputeSuccessors(c) \/ ProcessFlow(c)
    PROVE  Effect(c)
BY ListenerEffect, AddFieldEdgeEffect, AddCallEdgeEffect, AddFieldRuleEffect,
   AddCallRuleEffect, SaturateFieldsEffect, SaturateCallsEffect, ForwardPopsEffect,
   SaturationReturnsEffect, SetFieldContextReachableEffect,
   SetCallingContextReachableEffect, ProcessNodeEffect, ComputeSuccessorsEffect,
   ProcessFlowEffect

LEMMA RegisterListenerEffect ==
    ASSUME SyncInv, NEW l \in StateListener, RegisterListener(l)
    PROVE  Effect(noCall)
<1> DEFINE made == IF ListensAt[l] \in reachedStates THEN Tell({l}) ELSE {}
<1>1. agenda \in Seq(SUBSET Call) /\ UNCHANGED <<automata, reachedStates, solved>>
  BY DEF SyncInv, TypeOK, RegisterListener
<1>2. Moves(noCall, made)
  <2>1. agenda' = <<made>> \o agenda
    BY DEF RegisterListener
  <2> HIDE DEF made
  <2> QED BY <1>1, <2>1, PushMoves
<1>3. noCall.op = "none" /\ \A d \in made : d.op = "reachable"
  BY DEF noCall, Tell
<1> HIDE DEF made
<1> QED BY <1>1, <1>2, <1>3, QuietEffect

LEMMA SolveEffect ==
    ASSUME SyncInv, NEW n \in Starts, Solve(n)
    PROVE  Effect(noCall)
<1> DEFINE A == {StartField(n)}
           B == {StartCall(n)}
           P == {ProcessCall(n)}
           body == <<A, B, P>>
           made == A \cup B \cup P
<1>1. /\ agenda \in Seq(SUBSET Call) /\ n \in Node
      /\ InitialNode \in Node /\ n[1] \in Stmt /\ n[2] \in Fact /\ InitialNode[2] \in Fact
  BY SyncAssumption DEF SyncInv, TypeOK, Node
<1>2. /\ solved' = solved \cup {n} /\ agenda' = body \o agenda
      /\ UNCHANGED <<automata, reachedStates>>
  BY DEF Solve, AddEdge, Process, StartField, StartCall, ProcessCall
<1>3. StartField(n).t \in FieldEdge /\ StartCall(n).t \in CallEdge
  <2>1. Single(n) \in FieldState /\ Single(InitialNode) \in FieldState
    BY <1>1 DEF FieldState
  <2>2. Single(n[2]) \in CallState /\ Single(InitialNode[2]) \in CallState
    BY <1>1 DEF CallState
  <2> QED BY <1>1, <2>1, <2>2 DEF StartField, StartCall, Edge, FieldEdge, CallEdge
<1>4. A \in SUBSET Call /\ B \in SUBSET Call /\ P \in SUBSET Call
  <2>1. A \subseteq AddEdge("fields", StartField(n).t)
        /\ B \subseteq AddEdge("calls", StartCall(n).t) /\ P \subseteq Process(n)
    BY DEF AddEdge, Process, StartField, StartCall, ProcessCall
  <2> QED BY <1>1, <1>3, <2>1, CallTypes
<1>5. /\ StartField(n) \in made /\ StartCall(n) \in made
      /\ \A d \in made : d = StartField(n) \/ d = StartCall(n) \/ d = ProcessCall(n)
  OBVIOUS
<1> HIDE DEF A, B, P
<1>6. /\ body \in Seq(SUBSET Call) /\ DOMAIN body = {1, 2, 3}
      /\ body[1] = A /\ body[2] = B /\ body[3] = P
  BY <1>4, LoopTypes
<1> HIDE DEF body
<1>7. Stacked(noCall, body)
  BY <1>1, <1>2, <1>6, NoCall, PushedStack
<1>8. Moves(noCall, made)
  BY <1>6, <1>7, StackedMoves
<1>9. /\ StartField(n).op = "add" /\ StartField(n).system = "fields"
      /\ StartField(n).t = StartsOf(n)[1]
      /\ StartCall(n).op = "add" /\ StartCall(n).system = "calls"
      /\ StartCall(n).t = StartsOf(n)[2]
      /\ ProcessCall(n).op = "process" /\ ProcessCall(n).n = n
  BY DEF StartField, StartCall, ProcessCall, StartsOf
<1>10. noCall.op = "none"
  BY DEF noCall
<1> HIDE DEF made
<1>11. Heeds(noCall, made)
  BY <1>2, <1>5, <1>10, AutomataKept DEF Heeds, Grows, Done, automata
<1>12. Follows(made)
  <2> SUFFICES ASSUME NEW S, IsClosed(S), HasStarts(S)', Within(S)
               PROVE  Within(S)' /\ \A d \in made : Implied(S, d)
    BY DEF Follows
  <2>1. StartsOf(n)[1] \in S.fieldEdges /\ StartsOf(n)[2] \in S.callEdges
    BY <1>2 DEF HasStarts
  <2>2. n \in S.reached
    <3>1. StartsOf(n)[1].start = Single(n) /\ StartsOf(n)[2].start = Single(n[2])
          /\ StartsOf(n)[2].label = n[1]
      BY DEF StartsOf, Edge
    <3>2. n \in Meet(S)
      BY <1>1, <2>1, <3>1 DEF Meet
    <3> QED BY <3>2, ClosedOutcome
  <2>3. Implied(S, StartField(n)) /\ Implied(S, StartCall(n)) /\ Implied(S, ProcessCall(n))
    BY <1>9, <2>1, <2>2 DEF Implied
  <2> QED BY <1>2, <1>5, <2>3 DEF Within, automata
<1> QED BY <1>8, <1>11, <1>12 DEF Effect

LEMMA RestEffect ==
    ASSUME SyncInv, EndLoop \/ UNCHANGED vars
    PROVE  Effect(noCall)
<1>1. agenda \in Seq(SUBSET Call) /\ UNCHANGED <<automata, reachedStates, solved>>
  BY DEF SyncInv, TypeOK, EndLoop, vars, data, clients
<1>2. Moves(noCall, {})
  <2>1. CASE EndLoop
    BY <1>1, <2>1, EndMoves DEF EndLoop
  <2>2. CASE UNCHANGED vars
    BY <2>2 DEF vars, Moves, Waiting
  <2> QED BY <2>1, <2>2
<1>3. noCall.op = "none"
  BY DEF noCall
<1> QED BY <1>1, <1>2, <1>3, QuietEffect

LEMMA NextEffect ==
    ASSUME SyncInv, [Next]_vars
    PROVE  solved \subseteq solved' /\ \E c : Effect(c)
<1>1. solved \subseteq solved'
  <2>1. CASE \E n \in Starts : Solve(n)
    BY <2>1 DEF Solve
  <2>2. CASE UNCHANGED solved
    BY <2>2
  <2>3. Step \/ (\E l \in StateListener : RegisterListener(l)) \/ UNCHANGED vars
          => UNCHANGED solved
    BY DEF Step, EndLoop, ClientReturn, Reachable, AddFieldEdge, AddCallEdge, AddFieldRule,
           AddCallRule, SaturateFields, SaturateCalls, ForwardPops, SaturationReturns,
           SetFieldContextReachable, SetCallingContextReachable, ProcessNode, TellStateListeners,
           ComputeSuccessors, ProcessFlow, RegisterListener, vars, data, clients
  <2> QED BY <2>1, <2>2, <2>3 DEF Next
<1>2. ASSUME Step PROVE \E c : Effect(c)
  <2>1. ASSUME EndLoop PROVE Effect(noCall)
    BY <2>1, RestEffect
  <2>2. ASSUME NEW c \in Innermost,
               \/ ClientReturn(c) \/ Reachable(c)
               \/ AddFieldEdge(c) \/ AddCallEdge(c) \/ AddFieldRule(c) \/ AddCallRule(c)
               \/ SaturateFields(c) \/ SaturateCalls(c) \/ ForwardPops(c) \/ SaturationReturns(c)
               \/ SetFieldContextReachable(c) \/ SetCallingContextReachable(c)
               \/ ProcessNode(c) \/ TellStateListeners(c) \/ ComputeSuccessors(c) \/ ProcessFlow(c)
        PROVE  Effect(c)
    BY <2>2, StepEffect
  <2> QED BY <1>2, <2>1, <2>2 DEF Step
<1>3. ASSUME NEW n \in Starts, Solve(n) PROVE Effect(noCall)
  BY <1>3, SolveEffect
<1>4. ASSUME NEW l \in StateListener, RegisterListener(l) PROVE Effect(noCall)
  BY <1>4, RegisterListenerEffect
<1>5. ASSUME UNCHANGED vars PROVE Effect(noCall)
  BY <1>5, RestEffect
<1>6. \E c : Effect(c)
  BY <1>2, <1>3, <1>4, <1>5 DEF Next
<1> QED BY <1>1, <1>6

LEMMA ResultInvariant == Spec => [](SyncInv /\ Followed /\ Heeded)
<1>1. Init => SyncInv
  BY InitInv
<1>2. Init => Followed /\ Heeded
  <2> SUFFICES ASSUME Init PROVE Followed /\ Heeded
    OBVIOUS
  <2>1. \A d : ~Pending(d)
    BY DEF Init, Pending
  <2>2. \A S : Within(S)
    BY DEF Init, Within
  <2>3. StartsHeeded /\ ReachedHeeded
    BY DEF Init, StartsHeeded, ReachedHeeded
  <2>4. SystemsHeeded
    <3>1. EntailedFields({}, {}) = {} /\ ForwardedFields({}, {}) = {}
      BY DEF EntailedFields, ForwardedFields, Unweighted, Fields!Normal, Fields!Push, Fields!Pop,
             Fields!Popped, Fields!Forwarded
    <3>2. EntailedCalls({}, {}) = {} /\ ForwardedCalls({}, {}) = {}
      BY DEF EntailedCalls, ForwardedCalls, Unweighted, Calls!Normal, Calls!Push, Calls!Pop,
             Calls!Popped, Calls!Forwarded
    <3> QED BY <3>1, <3>2 DEF Init, SystemsHeeded, Saturated
  <2> QED BY <2>1, <2>2, <2>3, <2>4 DEF Followed, Heeded
<1>3. SyncInv /\ Followed /\ Heeded /\ [Next]_vars => Followed' /\ Heeded'
  BY NextEffect, FollowedAfter, HeededAfter DEF Effect
<1>4. SyncInv /\ [Next]_vars => SyncInv'
  BY NextInv
<1> QED BY <1>1, <1>2, <1>3, <1>4, PTL DEF Spec

(***************************************************************************)
(* The result when the outermost call has returned.                        *)
(***************************************************************************)
\* Nothing more follows from what the solver has.
LEMMA NothingMore ==
    ASSUME SyncInv, Heeded, Idle
    PROVE  /\ Matched \subseteq reachedStates
           /\ \A n \in reachedStates : \A s \in Successors[n] :
                FieldRule(n, s) \in fieldRules /\ CallRule(n, s) \in callRules
           /\ \A n \in solved : StartsOf(n)[1] \in fieldEdges /\ StartsOf(n)[2] \in callEdges
           /\ Saturated("fields") /\ Saturated("calls")
<1>1. \A d : ~Pending(d)
  BY DEF Idle, Pending
<1>2. \A d : Asked(d) => Done(d)
  BY <1>1 DEF Asked
<1>3. Matched \subseteq reachedStates
  BY InvSynchronized DEF Synchronized
<1>4. ASSUME NEW n \in reachedStates, NEW s \in Successors[n]
      PROVE  FieldRule(n, s) \in fieldRules /\ CallRule(n, s) \in callRules
  <2>1. RulesAsked(n, s)
    BY <1>1 DEF Heeded, ReachedHeeded
  <2>2. /\ Done(RuleCall("fields", FieldRule(n, s)))
        /\ Done(RuleCall("calls", CallRule(n, s)))
    BY <1>2, <2>1 DEF RulesAsked
  <2> QED BY <2>2 DEF Done, RuleCall
<1>5. ASSUME NEW n \in solved
      PROVE  StartsOf(n)[1] \in fieldEdges /\ StartsOf(n)[2] \in callEdges
  <2>1. Done(StartField(n)) /\ Done(StartCall(n))
    BY <1>2 DEF Heeded, StartsHeeded
  <2> QED BY <2>1 DEF Done, StartField, StartCall, StartsOf
<1>6. Saturated("fields") /\ Saturated("calls")
  BY <1>1 DEF Heeded, SystemsHeeded, System
<1> QED BY <1>3, <1>4, <1>5, <1>6

LEMMA ResultClosed ==
    ASSUME SyncInv, Heeded, Idle
    PROVE  IsClosed(Result)
<1>1. /\ Result.reached = reachedStates
      /\ Result.fieldRules = fieldRules /\ Result.callRules = callRules
      /\ Result.fieldEdges = fieldEdges /\ Result.callEdges = callEdges
  BY DEF Result
<1>2. Result \in Outcomes
  BY DEF Result, Outcomes, SyncInv, TypeOK
<1>3. reachedStates \cup Meet(Result) = reachedStates
  <2>1. Meet(Result) = Matched
    BY <1>1 DEF Meet, Matched
  <2> QED BY <2>1, NothingMore
<1>4. /\ {FieldRule(f[1], f[2]) : f \in FlowsOf(Result)} \subseteq fieldRules
      /\ {CallRule(f[1], f[2]) : f \in FlowsOf(Result)} \subseteq callRules
  <2> SUFFICES ASSUME NEW f \in FlowsOf(Result)
               PROVE  FieldRule(f[1], f[2]) \in fieldRules /\ CallRule(f[1], f[2]) \in callRules
    OBVIOUS
  <2>1. PICK n \in reachedStates : \E s \in Successors[n] : f = <<n, s>>
    BY <1>1 DEF FlowsOf
  <2>2. PICK s \in Successors[n] : f = <<n, s>>
    BY <2>1
  <2> QED BY <2>2, NothingMore
<1>5. /\ EntailedFields(fieldEdges, fieldRules) \subseteq fieldEdges
      /\ ForwardedFields(fieldEdges, fieldRules) \subseteq fieldRules
      /\ EntailedCalls(callEdges, callRules) \subseteq callEdges
      /\ ForwardedCalls(callEdges, callRules) \subseteq callRules
  BY NothingMore DEF Saturated
<1>6. Round(Result) = Result
  <2>1. /\ fieldRules \cup {FieldRule(f[1], f[2]) : f \in FlowsOf(Result)}
             \cup ForwardedFields(fieldEdges, fieldRules) = fieldRules
        /\ callRules \cup {CallRule(f[1], f[2]) : f \in FlowsOf(Result)}
             \cup ForwardedCalls(callEdges, callRules) = callRules
        /\ fieldEdges \cup EntailedFields(fieldEdges, fieldRules) = fieldEdges
        /\ callEdges \cup EntailedCalls(callEdges, callRules) = callEdges
    BY <1>4, <1>5, Zenon
  <2>2. Round(Result) = [reached |-> reachedStates, fieldRules |-> fieldRules,
                         callRules |-> callRules, fieldEdges |-> fieldEdges,
                         callEdges |-> callEdges]
    BY <1>1, <1>3, <2>1, Zenon DEF Round
  <2> QED BY <2>2, Zenon DEF Result
<1> QED BY <1>2, <1>6 DEF IsClosed

LEMMA ResultLeast ==
    ASSUME SyncInv, Followed, Heeded, Idle
    PROVE  IsLeast(Result)
<1>1. /\ Result.reached = reachedStates
      /\ Result.fieldRules = fieldRules /\ Result.callRules = callRules
      /\ Result.fieldEdges = fieldEdges /\ Result.callEdges = callEdges
  BY DEF Result
<1>2. HasStarts(Result)
  BY <1>1, NothingMore DEF HasStarts
<1>3. ASSUME NEW S, IsClosed(S), HasStarts(S)
      PROVE  /\ reachedStates \subseteq S.reached
             /\ fieldRules \subseteq S.fieldRules /\ callRules \subseteq S.callRules
             /\ fieldEdges \subseteq S.fieldEdges /\ callEdges \subseteq S.callEdges
  <2>1. Within(S)
    BY <1>3 DEF Followed
  <2> QED BY <2>1 DEF Within
<1> QED BY <1>1, <1>2, <1>3, ResultClosed DEF IsLeast

\* At rest, the nodes, rules and transitions of both systems are the least that
\* hold the nodes solved and are closed: a node both automata reach has its
\* rules, both automata are saturated, and nothing is there that does not follow,
\* whatever the order of notifications, successors and nested calls.
\* (SyncPDSSolver: solve, processNode, addNormalRule, setFieldContextReachable)
THEOREM ResultIsLeast == Spec => [](Idle => IsLeast(Result))
<1>1. SyncInv /\ Followed /\ Heeded => (Idle => IsLeast(Result))
  BY ResultLeast
<1> QED BY <1>1, ResultInvariant, PTL

\* Two least outcomes are the same.
LEMMA LeastUnique ==
    ASSUME NEW x, NEW y, IsLeast(x), IsLeast(y)
    PROVE  x = y
<1>1. ASSUME NEW a, NEW b, IsLeast(a), IsLeast(b)
      PROVE  /\ a.reached \subseteq b.reached
             /\ a.fieldRules \subseteq b.fieldRules /\ a.callRules \subseteq b.callRules
             /\ a.fieldEdges \subseteq b.fieldEdges /\ a.callEdges \subseteq b.callEdges
  <2>1. IsClosed(b) /\ HasStarts(b)
    BY <1>1 DEF IsLeast
  <2> QED BY <1>1, <2>1, Zenon DEF IsLeast
<1>2. /\ x.reached = y.reached
      /\ x.fieldRules = y.fieldRules /\ x.callRules = y.callRules
      /\ x.fieldEdges = y.fieldEdges /\ x.callEdges = y.callEdges
  <2>1. /\ x.reached \subseteq y.reached
        /\ x.fieldRules \subseteq y.fieldRules /\ x.callRules \subseteq y.callRules
        /\ x.fieldEdges \subseteq y.fieldEdges /\ x.callEdges \subseteq y.callEdges
    BY <1>1
  <2>2. /\ y.reached \subseteq x.reached
        /\ y.fieldRules \subseteq x.fieldRules /\ y.callRules \subseteq x.callRules
        /\ y.fieldEdges \subseteq x.fieldEdges /\ y.callEdges \subseteq x.callEdges
    BY <1>1
  <2> QED BY <2>1, <2>2
<1>3. x \in Outcomes /\ y \in Outcomes
  BY DEF IsLeast, IsClosed
<1> QED BY <1>2, <1>3 DEF Outcomes

(***************************************************************************)
(* The fixpoint that is computed by recursion.                             *)
(***************************************************************************)
LEMMA RulesFinite ==
    ASSUME NEW states, NEW controls, NEW l1, NEW normal, NEW push, NEW site, NEW pop,
           IsFiniteSet(states), IsFiniteSet(controls), IsFiniteSet(l1),
           IsFiniteSet(normal), IsFiniteSet(push), IsFiniteSet(site), IsFiniteSet(pop)
    PROVE  IsFiniteSet(RulesOf(states, controls, l1, normal, push, site, pop))
<1> DEFINE N == [kind : {"normal"}, s1 : states, l1 : l1, s2 : controls, l2 : normal, w : {One}]
           P == [kind : {"push"}, s1 : states, l1 : l1, s2 : controls, l2 : push,
                 callSite : site, w : {One}]
           Q == [kind : {"pop"}, s1 : states, l1 : pop, s2 : controls, w : {One}]
           from == states \X l1
           popFrom == states \X pop
           toN == controls \X normal
           toP == controls \X push
           toPs == toP \X site
           TN == from \X toN
           TP == from \X toPs
           TQ == popFrom \X controls
           fN == [r \in N |-> <<<<r.s1, r.l1>>, <<r.s2, r.l2>>>>]
           fP == [r \in P |-> <<<<r.s1, r.l1>>, <<<<r.s2, r.l2>>, r.callSite>>>>]
           fQ == [r \in Q |-> <<<<r.s1, r.l1>>, r.s2>>]
<1>1. IsFiniteSet(from) /\ IsFiniteSet(popFrom) /\ IsFiniteSet(toN) /\ IsFiniteSet(toP)
  BY FS_Product
<1>2. IsFiniteSet(toPs) /\ IsFiniteSet(TN) /\ IsFiniteSet(TQ)
  BY <1>1, FS_Product
<1>3. IsFiniteSet(TP)
  BY <1>1, <1>2, FS_Product
<1>4. fN \in [N -> TN] /\ fP \in [P -> TP] /\ fQ \in [Q -> TQ]
  OBVIOUS
<1>5. ASSUME NEW a \in N, NEW b \in N, fN[a] = fN[b] PROVE a = b
  BY <1>5
<1>6. ASSUME NEW a \in P, NEW b \in P, fP[a] = fP[b] PROVE a = b
  BY <1>6
<1>7. ASSUME NEW a \in Q, NEW b \in Q, fQ[a] = fQ[b] PROVE a = b
  BY <1>7
<1>0. RulesOf(states, controls, l1, normal, push, site, pop) = (N \cup P) \cup Q
  BY DEF RulesOf
<1> HIDE DEF N, P, Q, TN, TP, TQ, fN, fP, fQ
<1>8. IsFiniteSet(N) /\ IsFiniteSet(P) /\ IsFiniteSet(Q)
  <2>1. IsFiniteSet(N)
    BY <1>2, <1>4, <1>5, NamedFinite
  <2>2. IsFiniteSet(P)
    BY <1>3, <1>4, <1>6, NamedFinite
  <2>3. IsFiniteSet(Q)
    BY <1>2, <1>4, <1>7, NamedFinite
  <2> QED BY <2>1, <2>2, <2>3
<1>9. IsFiniteSet(N \cup P)
  BY <1>8, FS_Union
<1> QED BY <1>0, <1>8, <1>9, FS_Union

LEMMA StatesFinite ==
    ASSUME NEW S, NEW A, IsFiniteSet(S), IsFiniteSet(A)
    PROVE  IsFiniteSet({Single(n) : n \in S}) /\ IsFiniteSet({Single(n) : n \in S} \cup (S \X A))
<1> DEFINE T == {Single(n) : n \in S}
           f == [n \in S |-> Single(n)]
<1>1. f \in [S -> T] /\ \A t \in T : \E n \in S : f[n] = t
  OBVIOUS
<1> HIDE DEF T, f
<1>2. IsFiniteSet(T)
  BY <1>1, ImageFinite
<1>3. IsFiniteSet(S \X A)
  BY FS_Product
<1>4. IsFiniteSet(T \cup (S \X A))
  BY <1>2, <1>3, FS_Union
<1> QED BY <1>2, <1>4 DEF T

LEMMA EdgesFinite ==
    ASSUME NEW S, NEW L, IsFiniteSet(S), IsFiniteSet(L)
    PROVE  IsFiniteSet([start : S, label : L, target : S])
<1> DEFINE E == [start : S, label : L, target : S]
           from == S \X L
           T == from \X S
           f == [t \in E |-> <<<<t.start, t.label>>, t.target>>]
<1>1. IsFiniteSet(from)
  BY FS_Product
<1>2. IsFiniteSet(T)
  BY <1>1, FS_Product
<1>3. f \in [E -> T]
  OBVIOUS
<1>4. ASSUME NEW a \in E, NEW b \in E, f[a] = f[b] PROVE a = b
  BY <1>4
<1> HIDE DEF E, T, f
<1>5. IsFiniteSet(E)
  BY <1>2, <1>3, <1>4, NamedFinite
<1> QED BY <1>5 DEF E

LEMMA ComponentsFinite ==
    /\ IsFiniteSet(Node) /\ IsFiniteSet(FieldRules) /\ IsFiniteSet(CallRules)
    /\ IsFiniteSet(FieldEdge) /\ IsFiniteSet(CallEdge)
<1>1. IsFiniteSet(Node)
  BY SyncFinite, FS_Product DEF Node
<1>2. /\ IsFiniteSet(FieldState) /\ IsFiniteSet({Single(n) : n \in Node})
      /\ IsFiniteSet(CallState) /\ IsFiniteSet({Single(f) : f \in Fact})
  BY <1>1, SyncFinite, StatesFinite DEF FieldState, CallState
<1>3. IsFiniteSet({AnyField}) /\ IsFiniteSet({EpsField, EmptyField}) /\ IsFiniteSet({EpsStmt})
  <2>1. IsFiniteSet({AnyField}) /\ IsFiniteSet({EpsField}) /\ IsFiniteSet({EmptyField})
        /\ IsFiniteSet({EpsStmt})
    BY FS_Singleton
  <2>2. IsFiniteSet({EpsField} \cup {EmptyField})
    BY <2>1, FS_Union
  <2>3. {EpsField} \cup {EmptyField} = {EpsField, EmptyField}
    OBVIOUS
  <2> QED BY <2>1, <2>2, <2>3
<1>4. IsFiniteSet(Wildcards)
  <2> DEFINE B == {AllBut(f) : f \in Field}
             g == [f \in Field |-> AllBut(f)]
  <2>1. g \in [Field -> B] /\ \A t \in B : \E f \in Field : g[f] = t
    OBVIOUS
  <2> HIDE DEF B, g
  <2>2. IsFiniteSet(B)
    BY <2>1, SyncFinite, ImageFinite
  <2> QED BY <1>3, <2>2, FS_Union DEF Wildcards, B
<1>5. IsFiniteSet(Field \cup {EpsField, EmptyField}) /\ IsFiniteSet(Stmt \cup {EpsStmt})
  BY <1>3, SyncFinite, FS_Union
<1>6. IsFiniteSet(FieldEdge) /\ IsFiniteSet(CallEdge)
  BY <1>2, <1>5, EdgesFinite DEF FieldEdge, CallEdge
<1>7. IsFiniteSet(FieldRules) /\ IsFiniteSet(CallRules)
  <2>1. IsFiniteSet(FieldRules)
    BY <1>2, <1>3, <1>4, SyncFinite, RulesFinite DEF FieldRules
  <2>2. IsFiniteSet(CallRules)
    BY <1>2, SyncFinite, RulesFinite DEF CallRules
  <2> QED BY <2>1, <2>2
<1> QED BY <1>1, <1>6, <1>7

\* One outcome holds at most what another one holds.
AtMost(x, y) ==
    /\ x.reached \subseteq y.reached
    /\ x.fieldRules \subseteq y.fieldRules /\ x.callRules \subseteq y.callRules
    /\ x.fieldEdges \subseteq y.fieldEdges /\ x.callEdges \subseteq y.callEdges

LEMMA RoundFields ==
    ASSUME NEW x
    PROVE  /\ Round(x).reached = x.reached \cup Meet(x)
           /\ Round(x).fieldRules = x.fieldRules \cup {FieldRule(f[1], f[2]) : f \in FlowsOf(x)}
                                      \cup ForwardedFields(x.fieldEdges, x.fieldRules)
           /\ Round(x).callRules = x.callRules \cup {CallRule(f[1], f[2]) : f \in FlowsOf(x)}
                                     \cup ForwardedCalls(x.callEdges, x.callRules)
           /\ Round(x).fieldEdges = x.fieldEdges \cup EntailedFields(x.fieldEdges, x.fieldRules)
           /\ Round(x).callEdges = x.callEdges \cup EntailedCalls(x.callEdges, x.callRules)
BY DEF Round

LEMMA InFlows ==
    ASSUME NEW x, NEW f
    PROVE  f \in FlowsOf(x) <=> \E n \in x.reached : \E s \in Successors[n] : f = <<n, s>>
<1> DEFINE flows(n) == {<<n, s>> : s \in Successors[n]}
           all == UNION {flows(n) : n \in x.reached}
<1>1. \A n : f \in flows(n) <=> \E s \in Successors[n] : f = <<n, s>>
  OBVIOUS
<1>2. FlowsOf(x) = all
  BY DEF FlowsOf
<1> HIDE DEF flows
<1>3. f \in all <=> \E n \in x.reached : f \in flows(n)
  BY Zenon
<1> HIDE DEF all
<1> QED BY <1>1, <1>2, <1>3, Zenon

LEMMA RoundTypes ==
    ASSUME NEW x \in Outcomes
    PROVE  Round(x) \in Outcomes
<1>1. /\ x.reached \in SUBSET Node
      /\ x.fieldRules \in SUBSET FieldRules /\ x.callRules \in SUBSET CallRules
      /\ x.fieldEdges \in SUBSET FieldEdge /\ x.callEdges \in SUBSET CallEdge
  BY DEF Outcomes
<1>2. Meet(x) \subseteq Node
  BY DEF Meet
<1>3. /\ EntailedFields(x.fieldEdges, x.fieldRules) \subseteq FieldEdge
      /\ EntailedCalls(x.callEdges, x.callRules) \subseteq CallEdge
      /\ ForwardedFields(x.fieldEdges, x.fieldRules) \subseteq FieldRules
      /\ ForwardedCalls(x.callEdges, x.callRules) \subseteq CallRules
  BY <1>1, EdgesEntailed, PopsForwarded
<1>4. ASSUME NEW f \in FlowsOf(x)
      PROVE  FieldRule(f[1], f[2]) \in FieldRules /\ CallRule(f[1], f[2]) \in CallRules
  <2>1. PICK n \in x.reached : \E s \in Successors[n] : f = <<n, s>>
    BY InFlows
  <2>2. PICK s \in Successors[n] : f = <<n, s>>
    BY <2>1
  <2>3. n \in Node /\ s \in Successor
    BY <1>1, <2>1, <2>2, SyncAssumption
  <2>4. f[1] = n /\ f[2] = s
    BY <2>2
  <2> QED BY <2>3, <2>4, SuccessorRules
<1>5. /\ {FieldRule(f[1], f[2]) : f \in FlowsOf(x)} \subseteq FieldRules
      /\ {CallRule(f[1], f[2]) : f \in FlowsOf(x)} \subseteq CallRules
  BY <1>4
<1>6. /\ Round(x).reached \in SUBSET Node
      /\ Round(x).fieldRules \in SUBSET FieldRules /\ Round(x).callRules \in SUBSET CallRules
      /\ Round(x).fieldEdges \in SUBSET FieldEdge /\ Round(x).callEdges \in SUBSET CallEdge
  BY <1>1, <1>2, <1>3, <1>5, RoundFields
<1>7. Round(x) = [reached |-> Round(x).reached, fieldRules |-> Round(x).fieldRules,
                  callRules |-> Round(x).callRules, fieldEdges |-> Round(x).fieldEdges,
                  callEdges |-> Round(x).callEdges]
  BY RoundFields, Zenon DEF Round
<1> QED BY <1>6, <1>7 DEF Outcomes

LEMMA RoundGrows ==
    ASSUME NEW x
    PROVE  AtMost(x, Round(x))
BY RoundFields DEF AtMost

LEMMA RoundMonotone ==
    ASSUME NEW x, NEW y, AtMost(x, y)
    PROVE  AtMost(Round(x), Round(y))
<1>1. Meet(x) \subseteq Meet(y)
  BY DEF AtMost, Meet
<1>2. /\ EntailedFields(x.fieldEdges, x.fieldRules) \subseteq EntailedFields(y.fieldEdges, y.fieldRules)
      /\ ForwardedFields(x.fieldEdges, x.fieldRules) \subseteq ForwardedFields(y.fieldEdges, y.fieldRules)
  BY FieldsMonotone DEF AtMost
<1>3. /\ EntailedCalls(x.callEdges, x.callRules) \subseteq EntailedCalls(y.callEdges, y.callRules)
      /\ ForwardedCalls(x.callEdges, x.callRules) \subseteq ForwardedCalls(y.callEdges, y.callRules)
  BY CallsMonotone DEF AtMost
<1>4. ASSUME NEW f \in FlowsOf(x) PROVE f \in FlowsOf(y)
  <2>1. PICK n \in x.reached : \E s \in Successors[n] : f = <<n, s>>
    BY InFlows
  <2>2. n \in y.reached
    BY <2>1 DEF AtMost
  <2> QED BY <2>1, <2>2, InFlows
<1>5. /\ {FieldRule(f[1], f[2]) : f \in FlowsOf(x)} \subseteq {FieldRule(f[1], f[2]) : f \in FlowsOf(y)}
      /\ {CallRule(f[1], f[2]) : f \in FlowsOf(x)} \subseteq {CallRule(f[1], f[2]) : f \in FlowsOf(y)}
  BY <1>4
<1> QED BY <1>1, <1>2, <1>3, <1>5, RoundFields DEF AtMost

\* All that an outcome holds, each element with the part it is in.
Parts(x) ==
    ({"reached"} \X x.reached)
      \cup (({"fieldRules"} \X x.fieldRules) \cup ({"callRules"} \X x.callRules))
      \cup (({"fieldEdges"} \X x.fieldEdges) \cup ({"callEdges"} \X x.callEdges))

LEMMA PartsFinite ==
    LET all == [reached |-> Node, fieldRules |-> FieldRules, callRules |-> CallRules,
                fieldEdges |-> FieldEdge, callEdges |-> CallEdge]
    IN  IsFiniteSet(Parts(all)) /\ \A x \in Outcomes : Parts(x) \subseteq Parts(all)
<1> DEFINE all == [reached |-> Node, fieldRules |-> FieldRules, callRules |-> CallRules,
                   fieldEdges |-> FieldEdge, callEdges |-> CallEdge]
           a == {"reached"} \X Node
           b == {"fieldRules"} \X FieldRules
           c == {"callRules"} \X CallRules
           d == {"fieldEdges"} \X FieldEdge
           e == {"callEdges"} \X CallEdge
<1>1. /\ IsFiniteSet({"reached"}) /\ IsFiniteSet({"fieldRules"}) /\ IsFiniteSet({"callRules"})
      /\ IsFiniteSet({"fieldEdges"}) /\ IsFiniteSet({"callEdges"})
  BY FS_Singleton
<1>2. /\ IsFiniteSet(a) /\ IsFiniteSet(b) /\ IsFiniteSet(c) /\ IsFiniteSet(d) /\ IsFiniteSet(e)
  BY <1>1, ComponentsFinite, FS_Product
<1>3. Parts(all) = a \cup (b \cup c) \cup (d \cup e)
  BY DEF Parts
<1> HIDE DEF a, b, c, d, e
<1>4. IsFiniteSet(b \cup c) /\ IsFiniteSet(d \cup e)
  BY <1>2, FS_Union
<1>5. IsFiniteSet(a \cup (b \cup c))
  BY <1>2, <1>4, FS_Union
<1>6. IsFiniteSet(Parts(all))
  BY <1>3, <1>4, <1>5, FS_Union
<1>7. \A x \in Outcomes : Parts(x) \subseteq Parts(all)
  BY DEF Parts, Outcomes
<1> QED BY <1>6, <1>7

LEMMA PartsGrow ==
    ASSUME NEW x \in Outcomes, NEW y \in Outcomes, AtMost(x, y)
    PROVE  /\ Parts(x) \subseteq Parts(y)
           /\ Parts(x) = Parts(y) => x = y
<1>1. Parts(x) \subseteq Parts(y)
  BY DEF Parts, AtMost
<1>2. ASSUME Parts(x) = Parts(y) PROVE x = y
  <2>1. ASSUME NEW p \in y.reached PROVE p \in x.reached
    <3>1. <<"reached", p>> \in Parts(x)
      BY <1>2 DEF Parts
    <3> QED BY <3>1 DEF Parts
  <2>2. ASSUME NEW p \in y.fieldRules PROVE p \in x.fieldRules
    <3>1. <<"fieldRules", p>> \in Parts(x)
      BY <1>2 DEF Parts
    <3> QED BY <3>1 DEF Parts
  <2>3. ASSUME NEW p \in y.callRules PROVE p \in x.callRules
    <3>1. <<"callRules", p>> \in Parts(x)
      BY <1>2 DEF Parts
    <3> QED BY <3>1 DEF Parts
  <2>4. ASSUME NEW p \in y.fieldEdges PROVE p \in x.fieldEdges
    <3>1. <<"fieldEdges", p>> \in Parts(x)
      BY <1>2 DEF Parts
    <3> QED BY <3>1 DEF Parts
  <2>5. ASSUME NEW p \in y.callEdges PROVE p \in x.callEdges
    <3>1. <<"callEdges", p>> \in Parts(x)
      BY <1>2 DEF Parts
    <3> QED BY <3>1 DEF Parts
  <2>6. /\ x.reached = y.reached
        /\ x.fieldRules = y.fieldRules /\ x.callRules = y.callRules
        /\ x.fieldEdges = y.fieldEdges /\ x.callEdges = y.callEdges
    BY <2>1, <2>2, <2>3, <2>4, <2>5 DEF AtMost
  <2> QED BY <2>6 DEF Outcomes
<1> QED BY <1>1, <1>2

LEMMA FixpointLeast ==
    ASSUME NEW x \in Outcomes
    PROVE  /\ IsClosed(Fixpoint[x]) /\ AtMost(x, Fixpoint[x])
           /\ \A S : IsClosed(S) /\ AtMost(x, S) => AtMost(Fixpoint[x], S)
<1> DEFINE all == [reached |-> Node, fieldRules |-> FieldRules, callRules |-> CallRules,
                   fieldEdges |-> FieldEdge, callEdges |-> CallEdge]
           U == Parts(all)
           next == [y \in Outcomes |-> Round(y)]
           rank == [y \in Outcomes |-> Parts(y)]
<1>1. IsFiniteSet(U) /\ rank \in [Outcomes -> SUBSET U]
  BY PartsFinite
<1>2. next \in [Outcomes -> Outcomes]
  BY RoundTypes
<1>3. ASSUME NEW y \in Outcomes
      PROVE  /\ next[y] = Round(y)
             /\ next[y] = y \/ (rank[y] \subseteq rank[next[y]] /\ rank[y] # rank[next[y]])
  <2>1. next[y] = Round(y) /\ Round(y) \in Outcomes /\ AtMost(y, Round(y))
    BY RoundTypes, RoundGrows
  <2>2. rank[y] = Parts(y) /\ rank[next[y]] = Parts(Round(y))
    BY <2>1
  <2>3. Parts(y) \subseteq Parts(Round(y)) /\ (Parts(y) = Parts(Round(y)) => y = Round(y))
    BY <2>1, PartsGrow
  <2> QED BY <2>1, <2>2, <2>3
<1>4. \A f : Repeats(Outcomes, next, f) <=>
        f = [y \in Outcomes |-> IF Round(y) = y THEN y ELSE f[Round(y)]]
  <2> SUFFICES ASSUME NEW f
               PROVE  [y \in Outcomes |-> IF next[y] = y THEN y ELSE f[next[y]]]
                    = [y \in Outcomes |-> IF Round(y) = y THEN y ELSE f[Round(y)]]
    BY DEF Repeats
  <2> QED OBVIOUS
<1> HIDE DEF U, next, rank
<1>5. Climbs(Outcomes, U, next, rank)
  BY <1>1, <1>2, <1>3 DEF Climbs
<1>6. Repeats(Outcomes, next, Fixpoint)
  <2>1. \E f : Repeats(Outcomes, next, f)
    BY <1>5, ClosureExists
  <2> QED BY <1>4, <2>1, Zenon DEF Fixpoint
<1> DEFINE y == Fixpoint[x]
<1>7. /\ y \in Outcomes /\ next[y] = y
      /\ \A S \in SUBSET Outcomes : x \in S /\ (\A z \in S : next[z] \in S) => y \in S
  BY <1>5, <1>6, ClosureEnds
<1> HIDE DEF y
<1>8. IsClosed(y)
  BY <1>3, <1>7 DEF IsClosed
<1>9. AtMost(x, y)
  <2> DEFINE above == {z \in Outcomes : AtMost(x, z)}
  <2>1. x \in above
    BY DEF AtMost
  <2>2. ASSUME NEW z \in above PROVE next[z] \in above
    <3>1. next[z] = Round(z) /\ Round(z) \in Outcomes /\ AtMost(z, Round(z)) /\ AtMost(x, z)
      BY <1>3, RoundTypes, RoundGrows
    <3>2. AtMost(x, Round(z))
      BY <3>1 DEF AtMost
    <3> QED BY <3>1, <3>2
  <2>3. y \in above
    BY <1>7, <2>1, <2>2
  <2> QED BY <2>3
<1>10. ASSUME NEW S, IsClosed(S), AtMost(x, S)
       PROVE  AtMost(y, S)
  <2> DEFINE below == {z \in Outcomes : AtMost(z, S)}
  <2>1. x \in below
    BY <1>10
  <2>2. ASSUME NEW z \in below PROVE next[z] \in below
    <3>1. next[z] = Round(z) /\ Round(z) \in Outcomes /\ AtMost(z, S) /\ Round(S) = S
      BY <1>3, <1>10, RoundTypes DEF IsClosed
    <3>2. AtMost(Round(z), Round(S))
      BY <3>1, RoundMonotone
    <3>3. AtMost(Round(z), S)
      BY <3>1, <3>2
    <3> QED BY <3>1, <3>3
  <2>3. y \in below
    BY <1>7, <2>1, <2>2
  <2> QED BY <2>3
<1> QED BY <1>8, <1>9, <1>10 DEF y

LEMMA ExpectedLeast ==
    ASSUME solved \subseteq Starts
    PROVE  IsLeast(Expected[solved])
<1> DEFINE x == [reached |-> {}, fieldRules |-> {}, callRules |-> {},
                 fieldEdges |-> {StartsOf(n)[1] : n \in solved},
                 callEdges |-> {StartsOf(n)[2] : n \in solved}]
<1>1. Expected[solved] = Fixpoint[x]
  BY DEF Expected
<1>2. ASSUME NEW n \in solved
      PROVE  StartsOf(n)[1] \in FieldEdge /\ StartsOf(n)[2] \in CallEdge
  <2>1. n \in Node /\ InitialNode \in Node
    BY SyncAssumption
  <2>2. /\ Single(n) \in FieldState /\ Single(InitialNode) \in FieldState
        /\ Single(n[2]) \in CallState /\ Single(InitialNode[2]) \in CallState
        /\ n[1] \in Stmt
    BY <2>1 DEF FieldState, CallState, Node
  <2> QED BY <2>2 DEF StartsOf, Edge, FieldEdge, CallEdge
<1>3. x \in Outcomes
  BY <1>2 DEF Outcomes
<1>4. \A S : S \in Outcomes => (HasStarts(S) <=> AtMost(x, S))
  BY DEF HasStarts, AtMost
<1> HIDE DEF x
<1>5. /\ IsClosed(Fixpoint[x]) /\ AtMost(x, Fixpoint[x])
      /\ \A S : IsClosed(S) /\ AtMost(x, S) => AtMost(Fixpoint[x], S)
  BY <1>3, FixpointLeast
<1>6. HasStarts(Fixpoint[x])
  BY <1>4, <1>5 DEF IsClosed
<1>7. ASSUME NEW S, IsClosed(S), HasStarts(S)
      PROVE  AtMost(Fixpoint[x], S)
  BY <1>4, <1>5, <1>7 DEF IsClosed
<1>8. IsLeast(Fixpoint[x])
  BY <1>5, <1>6, <1>7 DEF IsLeast, AtMost
<1> QED BY <1>1, <1>8

\* Hence the property that is checked: when the outermost call returns, the
\* solver's result is the fixpoint computed in SyncFixpoint, in whatever order
\* the notifications, the successors and the calls of solve came.
THEOREM OrderNeverMatters == Spec => []OrderIndependent
<1>1. SyncInv /\ Followed /\ Heeded => OrderIndependent
  <2> SUFFICES ASSUME SyncInv, Followed, Heeded, Idle
               PROVE  Result = Expected[solved]
    BY DEF OrderIndependent
  <2>1. IsLeast(Result)
    BY ResultLeast
  <2>2. solved \subseteq Starts
    BY DEF SyncInv, TypeOK
  <2>3. IsLeast(Expected[solved])
    BY <2>2, ExpectedLeast
  <2> QED BY <2>1, <2>3, LeastUnique
<1> QED BY <1>1, ResultInvariant, PTL

(***************************************************************************)
(* Summaries: the transitions that there are, the listeners and the calls. *)
(***************************************************************************)
SumTarget == Generated \cup {Initial(s) : s \in Solver}
PlainEdge == [start : Control, label : Label \ {Eps}, target : SumTarget]
EpsEdge == [start : Control, label : {Eps}, target : Generated]
PushEdge == [start : Generated, label : Label \ {Eps}, target : SumTarget]
SumEdge == PlainEdge \cup EpsEdge \cup PushEdge

LEMMA EdgeFields ==
    ASSUME NEW t \in SumEdge
    PROVE  /\ t \in Transition /\ t = Trans(t.start, t.label, t.target)
           /\ t.start \in Control \cup Generated /\ t.label \in Label /\ t.target \in SumTarget
           /\ t.label = Eps => t \in EpsEdge /\ t.start \in Control /\ t.target \in Generated
           /\ t.start \in Generated => t \in PushEdge /\ t.label \in Label \ {Eps}
           /\ t.start \notin Generated => t.start \in Control
<1>1. t.start \in Control \cup Generated /\ t.label \in Label /\ t.target \in SumTarget
      /\ t = [start |-> t.start, label |-> t.label, target |-> t.target]
  <2>1. CASE t \in PlainEdge
    BY <2>1 DEF PlainEdge
  <2>2. CASE t \in EpsEdge
    BY <2>2, SummariesAssumption DEF EpsEdge, SumTarget
  <2>3. CASE t \in PushEdge
    BY <2>3 DEF PushEdge
  <2> QED BY <2>1, <2>2, <2>3 DEF SumEdge
<1>2. SumTarget \subseteq State
  BY DEF SumTarget, State
<1>3. t \in Transition /\ t = Trans(t.start, t.label, t.target)
  BY <1>1, <1>2 DEF Transition, State, Trans
<1>4. t.label = Eps => t \in EpsEdge /\ t.start \in Control /\ t.target \in Generated
  BY DEF SumEdge, PlainEdge, EpsEdge, PushEdge
<1>5. t.start \in Generated => t \in PushEdge /\ t.label \in Label \ {Eps}
  BY SummariesAssumption DEF SumEdge, PlainEdge, EpsEdge, PushEdge
<1> QED BY <1>1, <1>3, <1>4, <1>5

LEMMA EdgeKinds == EpsEdge \subseteq SumEdge /\ PushEdge \subseteq SumEdge
BY DEF SumEdge

LEMMA TransFieldsOf ==
    ASSUME NEW q, NEW a, NEW z
    PROVE  /\ Trans(q, a, z).start = q /\ Trans(q, a, z).label = a /\ Trans(q, a, z).target = z
BY DEF Trans

LEMMA TransEdges ==
    /\ \A q \in Control, a \in Label \ {Eps}, z \in SumTarget : Trans(q, a, z) \in SumEdge
    /\ \A q \in Control, z \in Generated : Trans(q, Eps, z) \in EpsEdge
    /\ \A q \in Generated, a \in Label \ {Eps}, z \in SumTarget : Trans(q, a, z) \in PushEdge
    /\ \A q \in Control, t \in SumEdge : Trans(q, t.label, t.target) \in SumEdge
<1>1. \A q \in Control, a \in Label \ {Eps}, z \in SumTarget : Trans(q, a, z) \in SumEdge
  BY DEF Trans, SumEdge, PlainEdge
<1>2. \A q \in Control, z \in Generated : Trans(q, Eps, z) \in EpsEdge
  BY DEF Trans, EpsEdge
<1>3. \A q \in Generated, a \in Label \ {Eps}, z \in SumTarget : Trans(q, a, z) \in PushEdge
  BY DEF Trans, PushEdge
<1>4. ASSUME NEW q \in Control, NEW t \in SumEdge PROVE Trans(q, t.label, t.target) \in SumEdge
  BY <1>1, <1>2, EdgeFields, EdgeKinds
<1> QED BY <1>1, <1>2, <1>3, <1>4

LEMMA AutomatonKinds ==
    /\ Generated \subseteq Automaton /\ Solver \subseteq Automaton /\ Generated \subseteq SumTarget
    /\ \A s \in Solver : s \notin Generated /\ Initial(s) \in SumTarget /\ Initial(s) \notin Generated
    /\ \A a \in Automaton : a \in Generated \/ a \in Solver
    /\ \A z \in SumTarget : z \in Generated \/ \E s \in Solver : z = Initial(s)
    /\ \A a \in Automaton : InitialOf(a) \in SumTarget
BY SummariesAssumption DEF Automaton, SumTarget, InitialOf

\* Where the solvers have the transitions into a state.
LEMMA SummaryFacts ==
    /\ \A s \in Solver : SummaryOf(s, Initial(s)) = s
    /\ \A s \in Solver, g \in Generated :
         /\ SummaryOf(s, g) \in Automaton /\ SummaryOf(s, g) \in {s, g}
         /\ SummaryOf(s, g) \in Solver => SummaryOf(s, g) = s /\ EntersItself(s)
    /\ \A s, u \in Solver, g \in Generated : LookAlike(s, u) =>
         /\ SummaryOf(s, g) = SummaryOf(u, g)
         /\ SummaryOf(s, g) \in Solver => s = u
<1>1. \A s \in Solver : SummaryOf(s, Initial(s)) = s
  BY DEF SummaryOf
<1>2. ASSUME NEW s \in Solver, NEW g \in Generated
      PROVE  /\ SummaryOf(s, g) \in Automaton /\ SummaryOf(s, g) \in {s, g}
             /\ SummaryOf(s, g) \in Solver => SummaryOf(s, g) = s /\ EntersItself(s)
  BY AutomatonKinds, SummariesAssumption DEF SummaryOf, EntersItself
<1>3. ASSUME NEW s \in Solver, NEW u \in Solver, NEW g \in Generated, LookAlike(s, u)
      PROVE  /\ SummaryOf(s, g) = SummaryOf(u, g)
             /\ SummaryOf(s, g) \in Solver => s = u
  <2>1. CASE s = u
    BY <2>1
  <2>2. CASE ~EntersItself(s) /\ ~EntersItself(u)
    <3>1. SummaryOf(s, g) # s /\ SummaryOf(u, g) # u
      BY <2>2 DEF EntersItself
    <3> QED BY <1>2, <2>2, <3>1
  <2> QED BY <1>3, <2>1, <2>2 DEF LookAlike
<1> QED BY <1>1, <1>2, <1>3

RuleListeners == {RuleListener(s, r) : s \in Solver, r \in Rules}
TransitiveListeners == {Transitive(s, t) : s \in Solver, t \in EpsEdge}
EpsilonListeners == {Epsilon(s, t, a) : s \in Solver, t \in PushEdge, a \in Label}
EnteredListeners ==
    {AddEpsilonToInitialState(s, z, a) : s \in Solver, z \in SumTarget, a \in Automaton}
ReturnedListeners == {OnOutTransitionAddToState(s, t) : s \in Solver, t \in EpsEdge}

SumListener ==
    RuleListeners \cup TransitiveListeners \cup EpsilonListeners \cup EnteredListeners
      \cup ReturnedListeners

UpdateListener ==
    {CallAutomatonListener(s) : s \in Solver}
      \cup {SummaryListener(s, t) : s \in Solver, t \in PushEdge}

RuleKind == {"normal", "push", "pop"}

LEMMA RulesTyped ==
    ASSUME NEW r \in Rules
    PROVE  /\ r.kind \in RuleKind
           /\ r.s1 \in Control /\ r.l1 \in Label /\ r.l1 # Eps /\ r.s2 \in Control
           /\ r.kind \in {"normal", "push"} => r.l2 \in Label \ {Eps}
           /\ r.kind = "push" => r.callSite \in Label \ {Eps}
BY SummariesAssumption DEF RuleKind

\* The kind of a listener says what it is.
LEMMA StateListenerFields ==
    ASSUME NEW l \in SumListener
    PROVE  /\ l.of \in Solver
           /\ l.kind \in RuleKind \cup {"transitive", "epsilon", "entered", "returned"}
           /\ l.kind \in RuleKind => /\ l.rule \in Rules /\ l = RuleListener(l.of, l.rule)
                                     /\ l.kind = l.rule.kind /\ l.s1 = l.rule.s1
           /\ l.kind = "transitive" => /\ l.t \in EpsEdge /\ l.s1 = l.t.target
                                       /\ l = Transitive(l.of, l.t)
           /\ l.kind = "epsilon" => /\ l.t \in PushEdge /\ l.callSite \in Label
                                    /\ l.s1 = l.t.start /\ l = Epsilon(l.of, l.t, l.callSite)
           /\ l.kind = "entered" => l.s1 \in SumTarget /\ l.parent \in Automaton
           /\ l.kind = "returned" => l.t \in EpsEdge /\ l.s1 = l.t.target
<1>1. CASE l \in RuleListeners
  <2>1. PICK s \in Solver, r \in Rules : l = RuleListener(s, r)
    BY <1>1 DEF RuleListeners
  <2>2. l.of = s /\ l.rule = r /\ l.kind = r.kind /\ l.s1 = r.s1
    BY <2>1 DEF RuleListener
  <2> QED BY <2>1, <2>2, RulesTyped DEF RuleKind
<1>2. CASE l \in TransitiveListeners
  <2>1. PICK s \in Solver, t \in EpsEdge : l = Transitive(s, t)
    BY <1>2 DEF TransitiveListeners
  <2> QED BY <2>1 DEF Transitive, RuleKind
<1>3. CASE l \in EpsilonListeners
  <2>1. PICK s \in Solver, t \in PushEdge, a \in Label : l = Epsilon(s, t, a)
    BY <1>3 DEF EpsilonListeners
  <2> QED BY <2>1 DEF Epsilon, RuleKind
<1>4. CASE l \in EnteredListeners
  <2>1. PICK s \in Solver, z \in SumTarget, a \in Automaton :
           l = AddEpsilonToInitialState(s, z, a)
    BY <1>4 DEF EnteredListeners
  <2> QED BY <2>1 DEF AddEpsilonToInitialState, RuleKind
<1>5. CASE l \in ReturnedListeners
  <2>1. PICK s \in Solver, t \in EpsEdge : l = OnOutTransitionAddToState(s, t)
    BY <1>5 DEF ReturnedListeners
  <2> QED BY <2>1 DEF OnOutTransitionAddToState, RuleKind
<1> QED BY <1>1, <1>2, <1>3, <1>4, <1>5 DEF SumListener

LEMMA UpdateListenerFields ==
    ASSUME NEW l \in UpdateListener
    PROVE  /\ l.of \in Solver /\ l.kind \in {"reach", "summary"}
           /\ l.kind = "summary" => l.t \in PushEdge /\ l = SummaryListener(l.of, l.t)
           /\ l.kind = "reach" => l = CallAutomatonListener(l.of)
<1>1. CASE l \in {CallAutomatonListener(s) : s \in Solver}
  BY <1>1 DEF CallAutomatonListener
<1>2. CASE l \in {SummaryListener(s, t) : s \in Solver, t \in PushEdge}
  <2>1. PICK s \in Solver, t \in PushEdge : l = SummaryListener(s, t)
    BY <1>2
  <2> QED BY <2>1 DEF SummaryListener
<1> QED BY <1>1, <1>2 DEF UpdateListener

LEMMA ListenersTyped ==
    /\ \A s \in Solver, r \in Rules : RuleListener(s, r) \in SumListener
    /\ \A s \in Solver, t \in EpsEdge : Transitive(s, t) \in SumListener
    /\ \A s \in Solver, t \in PushEdge, a \in Label : Epsilon(s, t, a) \in SumListener
    /\ \A s \in Solver, z \in SumTarget, a \in Automaton :
         AddEpsilonToInitialState(s, z, a) \in SumListener
    /\ \A s \in Solver, t \in EpsEdge : OnOutTransitionAddToState(s, t) \in SumListener
    /\ \A s \in Solver : CallAutomatonListener(s) \in UpdateListener
    /\ \A s \in Solver, t \in PushEdge : SummaryListener(s, t) \in UpdateListener
BY DEF SumListener, UpdateListener, RuleListeners, TransitiveListeners, EpsilonListeners,
       EnteredListeners, ReturnedListeners

\* The listeners of rules and pushes are equal whoever made them.
LEMMA SameListeners ==
    ASSUME NEW l \in SumListener, NEW k \in SumListener, Same(l, k)
    PROVE  /\ l.kind \in RuleKind => k = RuleListener(k.of, l.rule)
           /\ l.kind = "epsilon" => k = Epsilon(k.of, l.t, l.callSite)
           /\ k.kind = l.kind
<1>1. \A a, b, r : [RuleListener(a, r) EXCEPT !.of = b] = RuleListener(b, r)
  BY DEF RuleListener
<1>2. \A a, b, t, x : [Epsilon(a, t, x) EXCEPT !.of = b] = Epsilon(b, t, x)
  BY DEF Epsilon
<1>3. k.kind = l.kind
  BY DEF Same
<1>4. l.kind \in RuleKind \cup {"epsilon"} => [l EXCEPT !.of = k.of] = k
  BY <1>3 DEF Same, RuleKind
<1>5. CASE l.kind \in RuleKind
  <2>1. l = RuleListener(l.of, l.rule) /\ l.kind # "epsilon"
    BY <1>5, StateListenerFields DEF RuleKind
  <2>2. [RuleListener(l.of, l.rule) EXCEPT !.of = k.of] = k
    BY <1>4, <1>5, <2>1
  <2> QED BY <1>1, <1>3, <2>1, <2>2
<1>6. CASE l.kind = "epsilon"
  <2>1. l = Epsilon(l.of, l.t, l.callSite) /\ l.kind \notin RuleKind
    BY <1>6, StateListenerFields DEF RuleKind
  <2>2. [Epsilon(l.of, l.t, l.callSite) EXCEPT !.of = k.of] = k
    BY <1>4, <1>6, <2>1
  <2> QED BY <1>2, <1>3, <2>1, <2>2
<1> QED BY <1>3, <1>5, <1>6

LEMMA SameSelf ==
    ASSUME NEW l \in SumListener
    PROVE  Same(l, l)
<1>1. \A a, r : [RuleListener(a, r) EXCEPT !.of = RuleListener(a, r).of] = RuleListener(a, r)
  BY DEF RuleListener
<1>2. \A a, t, x : [Epsilon(a, t, x) EXCEPT !.of = Epsilon(a, t, x).of] = Epsilon(a, t, x)
  BY DEF Epsilon
<1>3. \A a, t : [Transitive(a, t) EXCEPT !.of = Transitive(a, t).of] = Transitive(a, t)
  BY DEF Transitive
<1>4. l.kind \in {"entered", "returned"} => Same(l, l)
  BY DEF Same
<1>5. ASSUME l.kind \notin {"entered", "returned"} PROVE [l EXCEPT !.of = l.of] = l
  <2>1. CASE l.kind \in RuleKind
    BY <1>1, <2>1, StateListenerFields
  <2>2. CASE l.kind = "epsilon"
    BY <1>2, <2>2, StateListenerFields
  <2>3. CASE l.kind = "transitive"
    BY <1>3, <2>3, StateListenerFields
  <2> QED BY <1>5, <2>1, <2>2, <2>3, StateListenerFields
<1> QED BY <1>4, <1>5 DEF Same

(***************************************************************************)
(* The calls.                                                              *)
(***************************************************************************)
AddCall(s, t) == [op |-> "add", aut |-> SummaryOf(s, t.target), t |-> t]
TellCall(o, a, t) == [op |-> o, aut |-> a, t |-> t]
RegisterCall(a, l) == [op |-> "register", aut |-> a, l |-> l]
HandOnCall(a, l) == [op |-> "handOn", aut |-> a, l |-> l]
UpdateCall(a, l) == [op |-> "registerUpdate", aut |-> a, l |-> l]
HandUpdateOnCall(a, l) == [op |-> "handOnUpdate", aut |-> a, l |-> l]
HearCall(l, t, a) == [op |-> "hear", l |-> l, t |-> t, aut |-> a]
NestCall(a, b) == [op |-> "nest", aut |-> a, child |-> b]
GiveCall(o, a, b) == [op |-> o, aut |-> a, child |-> b]
GiveOneCall(a, b, s) == [op |-> "giveOne", aut |-> a, child |-> b, of |-> s]
NestedListenerCall(a, s) == [op |-> "registerNested", aut |-> a, of |-> s]
ReachCall(s, n) == [op |-> "reach", of |-> s, n |-> n]
noSumCall == [op |-> "none"]

Telling == {"updates", "out", "in"}
Giving == {"give", "giveUpdates", "giveNested"}

EdgeCalls == [op : {"add"} \cup Telling, aut : Automaton, t : SumEdge]
ListenerCalls == [op : {"register", "handOn"}, aut : Automaton, l : SumListener]
UpdateCalls == [op : {"registerUpdate", "handOnUpdate"}, aut : Automaton, l : UpdateListener]
HearCalls == [op : {"hear"}, l : SumListener \cup UpdateListener, t : SumEdge, aut : Automaton]
NestCalls == [op : {"nest"} \cup Giving, aut : Automaton, child : Automaton]
GiveOneCalls == [op : {"giveOne"}, aut : Automaton, child : Automaton, of : Solver]
NestedListenerCalls == [op : {"registerNested"}, aut : Automaton, of : Solver]
ReachCalls == [op : {"reach"}, of : Solver, n : Label \X State]

SumCall ==
    EdgeCalls \cup ListenerCalls \cup UpdateCalls \cup HearCalls \cup NestCalls
      \cup GiveOneCalls \cup NestedListenerCalls \cup ReachCalls

LEMMA SumCallOps ==
    ASSUME NEW d \in SumCall
    PROVE  /\ d.op \in {"add", "register", "handOn", "registerUpdate", "handOnUpdate", "hear",
                        "nest", "giveOne", "registerNested", "reach"} \cup Telling \cup Giving
           /\ d.op \in {"add"} \cup Telling => d \in EdgeCalls
           /\ d.op \in {"register", "handOn"} => d \in ListenerCalls
           /\ d.op \in {"registerUpdate", "handOnUpdate"} => d \in UpdateCalls
           /\ d.op = "hear" => d \in HearCalls
           /\ d.op \in {"nest"} \cup Giving => d \in NestCalls
           /\ d.op = "giveOne" => d \in GiveOneCalls
           /\ d.op = "registerNested" => d \in NestedListenerCalls
           /\ d.op = "reach" => d \in ReachCalls
<1> USE DEF Telling, Giving
<1>1. CASE d \in EdgeCalls
  BY <1>1 DEF EdgeCalls
<1>2. CASE d \in ListenerCalls
  BY <1>2 DEF ListenerCalls
<1>3. CASE d \in UpdateCalls
  BY <1>3 DEF UpdateCalls
<1>4. CASE d \in HearCalls
  BY <1>4 DEF HearCalls
<1>5. CASE d \in NestCalls
  BY <1>5 DEF NestCalls
<1>6. CASE d \in GiveOneCalls
  BY <1>6 DEF GiveOneCalls
<1>7. CASE d \in NestedListenerCalls
  BY <1>7 DEF NestedListenerCalls
<1>8. CASE d \in ReachCalls
  BY <1>8 DEF ReachCalls
<1> QED BY <1>1, <1>2, <1>3, <1>4, <1>5, <1>6, <1>7, <1>8 DEF SumCall

\* A call is what its fields say.
LEMMA SumCallRecords ==
    ASSUME NEW d \in SumCall
    PROVE  /\ d.op \in {"add"} \cup Telling =>
                /\ d.aut \in Automaton /\ d.t \in SumEdge /\ d = TellCall(d.op, d.aut, d.t)
                /\ \A o : [d EXCEPT !.op = o] = TellCall(o, d.aut, d.t)
           /\ d.op \in {"register", "handOn"} =>
                /\ d.aut \in Automaton /\ d.l \in SumListener
                /\ [d EXCEPT !.op = "handOn"] = HandOnCall(d.aut, d.l)
           /\ d.op \in {"registerUpdate", "handOnUpdate"} =>
                /\ d.aut \in Automaton /\ d.l \in UpdateListener
                /\ [d EXCEPT !.op = "handOnUpdate"] = HandUpdateOnCall(d.aut, d.l)
           /\ d.op = "hear" =>
                d.aut \in Automaton /\ d.l \in SumListener \cup UpdateListener /\ d.t \in SumEdge
           /\ d.op \in {"nest"} \cup Giving =>
                /\ d.aut \in Automaton /\ d.child \in Automaton
                /\ \A o : [d EXCEPT !.op = o] = GiveCall(o, d.aut, d.child)
           /\ d.op = "giveOne" => d.aut \in Automaton /\ d.child \in Automaton /\ d.of \in Solver
           /\ d.op = "registerNested" => d.aut \in Automaton /\ d.of \in Solver
           /\ d.op = "reach" => d.of \in Solver /\ d.n \in Label \X State
<1>1. ASSUME d.op \in {"add"} \cup Telling
      PROVE  /\ d.aut \in Automaton /\ d.t \in SumEdge /\ d = TellCall(d.op, d.aut, d.t)
             /\ \A o : [d EXCEPT !.op = o] = TellCall(o, d.aut, d.t)
  <2>1. d \in EdgeCalls
    BY <1>1, SumCallOps
  <2> QED BY <2>1 DEF EdgeCalls, TellCall
<1>2. ASSUME d.op \in {"register", "handOn"}
      PROVE  /\ d.aut \in Automaton /\ d.l \in SumListener
             /\ [d EXCEPT !.op = "handOn"] = HandOnCall(d.aut, d.l)
  <2>1. d \in ListenerCalls
    BY <1>2, SumCallOps
  <2> QED BY <2>1 DEF ListenerCalls, HandOnCall
<1>3. ASSUME d.op \in {"registerUpdate", "handOnUpdate"}
      PROVE  /\ d.aut \in Automaton /\ d.l \in UpdateListener
             /\ [d EXCEPT !.op = "handOnUpdate"] = HandUpdateOnCall(d.aut, d.l)
  <2>1. d \in UpdateCalls
    BY <1>3, SumCallOps
  <2> QED BY <2>1 DEF UpdateCalls, HandUpdateOnCall
<1>4. ASSUME d.op \in {"nest"} \cup Giving
      PROVE  /\ d.aut \in Automaton /\ d.child \in Automaton
             /\ \A o : [d EXCEPT !.op = o] = GiveCall(o, d.aut, d.child)
  <2>1. d \in NestCalls
    BY <1>4, SumCallOps
  <2> QED BY <2>1 DEF NestCalls, GiveCall
<1>5. d.op = "hear" =>
        d.aut \in Automaton /\ d.l \in SumListener \cup UpdateListener /\ d.t \in SumEdge
  BY SumCallOps DEF HearCalls
<1>6. /\ d.op = "giveOne" => d.aut \in Automaton /\ d.child \in Automaton /\ d.of \in Solver
      /\ d.op = "registerNested" => d.aut \in Automaton /\ d.of \in Solver
  BY SumCallOps DEF GiveOneCalls, NestedListenerCalls
<1>7. d.op = "reach" => d.of \in Solver /\ d.n \in Label \X State
  BY SumCallOps DEF ReachCalls
<1> QED BY <1>1, <1>2, <1>3, <1>4, <1>5, <1>6, <1>7

LEMMA SumCallsTyped ==
    /\ \A t \in SumEdge, a \in Automaton : TellCall("add", a, t) \in SumCall
    /\ \A o \in Telling, a \in Automaton, t \in SumEdge : TellCall(o, a, t) \in SumCall
    /\ \A a \in Automaton, l \in SumListener :
         RegisterCall(a, l) \in SumCall /\ HandOnCall(a, l) \in SumCall
    /\ \A a \in Automaton, l \in UpdateListener :
         UpdateCall(a, l) \in SumCall /\ HandUpdateOnCall(a, l) \in SumCall
    /\ \A l \in SumListener \cup UpdateListener, t \in SumEdge, a \in Automaton :
         HearCall(l, t, a) \in SumCall
    /\ \A a \in Automaton, b \in Automaton : NestCall(a, b) \in SumCall
    /\ \A o \in Giving, a \in Automaton, b \in Automaton : GiveCall(o, a, b) \in SumCall
    /\ \A a \in Automaton, b \in Automaton, s \in Solver : GiveOneCall(a, b, s) \in SumCall
    /\ \A a \in Automaton, s \in Solver : NestedListenerCall(a, s) \in SumCall
    /\ \A s \in Solver, n \in Label \X State : ReachCall(s, n) \in SumCall
<1>1. \A t \in SumEdge, a \in Automaton : TellCall("add", a, t) \in SumCall
  BY DEF TellCall, EdgeCalls, SumCall
<1>2. \A o \in Telling, a \in Automaton, t \in SumEdge : TellCall(o, a, t) \in SumCall
  BY DEF TellCall, EdgeCalls, SumCall
<1>3. \A a \in Automaton, l \in SumListener :
         RegisterCall(a, l) \in SumCall /\ HandOnCall(a, l) \in SumCall
  BY DEF RegisterCall, HandOnCall, ListenerCalls, SumCall
<1>4. \A a \in Automaton, l \in UpdateListener :
         UpdateCall(a, l) \in SumCall /\ HandUpdateOnCall(a, l) \in SumCall
  BY DEF UpdateCall, HandUpdateOnCall, UpdateCalls, SumCall
<1>5. \A l \in SumListener \cup UpdateListener, t \in SumEdge, a \in Automaton :
         HearCall(l, t, a) \in SumCall
  BY DEF HearCall, HearCalls, SumCall
<1>6. /\ \A a \in Automaton, b \in Automaton : NestCall(a, b) \in SumCall
      /\ \A o \in Giving, a \in Automaton, b \in Automaton : GiveCall(o, a, b) \in SumCall
  BY DEF NestCall, GiveCall, NestCalls, SumCall
<1>7. /\ \A a \in Automaton, b \in Automaton, s \in Solver : GiveOneCall(a, b, s) \in SumCall
      /\ \A a \in Automaton, s \in Solver : NestedListenerCall(a, s) \in SumCall
  BY DEF GiveOneCall, NestedListenerCall, GiveOneCalls, NestedListenerCalls, SumCall
<1>8. \A s \in Solver, n \in Label \X State : ReachCall(s, n) \in SumCall
  BY DEF ReachCall, ReachCalls, SumCall
<1> QED BY <1>1, <1>2, <1>3, <1>4, <1>5, <1>6, <1>7, <1>8

LEMMA SumConstructors ==
    /\ \A s, t : /\ AddCall(s, t).op = "add" /\ AddCall(s, t).aut = SummaryOf(s, t.target)
                 /\ AddCall(s, t).t = t /\ AddCall(s, t) = TellCall("add", SummaryOf(s, t.target), t)
    /\ \A o, a, t : /\ TellCall(o, a, t).op = o /\ TellCall(o, a, t).aut = a
                    /\ TellCall(o, a, t).t = t
    /\ \A a, l : /\ RegisterCall(a, l).op = "register" /\ RegisterCall(a, l).aut = a
                 /\ RegisterCall(a, l).l = l
                 /\ HandOnCall(a, l).op = "handOn" /\ HandOnCall(a, l).aut = a
                 /\ HandOnCall(a, l).l = l
                 /\ UpdateCall(a, l).op = "registerUpdate" /\ UpdateCall(a, l).aut = a
                 /\ UpdateCall(a, l).l = l
                 /\ HandUpdateOnCall(a, l).op = "handOnUpdate" /\ HandUpdateOnCall(a, l).aut = a
                 /\ HandUpdateOnCall(a, l).l = l
    /\ \A l, t, a : /\ HearCall(l, t, a).op = "hear" /\ HearCall(l, t, a).l = l
                    /\ HearCall(l, t, a).t = t /\ HearCall(l, t, a).aut = a
    /\ \A a, b : NestCall(a, b).op = "nest" /\ NestCall(a, b).aut = a /\ NestCall(a, b).child = b
    /\ \A o, a, b : /\ GiveCall(o, a, b).op = o /\ GiveCall(o, a, b).aut = a
                    /\ GiveCall(o, a, b).child = b
    /\ \A a, b, s : /\ GiveOneCall(a, b, s).op = "giveOne" /\ GiveOneCall(a, b, s).aut = a
                    /\ GiveOneCall(a, b, s).child = b /\ GiveOneCall(a, b, s).of = s
    /\ \A a, s : /\ NestedListenerCall(a, s).op = "registerNested"
                 /\ NestedListenerCall(a, s).aut = a /\ NestedListenerCall(a, s).of = s
    /\ \A s, n : ReachCall(s, n).op = "reach" /\ ReachCall(s, n).of = s /\ ReachCall(s, n).n = n
    /\ noSumCall.op = "none"
BY DEF AddCall, TellCall, RegisterCall, HandOnCall, UpdateCall, HandUpdateOnCall, HearCall,
       NestCall, GiveCall, GiveOneCall, NestedListenerCall, ReachCall, noSumCall

LEMMA SumLoops ==
    /\ \A s, t : Add(s, t) = {AddCall(s, t)}
    /\ \A a, l : Register(a, l) = {RegisterCall(a, l)} /\ RegisterUpdate(a, l) = {UpdateCall(a, l)}
    /\ \A ls, ts, a, d : d \in Hear(ls, ts, a) <=> \E l \in ls, t \in ts : d = HearCall(l, t, a)
    /\ \A a, b : AddNested(a, b) = {NestCall(a, b)}
    /\ \A a, s : RegisterNested(a, s) = {NestedListenerCall(a, s)}
    /\ \A s, n : Reach(s, n) = {ReachCall(s, n)}
    /\ \A s, a, b : NestedAutomaton(s, a, b)
                      = {RegisterCall(b, AddEpsilonToInitialState(s, InitialOf(b), a))}
<1>1. \A a, l : Register(a, l) = {RegisterCall(a, l)} /\ RegisterUpdate(a, l) = {UpdateCall(a, l)}
  BY DEF Register, RegisterUpdate, RegisterCall, UpdateCall
<1>2. \A ls, ts, a, d : d \in Hear(ls, ts, a) <=> \E l \in ls, t \in ts : d = HearCall(l, t, a)
  BY DEF Hear, HearCall
<1>3. /\ \A s, t : Add(s, t) = {AddCall(s, t)}
      /\ \A a, b : AddNested(a, b) = {NestCall(a, b)}
      /\ \A a, s : RegisterNested(a, s) = {NestedListenerCall(a, s)}
      /\ \A s, n : Reach(s, n) = {ReachCall(s, n)}
  BY DEF Add, AddNested, RegisterNested, Reach, AddCall, NestCall, NestedListenerCall, ReachCall
<1>4. \A s, a, b : NestedAutomaton(s, a, b)
                     = {RegisterCall(b, AddEpsilonToInitialState(s, InitialOf(b), a))}
  BY <1>1 DEF NestedAutomaton
<1> QED BY <1>1, <1>2, <1>3, <1>4

(***************************************************************************)
(* What the calls know.                                                    *)
(***************************************************************************)
NestClosed(S) == \A e \in nested : e[1] \in S => e[2] \in S

\* a is the automaton of the solver s, or nested in it, directly or not.
Placed(s, a) == \A S \in SUBSET Automaton : s \in S /\ NestClosed(S) => a \in S

\* The solver s may add the transition t, and it has it in the automaton a.
Proper(s, t) == t.target \in Generated \/ t.target = Initial(s)
PutBy(s, a, t) == Proper(s, t) /\ a = SummaryOf(s, t.target)

\* Some solver has the transition, or the nested automaton, there.
InPlace(a, t) == \E s \in Created : PutBy(s, a, t)
NestPlace(a, b) ==
    /\ a \in Solver => a \in Created
    /\ \E s \in Created, g \in Generated : b = SummaryOf(s, g)

\* A listener is below the automaton of its solver, unless it waits for a summary.
GoodListener(a, l) ==
    /\ l.of \in Created
    /\ l.kind = "summary" => Proper(l.of, l.t)
    /\ l.kind # "summary" => Placed(l.of, a) /\ (l.kind = "entered" => Placed(l.of, l.parent))

Hears(l, t) == l.s1 = IF HearsIn(l) THEN t.target ELSE t.start

KnownCall(d) ==
    /\ d.op \in {"add"} \cup Telling => InPlace(d.aut, d.t)
    /\ d.op \in Telling => <<d.aut, d.t>> \in trans
    /\ d.op \in {"register", "handOn", "registerUpdate", "handOnUpdate", "hear"} =>
         GoodListener(d.aut, d.l)
    /\ d.op = "hear" => /\ <<d.aut, d.t>> \in trans
                        /\ d.l \in SumListener => Hears(d.l, d.t)
    /\ d.op \in Giving \cup {"giveOne"} => <<d.aut, d.child>> \in nested
    /\ d.op = "nest" => NestPlace(d.aut, d.child)
    /\ d.op \in {"giveOne", "registerNested"} => d.of \in Created /\ Placed(d.of, d.aut)
    /\ d.op = "reach" => d.of \in Created

SumTypeOK ==
    /\ trans \subseteq Automaton \X SumEdge
    /\ nested \subseteq Automaton \X Automaton
    /\ stateListeners \subseteq Automaton \X SumListener
    /\ updateListeners \subseteq Automaton \X UpdateListener
    /\ nestedListeners \subseteq Automaton \X Solver
    /\ reached \subseteq Solver \X (Label \X State)
    /\ started \subseteq Solver \X ((Label \ {Eps}) \X Control)
    /\ \A x \in started : x[2] \in SolverStarts[x[1]]
    /\ agenda \in Seq(SUBSET SumCall)

SumInv ==
    /\ SumTypeOK
    /\ \A p \in stateListeners \cup updateListeners : GoodListener(p[1], p[2])
    /\ \A p \in nestedListeners : p[2] \in Created /\ Placed(p[2], p[1])
    /\ \A u \in trans : InPlace(u[1], u[2])
    /\ \A e \in nested : NestPlace(e[1], e[2])
    /\ \A x \in reached : x[1] \in Created
    /\ \A x, y \in started : LookAlike(x[1], y[1])
    /\ \A d : Pending(d) => KnownCall(d)

SumGrow ==
    /\ trans \subseteq trans' /\ nested \subseteq nested' /\ reached \subseteq reached'
    /\ stateListeners \subseteq stateListeners' /\ updateListeners \subseteq updateListeners'
    /\ connected \subseteq connected' /\ started \subseteq started'

\* A step that makes the call c, and by it the calls in `made'.
SumKeeps(c, made) ==
    /\ Moves(c, made) /\ SumTypeOK' /\ SumGrow
    /\ \A p \in stateListeners' \cup updateListeners' :
         p \in stateListeners \cup updateListeners \/ GoodListener(p[1], p[2])'
    /\ \A p \in nestedListeners' :
         p \in nestedListeners \/ (p[2] \in Created /\ Placed(p[2], p[1]))'
    /\ \A u \in trans' : u \in trans \/ InPlace(u[1], u[2])
    /\ \A e \in nested' : e \in nested \/ NestPlace(e[1], e[2])
    /\ \A x \in reached' : x \in reached \/ x[1] \in Created
    /\ \A x, y \in started' : (x \in started /\ y \in started) \/ LookAlike(x[1], y[1])
    /\ \A d \in made : KnownCall(d)'

LEMMA PlacedKept ==
    ASSUME SumGrow
    PROVE  /\ Created \subseteq Created'
           /\ \A s, a : Placed(s, a) => Placed(s, a)'
           /\ \A a, t : InPlace(a, t) => InPlace(a, t)'
           /\ \A a, b : NestPlace(a, b) => NestPlace(a, b)'
           /\ \A a, l : GoodListener(a, l) => GoodListener(a, l)'
           /\ \A d : KnownCall(d) => KnownCall(d)'
<1>1. \A S : NestClosed(S)' => NestClosed(S)
  BY DEF SumGrow, NestClosed
<1>2. \A s, a : Placed(s, a) => Placed(s, a)'
  BY <1>1 DEF Placed
<1>3. Created \subseteq Created'
  BY DEF SumGrow, Created
<1>4. \A a, t : InPlace(a, t) => InPlace(a, t)'
  BY <1>3 DEF InPlace
<1>5. \A a, b : NestPlace(a, b) => NestPlace(a, b)'
  BY <1>3 DEF NestPlace
<1>6. \A a, l : GoodListener(a, l) => GoodListener(a, l)'
  BY <1>2, <1>3 DEF GoodListener
<1>7. \A d : KnownCall(d) => KnownCall(d)'
  BY <1>2, <1>3, <1>4, <1>5, <1>6 DEF KnownCall, SumGrow
<1> QED BY <1>2, <1>3, <1>4, <1>5, <1>6, <1>7

LEMMA SumKept ==
    ASSUME SumInv, NEW c, NEW made, SumKeeps(c, made)
    PROVE  SumInv'
<1>1. Moves(c, made) /\ SumTypeOK' /\ SumGrow
  BY DEF SumKeeps
<1>2. \A p \in stateListeners' \cup updateListeners' : GoodListener(p[1], p[2])'
  BY <1>1, PlacedKept DEF SumKeeps, SumInv
<1>3. \A p \in nestedListeners' : (p[2] \in Created /\ Placed(p[2], p[1]))'
  <2> SUFFICES ASSUME NEW p \in nestedListeners'
               PROVE  (p[2] \in Created /\ Placed(p[2], p[1]))'
    OBVIOUS
  <2>1. CASE p \in nestedListeners
    <3>1. p[2] \in Created /\ Placed(p[2], p[1])
      BY <2>1 DEF SumInv
    <3> QED BY <1>1, <3>1, PlacedKept
  <2>2. CASE p \notin nestedListeners
    BY <2>2 DEF SumKeeps
  <2> QED BY <2>1, <2>2
<1>4. \A d : Pending(d)' => KnownCall(d)'
  BY <1>1, PlacedKept, PendingMoves DEF SumKeeps, SumInv
<1>5. /\ \A u \in trans' : InPlace(u[1], u[2])'
      /\ \A e \in nested' : NestPlace(e[1], e[2])'
  BY <1>1, PlacedKept DEF SumKeeps, SumInv
<1>6. \A x \in reached' : x[1] \in Created'
  BY <1>1, PlacedKept DEF SumKeeps, SumInv
<1>7. \A x, y \in started' : LookAlike(x[1], y[1])
  BY DEF SumKeeps, SumInv
<1> QED BY <1>1, <1>2, <1>3, <1>4, <1>5, <1>6, <1>7 DEF SumInv

LEMMA PlacedFacts ==
    /\ \A s \in Solver : Placed(s, s)
    /\ \A s, a, b : Placed(s, a) /\ <<a, b>> \in nested => Placed(s, b)
<1>1. \A s \in Solver : Placed(s, s)
  BY DEF Placed
<1>2. ASSUME NEW s, NEW a, NEW b, Placed(s, a), <<a, b>> \in nested
      PROVE  Placed(s, b)
  <2>1. \A S : NestClosed(S) /\ a \in S => b \in S
    <3> DEFINE e == <<a, b>>
    <3>1. e \in nested /\ e[1] = a /\ e[2] = b
      BY <1>2
    <3> HIDE DEF e
    <3> QED BY <3>1 DEF NestClosed
  <2> QED BY <1>2, <2>1 DEF Placed
<1> QED BY <1>1, <1>2

LEMMA CreatedFacts ==
    ASSUME SumInv
    PROVE  /\ Created \subseteq Solver
           /\ \A s, u \in Created : LookAlike(s, u)
           /\ \A x \in started : x[1] \in Created
<1>1. Created \subseteq Solver
  BY DEF SumInv, SumTypeOK, Created
<1>2. \A s, u \in Created : LookAlike(s, u)
  BY DEF SumInv, Created
<1>3. \A x \in started : x[1] \in Created
  BY DEF Created
<1> QED BY <1>1, <1>2, <1>3

\* No other solver's automaton is nested in a solver's.
LEMMA PlacedOwn ==
    ASSUME SumInv, NEW s \in Created, NEW a, Placed(s, a)
    PROVE  /\ a \in Automaton
           /\ a \in Solver => a = s
<1> DEFINE S == {s} \cup Generated
<1>1. s \in Solver
  BY CreatedFacts
<1>2. S \in SUBSET Automaton
  BY <1>1, AutomatonKinds
<1>3. NestClosed(S)
  <2> SUFFICES ASSUME NEW e \in nested
               PROVE  e[2] \in S
    BY DEF NestClosed
  <2>1. PICK u \in Created, g \in Generated : e[2] = SummaryOf(u, g)
    BY DEF SumInv, NestPlace
  <2>2. u \in Solver /\ LookAlike(s, u) /\ e[2] \in {u, g}
    BY <2>1, CreatedFacts, SummaryFacts
  <2>3. ASSUME e[2] = u PROVE u = s
    <3>1. SummaryOf(s, g) = SummaryOf(u, g)
      BY <1>1, <2>2, SummaryFacts
    <3>2. SummaryOf(s, g) \in Solver
      BY <2>1, <2>2, <2>3, <3>1
    <3> QED BY <1>1, <2>2, <3>2, SummaryFacts
  <2> QED BY <2>2, <2>3
<1>4. a \in S
  BY <1>2, <1>3 DEF Placed
<1> QED BY <1>2, <1>4, AutomatonKinds

\* The solvers have the transitions into a generated state in the same place.
LEMMA AlikePlaces ==
    ASSUME SumInv, NEW s \in Created, NEW u \in Created, NEW g \in Generated
    PROVE  /\ SummaryOf(s, g) = SummaryOf(u, g) /\ SummaryOf(s, g) \in Automaton
           /\ SummaryOf(s, g) \in Solver => s = u /\ SummaryOf(s, g) = s
BY CreatedFacts, SummaryFacts

\* So a transition below a solver's automaton is where the solver would have it.
LEMMA PutByHearer ==
    ASSUME SumInv, NEW s \in Created, NEW a, NEW t, Placed(s, a), InPlace(a, t)
    PROVE  PutBy(s, a, t)
<1>1. PICK u \in Created : PutBy(u, a, t)
  BY DEF InPlace
<1>2. CASE t.target \in Generated
  BY <1>1, <1>2, AlikePlaces DEF PutBy, Proper
<1>3. CASE t.target \notin Generated
  <2>1. u \in Solver /\ t.target = Initial(u) /\ a = u
    BY <1>1, <1>3, CreatedFacts, SummaryFacts DEF PutBy, Proper
  <2>2. a = s
    BY <2>1, PlacedOwn
  <2> QED BY <1>1, <2>1, <2>2
<1> QED BY <1>2, <1>3

LEMMA PutByAdder ==
    ASSUME NEW s, NEW t, Proper(s, t)
    PROVE  /\ PutBy(s, SummaryOf(s, t.target), t)
           /\ s \in Created => InPlace(SummaryOf(s, t.target), t)
BY DEF PutBy, InPlace

\* A solver that is not there yet has nothing.
LEMMA NothingYet ==
    ASSUME SumInv, NEW s \in Solver, s \notin Created
    PROVE  /\ \A u \in trans : u[1] # s
           /\ \A e \in nested : e[1] # s
<1>1. ASSUME NEW u \in trans, u[1] = s PROVE FALSE
  <2>1. PICK v \in Created : PutBy(v, s, u[2])
    BY <1>1 DEF SumInv, InPlace
  <2>2. v \in Solver /\ s \notin Generated
    BY CreatedFacts, AutomatonKinds
  <2>3. CASE u[2].target \in Generated
    BY <2>1, <2>2, <2>3, SummaryFacts DEF PutBy
  <2>4. CASE u[2].target = Initial(v)
    BY <2>1, <2>2, <2>4, SummaryFacts DEF PutBy
  <2> QED BY <2>1, <2>3, <2>4 DEF PutBy, Proper
<1>2. ASSUME NEW e \in nested, e[1] = s PROVE FALSE
  BY <1>2 DEF SumInv, NestPlace
<1> QED BY <1>1, <1>2

(***************************************************************************)
(* What is owed is done or pending.                                        *)
(***************************************************************************)
SumDone(d) ==
    /\ d.op = "add" => <<d.aut, d.t>> \in trans
    /\ d.op = "register" => \E k : <<d.aut, k>> \in stateListeners /\ Same(d.l, k)
    /\ d.op = "registerUpdate" => <<d.aut, d.l>> \in updateListeners
    /\ d.op = "nest" => <<d.aut, d.child>> \in nested
    /\ d.op = "reach" => <<d.of, d.n>> \in reached

SumAsked(d) == SumDone(d) \/ Pending(d)

\* The calls that have an effect of their own.
Basic == {"add", "register", "registerUpdate", "nest", "reach"}

EntryState(r) == CreateState(r.s2, r.l2)
EntryOf(r) == Trans(r.s2, r.l2, EntryState(r))
PushOf(r, t) == Trans(EntryState(r), r.callSite, t.target)

\* The summary that the listener of a push takes.
EntryAt(l) == SummaryOf(l.of, EntryState(l.rule))

\* What a listener asks for when it hears of t, as far as it matters to others.
AsksOf(l, t, a) ==
    IF l.kind = "normal" /\ t.label = l.rule.l1
    THEN {AddCall(l.of, Trans(l.rule.s2, l.rule.l2, t.target))}
    ELSE IF l.kind = "push" /\ t.label = l.rule.l1
    THEN {AddCall(l.of, PushOf(l.rule, t)), NestCall(a, EntryAt(l)),
          AddCall(l.of, EntryOf(l.rule)),
          UpdateCall(EntryAt(l), SummaryListener(l.of, PushOf(l.rule, t))),
          RegisterCall(l.of, Epsilon(l.of, PushOf(l.rule, t), l.rule.l1))}
    ELSE IF l.kind = "pop" /\ t.label = l.rule.l1 /\ t.target \in Generated
    THEN {AddCall(l.of, Trans(l.rule.s2, Eps, t.target))}
    ELSE IF l.kind = "summary" /\ t.label = Eps /\ t.target = l.t.start
    THEN {AddCall(l.of, Trans(t.start, l.t.label, l.t.target))}
    ELSE IF l.kind = "reach" /\ t.start \notin Generated
    THEN {ReachCall(l.of, <<t.label, t.start>>)}
    ELSE {}

\* The return that a listener reports.
ReportOf(l, t) == <<l.of, l.callSite, l.t.label, t.start>>
Reports(l, t) == l.kind = "epsilon" /\ t.label = Eps

Answered(l, t, a) ==
    /\ \A d \in AsksOf(l, t, a) : SumAsked(d)
    /\ Reports(l, t) => ReportOf(l, t) \in connected

StartOf(x) == Trans(x[2][2], x[2][1], Initial(x[1]))
Direction(l) == IF HearsIn(l) THEN "in" ELSE "out"

StartsOwed == \A x \in started : SumAsked(AddCall(x[1], StartOf(x)))

StateOwed ==
    \A p \in stateListeners, u \in trans : p[1] = u[1] /\ Hears(p[2], u[2]) =>
      \/ Answered(p[2], u[2], u[1])
      \/ Pending(HearCall(p[2], u[2], u[1]))
      \/ Pending(TellCall(Direction(p[2]), u[1], u[2]))

UpdateOwed ==
    \A p \in updateListeners, u \in trans : p[1] = u[1] =>
      \/ Answered(p[2], u[2], u[1])
      \/ Pending(HearCall(p[2], u[2], u[1]))
      \/ Pending(TellCall("updates", u[1], u[2]))

HandOnOwed ==
    \A e \in nested, p \in stateListeners : p[1] = e[1] =>
      \/ SumAsked(RegisterCall(e[2], p[2]))
      \/ Pending(HandOnCall(e[1], p[2]))
      \/ Pending(GiveCall("give", e[1], e[2]))

HandUpdateOnOwed ==
    \A e \in nested, p \in updateListeners : p[1] = e[1] =>
      \/ SumAsked(UpdateCall(e[2], p[2]))
      \/ Pending(HandUpdateOnCall(e[1], p[2]))
      \/ Pending(GiveCall("giveUpdates", e[1], e[2]))

ReachOwed ==
    \A x \in reached, r \in Rules : <<r.l1, r.s1>> = x[2] =>
      SumAsked(RegisterCall(x[1], RuleListener(x[1], r)))

SummaryAt(s, t) == SummaryOf(s, t.start)

\* Who adds the transition of a push has a listener wait for the summary.
SummaryOwed ==
    \A t \in PushEdge, a \in Automaton : SumAsked(TellCall("add", a, t)) =>
      \E s \in Created : PutBy(s, a, t) /\ SumAsked(UpdateCall(SummaryAt(s, t), SummaryListener(s, t)))

ReachListening == \A x \in started : <<x[1], CallAutomatonListener(x[1])>> \in updateListeners

SumOwed ==
    /\ StartsOwed /\ StateOwed /\ UpdateOwed /\ HandOnOwed /\ HandUpdateOnOwed /\ ReachOwed
    /\ SummaryOwed /\ ReachListening

\* The step does what the call c is for ...
Deed(c, made) ==
    /\ c.op \in Basic => SumDone(c)'
    /\ c.op \in {"out", "in"} => \A p \in stateListeners' :
         p[1] = c.aut /\ Hears(p[2], c.t) /\ Direction(p[2]) = c.op
           => HearCall(p[2], c.t, c.aut) \in made
    /\ c.op = "updates" => \A p \in updateListeners' :
         p[1] = c.aut => HearCall(p[2], c.t, c.aut) \in made
    /\ c.op = "hear" => /\ AsksOf(c.l, c.t, c.aut) \subseteq made
                        /\ Reports(c.l, c.t) => ReportOf(c.l, c.t) \in connected'
    /\ c.op = "handOn" => \A e \in nested' : e[1] = c.aut => RegisterCall(e[2], c.l) \in made
    /\ c.op = "handOnUpdate" => \A e \in nested' : e[1] = c.aut => UpdateCall(e[2], c.l) \in made
    /\ c.op = "give" => \A p \in stateListeners' :
         p[1] = c.aut => RegisterCall(c.child, p[2]) \in made
    /\ c.op = "giveUpdates" => \A p \in updateListeners' :
         p[1] = c.aut => UpdateCall(c.child, p[2]) \in made

\* ... and asks for what follows from what is new.
News(c, made) ==
    /\ \A x \in started' : x \in started \/
         /\ AddCall(x[1], StartOf(x)) \in made
         /\ <<x[1], CallAutomatonListener(x[1])>> \in updateListeners'
    /\ \A u \in trans' : u \in trans \/
         /\ c = TellCall("add", u[1], u[2])
         /\ \A o \in Telling : TellCall(o, u[1], u[2]) \in made
    /\ \A p \in stateListeners' : p \in stateListeners \/
         /\ HandOnCall(p[1], p[2]) \in made
         /\ \A u \in trans' : p[1] = u[1] /\ Hears(p[2], u[2]) => HearCall(p[2], u[2], u[1]) \in made
    /\ \A p \in updateListeners' : p \in updateListeners \/
         /\ HandUpdateOnCall(p[1], p[2]) \in made \/ \A e \in nested' : e[1] # p[1]
         /\ \A u \in trans' : p[1] = u[1] => HearCall(p[2], u[2], u[1]) \in made
    /\ \A e \in nested' : e \in nested \/
         \A o \in Giving : GiveCall(o, e[1], e[2]) \in made
    /\ \A x \in reached' : x \in reached \/ \A r \in Rules : <<r.l1, r.s1>> = x[2] =>
         RegisterCall(x[1], RuleListener(x[1], r)) \in made
    /\ \A t \in PushEdge, a \in Automaton : TellCall("add", a, t) \in made =>
         \/ SumAsked(TellCall("add", a, t))
         \/ \E s \in Created : /\ PutBy(s, a, t)
                              /\ UpdateCall(SummaryAt(s, t), SummaryListener(s, t)) \in made

SumHeeds(c, made) == Moves(c, made) /\ SumGrow /\ Deed(c, made) /\ News(c, made)

LEMMA BasicAsks ==
    /\ \A l, t, a : \A d \in AsksOf(l, t, a) : d.op \in Basic
    /\ \A s, t : AddCall(s, t).op \in Basic
    /\ \A a, t : TellCall("add", a, t).op \in Basic
    /\ \A a, l : RegisterCall(a, l).op \in Basic /\ UpdateCall(a, l).op \in Basic
    /\ \A a, b : NestCall(a, b).op \in Basic
    /\ \A s, n : ReachCall(s, n).op \in Basic
BY SumConstructors DEF AsksOf, Basic

LEMMA SumOwedAfter ==
    ASSUME SumOwed, SumTypeOK, NEW c, NEW made, SumHeeds(c, made), Pending(c) \/ c = noSumCall
    PROVE  SumOwed'
<1>1. /\ \A d : Pending(d) /\ d # c => Pending(d)'
      /\ \A d \in made : Pending(d)'
      /\ \A d : Pending(d)' => Pending(d) \/ d \in made
  BY PendingMoves DEF SumHeeds
<1>2. SumGrow /\ Deed(c, made) /\ News(c, made)
  BY DEF SumHeeds
<1>3. ASSUME NEW d, d.op \in Basic, SumAsked(d) PROVE SumAsked(d)'
  <2>1. CASE d = c
    BY <1>2, <1>3, <2>1 DEF Deed, SumAsked
  <2>2. CASE d # c /\ Pending(d)
    BY <1>1, <2>2 DEF SumAsked
  <2>3. CASE SumDone(d)
    BY <1>2, <2>3 DEF SumDone, SumAsked, SumGrow
  <2> QED BY <1>3, <2>1, <2>2, <2>3 DEF SumAsked
<1>4. \A d \in made : SumAsked(d)'
  BY <1>1 DEF SumAsked
<1>5. ASSUME NEW l, NEW t, NEW a, Answered(l, t, a) PROVE Answered(l, t, a)'
  <2>1. \A d \in AsksOf(l, t, a) : SumAsked(d)'
    BY <1>3, <1>5, BasicAsks DEF Answered
  <2>2. Reports(l, t) => ReportOf(l, t) \in connected'
    BY <1>2, <1>5 DEF Answered, SumGrow
  <2> QED BY <2>1, <2>2 DEF Answered
<1>6. StartsOwed'
  BY <1>2, <1>3, <1>4, BasicAsks DEF SumOwed, StartsOwed, News
<1>7. ASSUME NEW l, NEW t, NEW a, NEW o,
             Answered(l, t, a) \/ Pending(HearCall(l, t, a)) \/ Pending(TellCall(o, a, t)),
             c = TellCall(o, a, t) => HearCall(l, t, a) \in made
      PROVE  (Answered(l, t, a) \/ Pending(HearCall(l, t, a)) \/ Pending(TellCall(o, a, t)))'
  <2>1. CASE Answered(l, t, a)
    BY <1>5, <2>1
  <2>2. CASE HearCall(l, t, a) = c
    <3>1. c.op = "hear" /\ c.l = l /\ c.t = t /\ c.aut = a
      BY <2>2, SumConstructors
    <3>2. /\ AsksOf(l, t, a) \subseteq made
          /\ Reports(l, t) => ReportOf(l, t) \in connected'
      BY <1>2, <3>1 DEF Deed
    <3>3. Answered(l, t, a)'
      BY <1>4, <3>2 DEF Answered
    <3> QED BY <3>3
  <2>3. CASE TellCall(o, a, t) = c
    BY <1>1, <1>7, <2>3
  <2>4. CASE ~Answered(l, t, a) /\ HearCall(l, t, a) # c /\ TellCall(o, a, t) # c
    BY <1>1, <1>7, <2>4
  <2> QED BY <2>1, <2>2, <2>3, <2>4
<1>8. StateOwed'
  <2> SUFFICES ASSUME NEW p \in stateListeners', NEW u \in trans',
                      p[1] = u[1], Hears(p[2], u[2])
               PROVE  (\/ Answered(p[2], u[2], u[1])
                       \/ Pending(HearCall(p[2], u[2], u[1]))
                       \/ Pending(TellCall(Direction(p[2]), u[1], u[2])))'
    BY DEF StateOwed
  <2>1. CASE p \notin stateListeners
    BY <1>1, <1>2, <2>1 DEF News
  <2>2. CASE u \notin trans
    <3>1. Direction(p[2]) \in Telling
      BY DEF Direction, Telling
    <3> QED BY <1>1, <1>2, <2>2, <3>1 DEF News
  <2>3. CASE p \in stateListeners /\ u \in trans
    <3>1. \/ Answered(p[2], u[2], u[1]) \/ Pending(HearCall(p[2], u[2], u[1]))
          \/ Pending(TellCall(Direction(p[2]), u[1], u[2]))
      BY <2>3 DEF SumOwed, StateOwed
    <3>2. ASSUME c = TellCall(Direction(p[2]), u[1], u[2])
          PROVE  HearCall(p[2], u[2], u[1]) \in made
      <4>1. c.op = Direction(p[2]) /\ c.aut = u[1] /\ c.t = u[2]
        BY <3>2, SumConstructors
      <4>2. c.op \in {"out", "in"}
        BY <4>1 DEF Direction
      <4> QED BY <1>2, <4>1, <4>2 DEF Deed
    <3> QED BY <1>7, <3>1, <3>2
  <2> QED BY <2>1, <2>2, <2>3
<1>9. UpdateOwed'
  <2> SUFFICES ASSUME NEW p \in updateListeners', NEW u \in trans', p[1] = u[1]
               PROVE  (\/ Answered(p[2], u[2], u[1])
                       \/ Pending(HearCall(p[2], u[2], u[1]))
                       \/ Pending(TellCall("updates", u[1], u[2])))'
    BY DEF UpdateOwed
  <2>1. CASE p \notin updateListeners
    BY <1>1, <1>2, <2>1 DEF News
  <2>2. CASE u \notin trans
    BY <1>1, <1>2, <2>2 DEF News, Telling
  <2>3. CASE p \in updateListeners /\ u \in trans
    <3>1. \/ Answered(p[2], u[2], u[1]) \/ Pending(HearCall(p[2], u[2], u[1]))
          \/ Pending(TellCall("updates", u[1], u[2]))
      BY <2>3 DEF SumOwed, UpdateOwed
    <3>2. ASSUME c = TellCall("updates", u[1], u[2])
          PROVE  HearCall(p[2], u[2], u[1]) \in made
      <4>1. c.op = "updates" /\ c.aut = u[1] /\ c.t = u[2]
        BY <3>2, SumConstructors
      <4> QED BY <1>2, <4>1 DEF Deed
    <3> QED BY <1>7, <3>1, <3>2
  <2> QED BY <2>1, <2>2, <2>3
<1>10. HandOnOwed'
  <2> SUFFICES ASSUME NEW e \in nested', NEW p \in stateListeners', p[1] = e[1]
               PROVE  (\/ SumAsked(RegisterCall(e[2], p[2]))
                       \/ Pending(HandOnCall(e[1], p[2]))
                       \/ Pending(GiveCall("give", e[1], e[2])))'
    BY DEF HandOnOwed
  <2>1. CASE p \notin stateListeners
    BY <1>1, <1>2, <2>1 DEF News
  <2>2. CASE e \notin nested
    BY <1>1, <1>2, <2>2 DEF News, Giving
  <2>3. CASE HandOnCall(e[1], p[2]) = c
    <3>1. c.op = "handOn" /\ c.aut = e[1] /\ c.l = p[2]
      BY <2>3, SumConstructors
    <3> QED BY <1>2, <1>4, <3>1 DEF Deed
  <2>4. CASE GiveCall("give", e[1], e[2]) = c
    <3>1. c.op = "give" /\ c.aut = e[1] /\ c.child = e[2]
      BY <2>4, SumConstructors
    <3> QED BY <1>2, <1>4, <3>1 DEF Deed
  <2>5. CASE /\ p \in stateListeners /\ e \in nested /\ HandOnCall(e[1], p[2]) # c
             /\ GiveCall("give", e[1], e[2]) # c
    <3>1. \/ SumAsked(RegisterCall(e[2], p[2])) \/ Pending(HandOnCall(e[1], p[2]))
          \/ Pending(GiveCall("give", e[1], e[2]))
      BY <2>5 DEF SumOwed, HandOnOwed
    <3> QED BY <1>1, <1>3, <2>5, <3>1, BasicAsks
  <2> QED BY <2>1, <2>2, <2>3, <2>4, <2>5
<1>11. HandUpdateOnOwed'
  <2> SUFFICES ASSUME NEW e \in nested', NEW p \in updateListeners', p[1] = e[1]
               PROVE  (\/ SumAsked(UpdateCall(e[2], p[2]))
                       \/ Pending(HandUpdateOnCall(e[1], p[2]))
                       \/ Pending(GiveCall("giveUpdates", e[1], e[2])))'
    BY DEF HandUpdateOnOwed
  <2>1. CASE p \notin updateListeners
    BY <1>1, <1>2, <2>1 DEF News
  <2>2. CASE e \notin nested
    BY <1>1, <1>2, <2>2 DEF News, Giving
  <2>3. CASE HandUpdateOnCall(e[1], p[2]) = c
    <3>1. c.op = "handOnUpdate" /\ c.aut = e[1] /\ c.l = p[2]
      BY <2>3, SumConstructors
    <3> QED BY <1>2, <1>4, <3>1 DEF Deed
  <2>4. CASE GiveCall("giveUpdates", e[1], e[2]) = c
    <3>1. c.op = "giveUpdates" /\ c.aut = e[1] /\ c.child = e[2]
      BY <2>4, SumConstructors
    <3> QED BY <1>2, <1>4, <3>1 DEF Deed
  <2>5. CASE /\ p \in updateListeners /\ e \in nested /\ HandUpdateOnCall(e[1], p[2]) # c
             /\ GiveCall("giveUpdates", e[1], e[2]) # c
    <3>1. \/ SumAsked(UpdateCall(e[2], p[2])) \/ Pending(HandUpdateOnCall(e[1], p[2]))
          \/ Pending(GiveCall("giveUpdates", e[1], e[2]))
      BY <2>5 DEF SumOwed, HandUpdateOnOwed
    <3> QED BY <1>1, <1>3, <2>5, <3>1, BasicAsks
  <2> QED BY <2>1, <2>2, <2>3, <2>4, <2>5
<1>12. ReachOwed'
  <2> SUFFICES ASSUME NEW x \in reached', NEW r \in Rules, <<r.l1, r.s1>> = x[2]
               PROVE  SumAsked(RegisterCall(x[1], RuleListener(x[1], r)))'
    BY DEF ReachOwed
  <2>1. CASE x \notin reached
    BY <1>2, <1>4, <2>1 DEF News
  <2>2. CASE x \in reached
    <3>1. SumAsked(RegisterCall(x[1], RuleListener(x[1], r)))
      BY <2>2 DEF SumOwed, ReachOwed
    <3> QED BY <1>3, <3>1, BasicAsks
  <2> QED BY <2>1, <2>2
<1>13. SummaryOwed'
  <2> SUFFICES ASSUME NEW t \in PushEdge, NEW a \in Automaton, SumAsked(TellCall("add", a, t))'
               PROVE  \E s \in Created' :
                        PutBy(s, a, t) /\ SumAsked(UpdateCall(SummaryAt(s, t), SummaryListener(s, t)))'
    BY DEF SummaryOwed, PutBy, Proper, SummaryAt
  <2> DEFINE d == TellCall("add", a, t)
  <2>0. d.op = "add" /\ d.aut = a /\ d.t = t
    BY SumConstructors
  <2>1. SumAsked(d) \/ d \in made \/ c = d
    <3>1. CASE Pending(d)'
      BY <1>1, <3>1 DEF SumAsked
    <3>2. CASE SumDone(d)'
      <4> DEFINE u == <<a, t>>
      <4>1. u \in trans' /\ u[1] = a /\ u[2] = t
        BY <3>2, <2>0 DEF SumDone
      <4>2. u \in trans => SumDone(d)
        BY <2>0 DEF SumDone
      <4> HIDE DEF u
      <4> QED BY <1>2, <4>1, <4>2 DEF SumAsked, News
    <3> QED BY <3>1, <3>2 DEF SumAsked
  <2>9. Created \subseteq Created'
    BY <1>2, PlacedKept
  <2>2. CASE SumAsked(d)
    <3>1. PICK s \in Created :
             PutBy(s, a, t) /\ SumAsked(UpdateCall(SummaryAt(s, t), SummaryListener(s, t)))
      BY <2>2 DEF SumOwed, SummaryOwed
    <3>2. PICK e : e = UpdateCall(SummaryAt(s, t), SummaryListener(s, t)) /\ e.op \in Basic
      BY BasicAsks
    <3> QED BY <1>3, <2>9, <3>1, <3>2
  <2>3. CASE d \in made /\ ~SumAsked(d)
    <3>1. PICK s \in Created :
             PutBy(s, a, t) /\ UpdateCall(SummaryAt(s, t), SummaryListener(s, t)) \in made
      BY <1>2, <2>3 DEF News
    <3> QED BY <1>4, <2>9, <3>1
  <2>4. CASE c = d
    <3>1. Pending(c)
      BY <2>4, <2>0, SumConstructors
    <3> QED BY <2>2, <2>4, <3>1 DEF SumAsked
  <2> HIDE DEF d
  <2> QED BY <2>1, <2>2, <2>3, <2>4
<1>14. ReachListening'
  BY <1>2 DEF SumOwed, ReachListening, SumGrow, News
<1> QED BY <1>6, <1>8, <1>9, <1>10, <1>11, <1>12, <1>13, <1>14 DEF SumOwed

(***************************************************************************)
(* What the rules entail.                                                  *)
(***************************************************************************)
SumClosed(T) ==
    /\ \A t \in T, r \in Rules : r.kind = "normal" /\ r.s1 = t.start /\ r.l1 = t.label =>
         Trans(r.s2, r.l2, t.target) \in T
    /\ \A t \in T, r \in Rules : r.kind = "push" /\ r.s1 = t.start /\ r.l1 = t.label =>
         PushOf(r, t) \in T /\ EntryOf(r) \in T
    /\ \A t \in T, r \in Rules :
         r.kind = "pop" /\ r.s1 = t.start /\ r.l1 = t.label /\ t.target \in Generated =>
           Trans(r.s2, Eps, t.target) \in T
    /\ \A t, u \in T : t.label = Eps /\ t.target = u.start =>
         Trans(t.start, u.label, u.target) \in T

\* T has what every solver starts with at a call: an automaton of it is in use.
EntersCall(T, a) ==
    \A q \in Control, x \in Label : CreateState(q, x) = a => Trans(q, x, a) \in T

EntersStart(T, a) == \A x \in started : x[1] = a => StartOf(x) \in T

\* T has all that any solver starts with.
AllStarts(T) == \A x \in started : StartOf(x) \in T

\* No solver has calls in its own automaton: what is in an automaton then follows from
\* what the automaton is entered with.  Otherwise there is only one solver.
Sharing == \A x \in started : ~EntersItself(x[1])

Enters(T, a) == AllStarts(T) \/ (Sharing /\ EntersCall(T, a) /\ EntersStart(T, a))

\* Whoever enters the automaton of t has t, and enters the call t leaves from.
Holds(T, a, t) == Enters(T, a) => t \in T /\ (t.start \in Generated => EntersCall(T, t.start))

TrueListener(T, l) ==
    /\ l.kind \in {"transitive", "summary"} => Holds(T, SummaryOf(l.of, l.t.target), l.t)
    /\ l.kind = "returned" => (Enters(T, l.of) => l.t \in T)

ReachHolds(T, s, n) ==
    Enters(T, s) => \E t \in T : t.start \notin Generated /\ n = <<t.label, t.start>>

Leads(T, a, b) == Enters(T, a) => EntersCall(T, b)

Bounded(T) ==
    /\ \A u \in trans : Holds(T, u[1], u[2])
    /\ \A e \in nested : Leads(T, e[1], e[2])
    /\ \A p \in stateListeners \cup updateListeners : TrueListener(T, p[2])
    /\ \A x \in reached : ReachHolds(T, x[1], x[2])

Carries(T, d) ==
    /\ d.op = "add" => Holds(T, d.aut, d.t)
    /\ d.op \in {"register", "handOn", "registerUpdate", "handOnUpdate", "hear"} =>
         TrueListener(T, d.l)
    /\ d.op = "nest" => Leads(T, d.aut, d.child)
    /\ d.op = "reach" => ReachHolds(T, d.of, d.n)

SumFollowed == \A T : SumClosed(T) => Bounded(T) /\ \A d : Pending(d) => Carries(T, d)

\* What is new follows from what there was.
SumFollows(made) ==
    \A T : SumClosed(T) =>
      /\ \A u \in trans' : u \in trans \/ Holds(T, u[1], u[2])
      /\ \A e \in nested' : e \in nested \/ Leads(T, e[1], e[2])
      /\ \A p \in stateListeners' \cup updateListeners' :
           p \in stateListeners \cup updateListeners \/ TrueListener(T, p[2])
      /\ \A x \in reached' : x \in reached \/ ReachHolds(T, x[1], x[2])
      /\ \A d \in made : Carries(T, d)'

LEMMA CarriesKept ==
    ASSUME SumGrow
    PROVE  /\ \A T, a, t : Holds(T, a, t) => Holds(T, a, t)'
           /\ \A T, l : TrueListener(T, l) => TrueListener(T, l)'
           /\ \A T, s, n : ReachHolds(T, s, n) => ReachHolds(T, s, n)'
           /\ \A T, a, b : Leads(T, a, b) => Leads(T, a, b)'
           /\ \A T, d : Carries(T, d) => Carries(T, d)'
<1>1. \A T, a : Enters(T, a)' => Enters(T, a)
  BY DEF SumGrow, Enters, EntersStart, EntersCall, AllStarts, Sharing
<1>2. \A T, a, t : Holds(T, a, t) => Holds(T, a, t)'
  BY <1>1 DEF Holds, EntersCall
<1>3. \A T, l : TrueListener(T, l) => TrueListener(T, l)'
  BY <1>1, <1>2 DEF TrueListener
<1>4. \A T, s, n : ReachHolds(T, s, n) => ReachHolds(T, s, n)'
  BY <1>1 DEF ReachHolds
<1>5. \A T, a, b : Leads(T, a, b) => Leads(T, a, b)'
  BY <1>1 DEF Leads, EntersCall
<1>6. \A T, d : Carries(T, d) => Carries(T, d)'
  BY <1>2, <1>3, <1>4, <1>5 DEF Carries
<1> QED BY <1>2, <1>3, <1>4, <1>5, <1>6

LEMMA SumFollowedAfter ==
    ASSUME SumFollowed, SumGrow, NEW c, NEW made, Moves(c, made), SumFollows(made)
    PROVE  SumFollowed'
<1> SUFFICES ASSUME NEW T, SumClosed(T)
             PROVE  Bounded(T)' /\ \A d : Pending(d)' => Carries(T, d)'
  BY DEF SumFollowed, SumClosed
<1>1. Bounded(T) /\ \A d : Pending(d) => Carries(T, d)
  BY DEF SumFollowed
<1>2. /\ \A u \in trans' : u \in trans \/ Holds(T, u[1], u[2])
      /\ \A e \in nested' : e \in nested \/ Leads(T, e[1], e[2])
      /\ \A p \in stateListeners' \cup updateListeners' :
           p \in stateListeners \cup updateListeners \/ TrueListener(T, p[2])
      /\ \A x \in reached' : x \in reached \/ ReachHolds(T, x[1], x[2])
      /\ \A d \in made : Carries(T, d)'
  BY DEF SumFollows
<1>3. \A u \in trans' : Holds(T, u[1], u[2])'
  BY <1>1, <1>2, CarriesKept DEF Bounded
<1>4. \A e \in nested' : Leads(T, e[1], e[2])'
  BY <1>1, <1>2, CarriesKept DEF Bounded
<1>5. \A p \in stateListeners' \cup updateListeners' : TrueListener(T, p[2])'
  BY <1>1, <1>2, CarriesKept DEF Bounded
<1>6. \A x \in reached' : ReachHolds(T, x[1], x[2])'
  BY <1>1, <1>2, CarriesKept DEF Bounded
<1>7. \A d : Pending(d)' => Carries(T, d)'
  BY <1>1, <1>2, CarriesKept, PendingMoves
<1> QED BY <1>3, <1>4, <1>5, <1>6, <1>7 DEF Bounded

\* Who enters an automaton and then a call enters the summary that a solver takes for it.
LEMMA EntersSummary ==
    ASSUME SumInv, NEW T, NEW a, Enters(T, a), NEW s \in Created, NEW g \in Generated,
           EntersCall(T, g)
    PROVE  Enters(T, SummaryOf(s, g))
<1>1. CASE AllStarts(T)
  BY <1>1 DEF Enters
<1>2. CASE ~AllStarts(T)
  <2>1. Sharing
    BY <1>2 DEF Enters
  <2>2. s \in Solver /\ ~EntersItself(s)
    BY <2>1, CreatedFacts DEF Sharing, Created
  <2>3. SummaryOf(s, g) = g
    BY <2>2, SummaryFacts DEF EntersItself
  <2>4. EntersStart(T, g)
    BY CreatedFacts, AutomatonKinds DEF EntersStart
  <2> QED BY <2>1, <2>3, <2>4 DEF Enters
<1> QED BY <1>1, <1>2

\* Who has what its automaton starts with has it for all those nested in it.
LEMMA PlacedEnters ==
    ASSUME SumInv, NEW T, Bounded(T), NEW s \in Solver, NEW a, Placed(s, a),
           Enters(T, s)
    PROVE  Enters(T, a)
<1> DEFINE S == {b \in Automaton : Enters(T, b)}
<1>1. s \in S
  BY AutomatonKinds
<1>2. NestClosed(S)
  <2> SUFFICES ASSUME NEW e \in nested, e[1] \in S
               PROVE  e[2] \in S
    BY DEF NestClosed
  <2>1. PICK u \in Created, g \in Generated : e[2] = SummaryOf(u, g)
    BY DEF SumInv, NestPlace
  <2>2. EntersCall(T, e[2])
    BY DEF Bounded, Leads
  <2>3. e[2] \in Automaton
    BY <2>1, CreatedFacts, SummaryFacts
  <2>4. Enters(T, e[2])
    <3>1. CASE AllStarts(T)
      BY <3>1 DEF Enters
    <3>2. CASE ~AllStarts(T)
      <4>1. Sharing
        BY <3>2 DEF Enters
      <4>2. u \in Solver /\ ~EntersItself(u)
        BY <4>1, CreatedFacts DEF Sharing, Created
      <4>3. SummaryOf(u, g) = g
        BY <4>2, SummaryFacts DEF EntersItself
      <4> QED BY <2>1, <2>2, <4>3, EntersSummary
    <3> QED BY <3>1, <3>2
  <2> QED BY <2>3, <2>4
<1>3. a \in S
  BY <1>1, <1>2 DEF Placed
<1> QED BY <1>3

\* A push enters the call it makes, with the transition that every solver starts with.
LEMMA EntryFacts ==
    ASSUME NEW r \in Rules, r.kind = "push"
    PROVE  /\ EntryState(r) \in Generated /\ EntryOf(r) \in SumEdge
           /\ EntryOf(r).target = EntryState(r) /\ EntryOf(r).start \in Control
           /\ \A T : EntryOf(r) \in T => EntersCall(T, EntryState(r))
           /\ \A T : EntersCall(T, EntryState(r)) => EntryOf(r) \in T
           /\ \A t \in SumEdge : /\ PushOf(r, t) \in PushEdge /\ PushOf(r, t).start = EntryState(r)
                                 /\ PushOf(r, t).target = t.target
                                 /\ PushOf(r, t).label = r.callSite
<1>1. r.s2 \in Control /\ r.l2 \in Label \ {Eps} /\ r.callSite \in Label \ {Eps}
  BY RulesTyped
<1>2. EntryState(r) \in Generated
  BY <1>1, SummariesAssumption DEF EntryState
<1>3. EntryOf(r) \in SumEdge /\ EntryOf(r).target = EntryState(r) /\ EntryOf(r).start \in Control
  BY <1>1, <1>2, AutomatonKinds, TransEdges, TransFieldsOf DEF EntryOf
<1>4. ASSUME NEW T, EntryOf(r) \in T, NEW q \in Control, NEW x \in Label,
             CreateState(q, x) = EntryState(r)
      PROVE  Trans(q, x, EntryState(r)) \in T
  <2>1. q = r.s2 /\ x = r.l2
    BY <1>1, <1>4, SummariesAssumption DEF EntryState
  <2> QED BY <1>4, <2>1 DEF EntryOf
<1>5. \A T : EntersCall(T, EntryState(r)) => EntryOf(r) \in T
  BY <1>1 DEF EntersCall, EntryOf, EntryState
<1>6. \A t \in SumEdge : /\ PushOf(r, t) \in PushEdge /\ PushOf(r, t).start = EntryState(r)
                         /\ PushOf(r, t).target = t.target /\ PushOf(r, t).label = r.callSite
  BY <1>1, <1>2, EdgeFields, TransEdges, TransFieldsOf DEF PushOf
<1> QED BY <1>2, <1>3, <1>4, <1>5, <1>6 DEF EntersCall

(***************************************************************************)
(* The calls that are made.                                                *)
(***************************************************************************)
KnownBy ==
    /\ \A s, t : s \in Created /\ Proper(s, t) => KnownCall(AddCall(s, t))
    /\ \A a, t : \A o \in Telling : <<a, t>> \in trans /\ InPlace(a, t) => KnownCall(TellCall(o, a, t))
    /\ \A a, l : GoodListener(a, l) => /\ KnownCall(RegisterCall(a, l))
                                       /\ KnownCall(HandOnCall(a, l))
                                       /\ KnownCall(UpdateCall(a, l))
                                       /\ KnownCall(HandUpdateOnCall(a, l))
    /\ \A l, t, a : GoodListener(a, l) /\ <<a, t>> \in trans /\ (l \in SumListener => Hears(l, t))
                      => KnownCall(HearCall(l, t, a))
    /\ \A a, b : NestPlace(a, b) => KnownCall(NestCall(a, b))
    /\ \A a, b : \A o \in Giving : <<a, b>> \in nested => KnownCall(GiveCall(o, a, b))
    /\ \A a, b, s : <<a, b>> \in nested /\ s \in Created /\ Placed(s, a) => KnownCall(GiveOneCall(a, b, s))
    /\ \A a, s : s \in Created /\ Placed(s, a) => KnownCall(NestedListenerCall(a, s))
    /\ \A s, n : s \in Created => KnownCall(ReachCall(s, n))

LEMMA KnownFacts == KnownBy
<1>1. ASSUME NEW s \in Created, NEW t, Proper(s, t)
      PROVE  KnownCall(AddCall(s, t))
  <2>1. PICK c : c = AddCall(s, t) /\ c.op = "add" /\ c.aut = SummaryOf(s, t.target) /\ c.t = t
    BY SumConstructors
  <2>2. InPlace(c.aut, c.t)
    BY <1>1, <2>1, PutByAdder
  <2>3. KnownCall(c)
    BY <2>1, <2>2 DEF KnownCall, Telling, Giving
  <2> QED BY <2>1, <2>3
<1>2. ASSUME NEW a, NEW t, NEW o \in Telling, <<a, t>> \in trans, InPlace(a, t)
      PROVE  KnownCall(TellCall(o, a, t))
  BY <1>2, SumConstructors DEF KnownCall, Telling, Giving
<1>3. \A a, l : GoodListener(a, l) => /\ KnownCall(RegisterCall(a, l))
                                      /\ KnownCall(HandOnCall(a, l))
                                      /\ KnownCall(UpdateCall(a, l))
                                      /\ KnownCall(HandUpdateOnCall(a, l))
  BY SumConstructors DEF KnownCall, Telling, Giving
<1>4. ASSUME NEW l, NEW t, NEW a, GoodListener(a, l), <<a, t>> \in trans,
             l \in SumListener => Hears(l, t)
      PROVE  KnownCall(HearCall(l, t, a))
  <2>1. PICK c : c = HearCall(l, t, a) /\ c.op = "hear" /\ c.l = l /\ c.t = t /\ c.aut = a
    BY SumConstructors
  <2>2. KnownCall(c)
    BY <1>4, <2>1 DEF KnownCall, Telling, Giving
  <2> QED BY <2>1, <2>2
<1>5. \A a, b : NestPlace(a, b) => KnownCall(NestCall(a, b))
  BY SumConstructors DEF KnownCall, Telling, Giving
<1>6. ASSUME NEW a, NEW b, NEW o \in Giving, <<a, b>> \in nested
      PROVE  KnownCall(GiveCall(o, a, b))
  BY <1>6, SumConstructors DEF KnownCall, Telling, Giving
<1>7. /\ \A a, b, s : <<a, b>> \in nested /\ s \in Created /\ Placed(s, a) => KnownCall(GiveOneCall(a, b, s))
      /\ \A a, s : s \in Created /\ Placed(s, a) => KnownCall(NestedListenerCall(a, s))
      /\ \A s, n : s \in Created => KnownCall(ReachCall(s, n))
  BY SumConstructors DEF KnownCall, Telling, Giving
<1> QED BY <1>1, <1>2, <1>3, <1>4, <1>5, <1>6, <1>7 DEF KnownBy

CarriedBy ==
    /\ \A T, s, t : Holds(T, SummaryOf(s, t.target), t) => Carries(T, AddCall(s, t))
    /\ \A T, a, l : TrueListener(T, l) => /\ Carries(T, RegisterCall(a, l))
                                          /\ Carries(T, HandOnCall(a, l))
                                          /\ Carries(T, UpdateCall(a, l))
                                          /\ Carries(T, HandUpdateOnCall(a, l))
                                          /\ \A t : Carries(T, HearCall(l, t, a))
    /\ \A T, a, b : Leads(T, a, b) => Carries(T, NestCall(a, b))
    /\ \A T, s, n : ReachHolds(T, s, n) => Carries(T, ReachCall(s, n))
    /\ \A T, a, t : \A o \in Telling : Carries(T, TellCall(o, a, t))
    /\ \A T, a, b : \A o \in Giving : Carries(T, GiveCall(o, a, b))
    /\ \A T, a, b, s : Carries(T, GiveOneCall(a, b, s))
    /\ \A T, a, s : Carries(T, NestedListenerCall(a, s))

LEMMA CarriedFacts == CarriedBy
<1> USE SumConstructors DEF Carries, Telling, Giving
<1>1. \A T, s, t : Holds(T, SummaryOf(s, t.target), t) => Carries(T, AddCall(s, t))
  OBVIOUS
<1>2. \A T, a, l : TrueListener(T, l) => /\ Carries(T, RegisterCall(a, l))
                                          /\ Carries(T, HandOnCall(a, l))
                                          /\ Carries(T, UpdateCall(a, l))
                                          /\ Carries(T, HandUpdateOnCall(a, l))
                                          /\ \A t : Carries(T, HearCall(l, t, a))
  OBVIOUS
<1>3. /\ \A T, a, b : Leads(T, a, b) => Carries(T, NestCall(a, b))
      /\ \A T, s, n : ReachHolds(T, s, n) => Carries(T, ReachCall(s, n))
  OBVIOUS
<1>4. /\ \A T, a, t : \A o \in Telling : Carries(T, TellCall(o, a, t))
      /\ \A T, a, b : \A o \in Giving : Carries(T, GiveCall(o, a, b))
      /\ \A T, a, b, s : Carries(T, GiveOneCall(a, b, s))
      /\ \A T, a, s : Carries(T, NestedListenerCall(a, s))
  OBVIOUS
<1> QED BY <1>1, <1>2, <1>3, <1>4 DEF CarriedBy

\* The call that runs.
LEMMA SumCallAt ==
    ASSUME SumInv, SumFollowed, NEW c \in Innermost
    PROVE  /\ c \in SumCall /\ Pending(c) /\ KnownCall(c)
           /\ \A T : SumClosed(T) => Bounded(T) /\ Carries(T, c)
<1>1. agenda \in Seq(SUBSET SumCall) /\ agenda # <<>> /\ c \in Head(agenda)
  BY DEF SumInv, SumTypeOK, Innermost
<1>2. 1 \in DOMAIN agenda /\ c \in agenda[1] /\ agenda[1] \in SUBSET SumCall
  BY <1>1
<1>3. c \in SumCall /\ Pending(c)
  BY <1>2 DEF Pending
<1> QED BY <1>3 DEF SumInv, SumFollowed

LEMMA SumReturns ==
    ASSUME SumTypeOK, NEW c \in Innermost,
           NEW A \in SUBSET SumCall, NEW B \in SUBSET SumCall, NEW C \in SUBSET SumCall,
           NEW D \in SUBSET SumCall, NEW E \in SUBSET SumCall
    PROVE  LET typed == agenda' \in Seq(SUBSET SumCall)
           IN  /\ Return(c, <<>>) => typed /\ Moves(c, {})
               /\ Return(c, <<A>>) => typed /\ Moves(c, A)
               /\ Return(c, <<A, B>>) => typed /\ Moves(c, A \cup B)
               /\ Return(c, <<A, B, C>>) => typed /\ Moves(c, A \cup B \cup C)
               /\ Return(c, <<A, B, C, D, E>>) => typed /\ Moves(c, A \cup B \cup C \cup D \cup E)
<1> DEFINE K == SumCall
<1>1. agenda \in Seq(SUBSET K) /\ A \in SUBSET K /\ B \in SUBSET K /\ C \in SUBSET K
      /\ D \in SUBSET K /\ E \in SUBSET K
  BY DEF SumTypeOK
<1> HIDE DEF K
<1>2. <<>> \in Seq(SUBSET K) /\ <<A>> \in Seq(SUBSET K) /\ <<A, B>> \in Seq(SUBSET K)
      /\ <<A, B, C>> \in Seq(SUBSET K)
  BY <1>1, LoopTypes
<1>3. <<A, B, C, D, E>> \in Seq(SUBSET K)
  BY <1>1
<1>4. ASSUME NEW body \in Seq(SUBSET K), Return(c, body), NEW made,
             \A d : d \in made <=> \E i \in DOMAIN body : d \in body[i]
      PROVE  agenda' \in Seq(SUBSET K) /\ Moves(c, made)
  BY <1>1, <1>4, LoopsMove
<1>5. /\ Return(c, <<>>) => agenda' \in Seq(SUBSET K) /\ Moves(c, {})
      /\ Return(c, <<A>>) => agenda' \in Seq(SUBSET K) /\ Moves(c, A)
      /\ Return(c, <<A, B>>) => agenda' \in Seq(SUBSET K) /\ Moves(c, A \cup B)
  <2>1. \A d : d \in {} <=> \E i \in DOMAIN <<>> : d \in <<>>[i]
    BY MadeCalls
  <2>2. \A d : d \in A <=> \E i \in DOMAIN <<A>> : d \in <<A>>[i]
    BY MadeCalls
  <2>3. \A d : d \in A \cup B <=> \E i \in DOMAIN <<A, B>> : d \in <<A, B>>[i]
    BY MadeCalls
  <2>4. Return(c, <<>>) => agenda' \in Seq(SUBSET K) /\ Moves(c, {})
    BY <1>2, <1>4, <2>1
  <2>5. Return(c, <<A>>) => agenda' \in Seq(SUBSET K) /\ Moves(c, A)
    BY <1>2, <1>4, <2>2
  <2>6. Return(c, <<A, B>>) => agenda' \in Seq(SUBSET K) /\ Moves(c, A \cup B)
    BY <1>2, <1>4, <2>3
  <2> QED BY <2>4, <2>5, <2>6
<1>6. Return(c, <<A, B, C>>) => agenda' \in Seq(SUBSET K) /\ Moves(c, A \cup B \cup C)
  <2> DEFINE body == <<A, B, C>>
             made == A \cup B \cup C
  <2>1. \A d : d \in made <=> \E i \in DOMAIN body : d \in body[i]
    BY LongBodies
  <2>2. body \in Seq(SUBSET K)
    BY <1>2
  <2> HIDE DEF body, made
  <2>3. Return(c, body) => agenda' \in Seq(SUBSET K) /\ Moves(c, made)
    BY <1>4, <2>1, <2>2
  <2> QED BY <2>3 DEF body, made
<1>7. Return(c, <<A, B, C, D, E>>) =>
        agenda' \in Seq(SUBSET K) /\ Moves(c, A \cup B \cup C \cup D \cup E)
  <2> DEFINE body == <<A, B, C, D, E>>
             made == A \cup B \cup C \cup D \cup E
  <2>1. \A d : d \in made <=> \E i \in DOMAIN body : d \in body[i]
    BY LongBodies
  <2>2. body \in Seq(SUBSET K)
    BY <1>3
  <2> HIDE DEF body, made
  <2>3. Return(c, body) => agenda' \in Seq(SUBSET K) /\ Moves(c, made)
    BY <1>4, <2>1, <2>2
  <2> QED BY <2>3 DEF body, made
<1> QED BY <1>5, <1>6, <1>7 DEF K

(***************************************************************************)
(* What each action does.                                                  *)
(***************************************************************************)
SumEffect(c, made) == SumKeeps(c, made) /\ SumHeeds(c, made) /\ SumFollows(made)

PushesWaited(made) ==
    \A t \in PushEdge, a \in Automaton : TellCall("add", a, t) \in made =>
      \/ SumAsked(TellCall("add", a, t))
      \/ \E s \in Created : /\ PutBy(s, a, t)
                           /\ UpdateCall(SummaryAt(s, t), SummaryListener(s, t)) \in made

\* A call that only makes others.
LEMMA SumQuietEffect ==
    ASSUME SumInv, SumFollowed, NEW c, NEW made, Moves(c, made), agenda' \in Seq(SUBSET SumCall),
           UNCHANGED <<trans, nested, summariesListeners, reached, started>>,
           connected \subseteq connected',
           \A d \in made : KnownCall(d),
           \A T : SumClosed(T) /\ Bounded(T) => \A d \in made : Carries(T, d),
           Deed(c, made), PushesWaited(made)
    PROVE  SumEffect(c, made)
<1>1. SumGrow
  BY DEF SumGrow, summariesListeners
<1>2. SumTypeOK'
  BY DEF SumInv, SumTypeOK, summariesListeners
<1>3. SumKeeps(c, made)
  BY <1>1, <1>2, PlacedKept DEF SumKeeps, summariesListeners
<1>4. News(c, made)
  BY DEF News, summariesListeners, PushesWaited
<1>5. SumFollows(made)
  <2> SUFFICES ASSUME NEW T, SumClosed(T)
               PROVE  \A d \in made : Carries(T, d)'
    BY DEF SumFollows, summariesListeners
  <2>1. Bounded(T)
    BY DEF SumFollowed
  <2> QED BY <1>1, <2>1, CarriesKept
<1> QED BY <1>1, <1>3, <1>4, <1>5 DEF SumEffect, SumHeeds
LEMMA AtFacts ==
    /\ \A S, a, l : l \in At(S, a) <=> \E p \in S : p[1] = a /\ p[2] = l
    /\ \A a, b : b \in NestedIn(a) <=> \E e \in nested : e[1] = a /\ e[2] = b
    /\ \A a, t : t \in In(a) <=> \E u \in trans : u[1] = a /\ u[2] = t
BY DEF At, NestedIn, In

\* The listener that is told of a transition.
LEMMA SumHeard ==
    ASSUME SumInv, SumFollowed, NEW c \in Innermost, NEW k, HeardBy(c, k)
    PROVE  /\ c.op = "hear" /\ c.l.kind = k /\ c.l.of \in Created /\ c.l.of \in Solver
           /\ c.t \in SumEdge /\ c.aut \in Automaton /\ <<c.aut, c.t>> \in trans
           /\ GoodListener(c.aut, c.l) /\ InPlace(c.aut, c.t)
           /\ \A T : SumClosed(T) => Bounded(T) /\ TrueListener(T, c.l) /\ Holds(T, c.aut, c.t)
           /\ k \in RuleKind \cup {"transitive", "epsilon", "entered", "returned"} =>
                c.l \in SumListener /\ Hears(c.l, c.t)
           /\ k \in {"summary", "reach"} => c.l \in UpdateListener
<1>1. c.op = "hear" /\ c.l.kind = k
  BY DEF HeardBy
<1>2. /\ c \in SumCall /\ KnownCall(c)
      /\ \A T : SumClosed(T) => Bounded(T) /\ Carries(T, c)
  BY SumCallAt
<1>3. c.l \in SumListener \cup UpdateListener /\ c.t \in SumEdge /\ c.aut \in Automaton
  BY <1>1, <1>2, SumCallRecords
<1>4. /\ GoodListener(c.aut, c.l) /\ <<c.aut, c.t>> \in trans
      /\ c.l \in SumListener => Hears(c.l, c.t)
  BY <1>1, <1>2 DEF KnownCall
<1>5. InPlace(c.aut, c.t) /\ c.l.of \in Created
  <2> DEFINE u == <<c.aut, c.t>>
  <2>1. u \in trans /\ u[1] = c.aut /\ u[2] = c.t
    BY <1>4
  <2> HIDE DEF u
  <2> QED BY <1>4, <2>1 DEF SumInv, GoodListener
<1>6. ASSUME NEW T, SumClosed(T) PROVE Bounded(T) /\ TrueListener(T, c.l) /\ Holds(T, c.aut, c.t)
  <2> DEFINE u == <<c.aut, c.t>>
  <2>1. u \in trans /\ u[1] = c.aut /\ u[2] = c.t
    BY <1>4
  <2> HIDE DEF u
  <2>2. Bounded(T) /\ TrueListener(T, c.l)
    BY <1>1, <1>2, <1>6 DEF Carries
  <2> QED BY <2>1, <2>2 DEF Bounded
<1>7. c.l.of \in Solver
  BY <1>3, StateListenerFields, UpdateListenerFields
<1>8. /\ k \in RuleKind \cup {"transitive", "epsilon", "entered", "returned"} => c.l \in SumListener
      /\ k \in {"summary", "reach"} => c.l \in UpdateListener
  BY <1>1, <1>3, StateListenerFields, UpdateListenerFields DEF RuleKind
<1> QED BY <1>1, <1>3, <1>4, <1>5, <1>6, <1>7, <1>8

\* A listener that waits for no summary hears what its solver has there.
LEMMA HearsOwn ==
    ASSUME SumInv, SumFollowed, NEW c \in Innermost, c.op = "hear", c.l.kind # "summary"
    PROVE  c.l.of \in Created /\ Placed(c.l.of, c.aut) /\ PutBy(c.l.of, c.aut, c.t)
<1>1. HeardBy(c, c.l.kind)
  BY DEF HeardBy
<1>2. c.l.of \in Created /\ GoodListener(c.aut, c.l) /\ InPlace(c.aut, c.t)
  BY <1>1, SumHeard
<1>3. Placed(c.l.of, c.aut)
  BY <1>2 DEF GoodListener
<1> QED BY <1>2, <1>3, PutByHearer

\* What a listener adds goes where it heard of the transition, when the target is the same.
LEMMA PutThere ==
    ASSUME NEW s, NEW a \in Automaton, NEW t, NEW x \in SumEdge, PutBy(s, a, t), x.target = t.target
    PROVE  /\ Proper(s, x) /\ SummaryOf(s, x.target) = a /\ AddCall(s, x) \in SumCall
           /\ s \in Created => KnownCall(AddCall(s, x))
           /\ \A T : Holds(T, a, x) => Carries(T, AddCall(s, x))
<1>1. Proper(s, x) /\ SummaryOf(s, x.target) = a
  BY DEF PutBy, Proper
<1>2. AddCall(s, x) \in SumCall
  BY <1>1, SumConstructors, SumCallsTyped
<1>3. s \in Created => KnownCall(AddCall(s, x))
  BY <1>1, KnownFacts DEF KnownBy
<1>4. \A T : Holds(T, a, x) => Carries(T, AddCall(s, x))
  BY <1>1, CarriedFacts DEF CarriedBy
<1> QED BY <1>1, <1>2, <1>3, <1>4

LEMMA HearDeed ==
    ASSUME NEW c, NEW made, c.op = "hear", AsksOf(c.l, c.t, c.aut) \subseteq made,
           Reports(c.l, c.t) => ReportOf(c.l, c.t) \in connected'
    PROVE  Deed(c, made)
BY DEF Deed, Basic

LEMMA NoPushes ==
    /\ PushesWaited({})
    /\ \A s, x : x.start \in Control => PushesWaited({AddCall(s, x)})
    /\ \A made : (\A d \in made : d.op # "add") => PushesWaited(made)
    /\ \A s, x, A : x.start \in Control /\ (\A d \in A : d.op # "add")
                      => PushesWaited({AddCall(s, x)} \cup A)
    /\ \A s, x, y : x.start \in Control /\ y.start \in Control
                      => PushesWaited({AddCall(s, x)} \cup {AddCall(s, y)})
<1>1. \A t \in PushEdge : t.start \notin Control
  BY SummariesAssumption DEF PushEdge
<1>2. \A s, x, a, t : TellCall("add", a, t) = AddCall(s, x) => t = x
  BY SumConstructors
<1>3. \A a, t : TellCall("add", a, t).op = "add"
  BY SumConstructors
<1> QED BY <1>1, <1>2, <1>3 DEF PushesWaited

LEMMA NormalEffect ==
    ASSUME SumInv, SumFollowed, NEW c \in Innermost, OnNormal(c)
    PROVE  \E made : SumEffect(c, made)
<1> DEFINE r == c.l.rule
           x == Trans(r.s2, r.l2, c.t.target)
<1>1. HeardBy(c, "normal") /\ UNCHANGED summariesData
      /\ Return(c, IF c.t.label # r.l1 THEN <<>> ELSE <<Add(c.l.of, x)>>)
  BY DEF OnNormal
<1>2. /\ c.op = "hear" /\ c.l.kind = "normal" /\ c.t \in SumEdge
      /\ c.l.of \in Created /\ c.aut \in Automaton
      /\ \A T : SumClosed(T) => Bounded(T) /\ Holds(T, c.aut, c.t)
      /\ c.l \in SumListener /\ Hears(c.l, c.t)
  BY <1>1, SumHeard DEF RuleKind
<1>3. r \in Rules /\ r.kind = "normal" /\ c.l.s1 = r.s1
  BY <1>2, StateListenerFields DEF RuleKind
<1>4. c.t.start = r.s1
  BY <1>2, <1>3 DEF Hears, HearsIn
<1>5. r.s2 \in Control /\ r.l2 \in Label \ {Eps}
  BY <1>3, RulesTyped
<1>6. /\ x \in SumEdge /\ x.start \in Control /\ x.target = c.t.target
      /\ x.start \notin Generated /\ AddCall(c.l.of, x) \in SumCall /\ KnownCall(AddCall(c.l.of, x))
      /\ \A T : Holds(T, c.aut, x) => Carries(T, AddCall(c.l.of, x))
  <2>1. c.t.target \in SumTarget
    BY <1>2, EdgeFields
  <2>2. x \in SumEdge
    BY <1>5, <2>1, TransEdges
  <2>3. x.start \in Control /\ x.target = c.t.target /\ x.start \notin Generated
    BY <1>5, TransFieldsOf, SummariesAssumption
  <2> HIDE DEF x
  <2>4. /\ AddCall(c.l.of, x) \in SumCall /\ KnownCall(AddCall(c.l.of, x))
        /\ \A T : Holds(T, c.aut, x) => Carries(T, AddCall(c.l.of, x))
    BY <1>2, <2>2, <2>3, HearsOwn, PutThere
  <2> QED BY <2>2, <2>3, <2>4
<1>7. UNCHANGED <<trans, nested, summariesListeners, reached, started>> /\ connected' = connected
  BY <1>1 DEF summariesData, reports
<1>8. SumTypeOK
  BY DEF SumInv
<1>9. CASE c.t.label # r.l1
  <2>1. Return(c, <<>>)
    BY <1>1, <1>9
  <2>2. Moves(c, {}) /\ agenda' \in Seq(SUBSET SumCall)
    BY <1>8, <2>1, SumReturns
  <2>3. AsksOf(c.l, c.t, c.aut) = {} /\ ~Reports(c.l, c.t)
    BY <1>2, <1>9 DEF AsksOf, Reports
  <2>4. Deed(c, {})
    BY <1>2, <2>3, HearDeed
  <2>5. SumEffect(c, {})
    BY <1>7, <2>2, <2>4, NoPushes, SumQuietEffect
  <2> QED BY <2>5
<1>10. CASE c.t.label = r.l1
  <2>1. Return(c, <<{AddCall(c.l.of, x)}>>)
    BY <1>1, <1>10, SumLoops
  <2>2. Moves(c, {AddCall(c.l.of, x)}) /\ agenda' \in Seq(SUBSET SumCall)
    <3>1. {AddCall(c.l.of, x)} \in SUBSET SumCall
      BY <1>6
    <3> QED BY <1>8, <2>1, <3>1, SumReturns
  <2>3. AsksOf(c.l, c.t, c.aut) = {AddCall(c.l.of, x)} /\ ~Reports(c.l, c.t)
    BY <1>2, <1>10 DEF AsksOf, Reports
  <2>4. Deed(c, {AddCall(c.l.of, x)})
    BY <1>2, <2>3, HearDeed
  <2>5. ASSUME NEW T, SumClosed(T), Bounded(T)
        PROVE  Carries(T, AddCall(c.l.of, x))
    <3>1. Holds(T, c.aut, c.t)
      BY <1>2, <2>5
    <3>2. c.t \in T => x \in T
      BY <1>3, <1>4, <1>10, <2>5 DEF SumClosed
    <3>3. Holds(T, c.aut, x)
      BY <1>6, <3>1, <3>2 DEF Holds
    <3> QED BY <1>6, <3>3
  <2>6. KnownCall(AddCall(c.l.of, x)) /\ PushesWaited({AddCall(c.l.of, x)})
    BY <1>6, NoPushes
  <2>7. SumEffect(c, {AddCall(c.l.of, x)})
    BY <1>7, <2>2, <2>4, <2>5, <2>6, SumQuietEffect
  <2> QED BY <2>7
<1> QED BY <1>9, <1>10

LEMMA PopEffect ==
    ASSUME SumInv, SumFollowed, NEW c \in Innermost, OnPop(c)
    PROVE  \E made : SumEffect(c, made)
<1> DEFINE r == c.l.rule
           x == Trans(r.s2, Eps, c.t.target)
           lost == c.t.label = r.l1 /\ c.t.target \notin Generated
           l == Transitive(c.l.of, x)
           made == {AddCall(c.l.of, x)} \cup {RegisterCall(c.l.of, l)}
<1>1. HeardBy(c, "pop") /\ UNCHANGED <<trans, nested, summariesListeners, reached, connected, started>>
      /\ Return(c, IF c.t.label # r.l1 \/ lost THEN <<>>
                   ELSE <<Add(c.l.of, x), Register(c.l.of, l)>>)
  BY DEF OnPop
<1>2. /\ c.op = "hear" /\ c.l.kind = "pop" /\ c.t \in SumEdge /\ c.l.of \in Created
      /\ c.l.of \in Solver /\ c.aut \in Automaton
      /\ \A T : SumClosed(T) => Bounded(T) /\ Holds(T, c.aut, c.t)
      /\ c.l \in SumListener /\ Hears(c.l, c.t)
  BY <1>1, SumHeard DEF RuleKind
<1>3. r \in Rules /\ r.kind = "pop" /\ c.l.s1 = r.s1
  BY <1>2, StateListenerFields DEF RuleKind
<1>4. c.t.start = r.s1
  BY <1>2, <1>3 DEF Hears, HearsIn
<1>5. r.s2 \in Control
  BY <1>3, RulesTyped
<1>6. SumTypeOK
  BY DEF SumInv
<1>7. CASE c.t.label # r.l1 \/ lost
  <2>1. Return(c, <<>>)
    BY <1>1, <1>7
  <2>2. Moves(c, {}) /\ agenda' \in Seq(SUBSET SumCall)
    BY <1>6, <2>1, SumReturns
  <2>3. AsksOf(c.l, c.t, c.aut) = {} /\ ~Reports(c.l, c.t)
    BY <1>2, <1>7 DEF AsksOf, Reports
  <2>4. Deed(c, {})
    BY <1>2, <2>3, HearDeed
  <2>5. SumEffect(c, {})
    BY <1>1, <2>2, <2>4, NoPushes, SumQuietEffect
  <2> QED BY <2>5
<1>8. CASE c.t.label = r.l1 /\ ~lost
  <2>1. Return(c, <<{AddCall(c.l.of, x)}, {RegisterCall(c.l.of, l)}>>)
    BY <1>1, <1>8, SumLoops
  <2>2. /\ x \in EpsEdge /\ x \in SumEdge /\ x.start \in Control /\ x.target = c.t.target
        /\ x.start \notin Generated
    BY <1>5, <1>8, EdgeKinds, TransEdges, TransFieldsOf, SummariesAssumption
  <2>3. l \in SumListener /\ l.kind = "transitive" /\ l.t = x /\ l.of = c.l.of
    BY <1>2, <2>2, ListenersTyped DEF Transitive
  <2>4. c.l.of \in Automaton /\ Placed(c.l.of, c.l.of)
    BY <1>2, AutomatonKinds, PlacedFacts
  <2>5. /\ AddCall(c.l.of, x) \in SumCall /\ KnownCall(AddCall(c.l.of, x))
        /\ RegisterCall(c.l.of, l) \in SumCall /\ SummaryOf(c.l.of, x.target) = c.aut
        /\ \A T : Holds(T, c.aut, x) => Carries(T, AddCall(c.l.of, x))
    <3>0. PutBy(c.l.of, c.aut, c.t)
      BY <1>2, HearsOwn
    <3>1. RegisterCall(c.l.of, l) \in SumCall
      BY <2>3, <2>4, SumCallsTyped
    <3> HIDE DEF x
    <3> QED BY <1>2, <2>2, <3>0, <3>1, PutThere
  <2>6. Moves(c, made) /\ agenda' \in Seq(SUBSET SumCall)
    BY <1>6, <2>1, <2>5, SumReturns
  <2>7. Deed(c, made)
    <3>1. AsksOf(c.l, c.t, c.aut) = {AddCall(c.l.of, x)} /\ ~Reports(c.l, c.t)
      BY <1>2, <1>8 DEF AsksOf, Reports
    <3> QED BY <1>2, <3>1, HearDeed
  <2>8. KnownCall(AddCall(c.l.of, x)) /\ KnownCall(RegisterCall(c.l.of, l))
    <3>1. GoodListener(c.l.of, l)
      BY <1>2, <2>3, <2>4 DEF GoodListener
    <3> QED BY <2>5, <3>1, KnownFacts DEF KnownBy
  <2>9. ASSUME NEW T, SumClosed(T), Bounded(T)
        PROVE  Carries(T, AddCall(c.l.of, x)) /\ Carries(T, RegisterCall(c.l.of, l))
    <3>1. Holds(T, c.aut, c.t)
      BY <1>2, <2>9
    <3>2. c.t \in T => x \in T
      BY <1>3, <1>4, <1>8, <2>9 DEF SumClosed
    <3>3. Holds(T, c.aut, x)
      BY <2>2, <3>1, <3>2 DEF Holds
    <3>4. TrueListener(T, l)
      BY <2>3, <2>5, <3>3 DEF TrueListener
    <3> QED BY <2>5, <3>3, <3>4, CarriedFacts DEF CarriedBy
  <2>10. PushesWaited(made)
    <3>1. \A d \in {RegisterCall(c.l.of, l)} : d.op # "add"
      BY SumConstructors
    <3> QED BY <2>2, <3>1, NoPushes
  <2>11. \A d \in made : KnownCall(d)
    BY <2>8
  <2>12. \A T : SumClosed(T) /\ Bounded(T) => \A d \in made : Carries(T, d)
    BY <2>9
  <2> HIDE DEF made
  <2> QED BY <1>1, <2>6, <2>7, <2>10, <2>11, <2>12, SumQuietEffect
<1> QED BY <1>7, <1>8

LEMMA TransitiveEffect ==
    ASSUME SumInv, SumFollowed, NEW c \in Innermost, OnTransitive(c)
    PROVE  \E made : SumEffect(c, made)
<1> DEFINE x == Trans(c.l.t.start, c.t.label, c.t.target)
<1>1. HeardBy(c, "transitive") /\ UNCHANGED summariesData /\ Return(c, <<{AddCall(c.l.of, x)}>>)
  BY SumLoops DEF OnTransitive
<1>2. /\ c.op = "hear" /\ c.l.kind = "transitive" /\ c.t \in SumEdge
      /\ c.l.of \in Created /\ c.aut \in Automaton
      /\ \A T : SumClosed(T) => Bounded(T) /\ Holds(T, c.aut, c.t) /\ TrueListener(T, c.l)
      /\ c.l \in SumListener /\ Hears(c.l, c.t)
  BY <1>1, SumHeard DEF RuleKind
<1>3. c.l.t \in EpsEdge /\ c.l.t.target = c.t.start
  BY <1>2, StateListenerFields DEF Hears, HearsIn
<1>4. /\ c.l.t.start \in Control /\ c.t.start \in Generated /\ c.l.t.label = Eps
  BY <1>3 DEF EpsEdge
<1>5. /\ x \in SumEdge /\ x.start \in Control /\ x.target = c.t.target
      /\ x.start \notin Generated /\ AddCall(c.l.of, x) \in SumCall /\ KnownCall(AddCall(c.l.of, x))
      /\ \A T : Holds(T, c.aut, x) => Carries(T, AddCall(c.l.of, x))
  <2>1. x \in SumEdge
    BY <1>2, <1>4, TransEdges
  <2>2. x.start \in Control /\ x.target = c.t.target /\ x.start \notin Generated
    BY <1>4, TransFieldsOf, SummariesAssumption
  <2> HIDE DEF x
  <2> QED BY <1>2, <2>1, <2>2, HearsOwn, PutThere
<1>6. UNCHANGED <<trans, nested, summariesListeners, reached, started>> /\ connected' = connected
  BY <1>1 DEF summariesData, reports
<1>7. SumTypeOK
  BY DEF SumInv
<1>8. Moves(c, {AddCall(c.l.of, x)}) /\ agenda' \in Seq(SUBSET SumCall)
  <2>1. {AddCall(c.l.of, x)} \in SUBSET SumCall
    BY <1>5
  <2> QED BY <1>1, <1>7, <2>1, SumReturns
<1>9. Deed(c, {AddCall(c.l.of, x)})
  <2>1. AsksOf(c.l, c.t, c.aut) = {} /\ ~Reports(c.l, c.t)
    BY <1>2 DEF AsksOf, Reports
  <2> QED BY <1>2, <2>1, HearDeed
<1>10. ASSUME NEW T, SumClosed(T), Bounded(T)
       PROVE  Carries(T, AddCall(c.l.of, x))
  <2>1. Holds(T, c.aut, c.t) /\ Holds(T, SummaryOf(c.l.of, c.t.start), c.l.t)
    BY <1>2, <1>3, <1>10 DEF TrueListener
  <2>2. ASSUME Enters(T, c.aut) PROVE x \in T
    <3>1. c.t \in T /\ EntersCall(T, c.t.start)
      BY <1>4, <2>1, <2>2 DEF Holds
    <3>2. c.l.t \in T
      BY <1>2, <1>4, <2>1, <2>2, <3>1, EntersSummary DEF Holds
    <3> QED BY <1>3, <1>4, <1>10, <3>1, <3>2 DEF SumClosed
  <2>3. Holds(T, c.aut, x)
    BY <1>5, <2>2 DEF Holds
  <2> QED BY <1>5, <2>3
<1>11. KnownCall(AddCall(c.l.of, x)) /\ PushesWaited({AddCall(c.l.of, x)})
  BY <1>5, NoPushes
<1>12. SumEffect(c, {AddCall(c.l.of, x)})
  BY <1>6, <1>8, <1>9, <1>10, <1>11, SumQuietEffect
<1> QED BY <1>12
LEMMA PushEffect ==
    ASSUME SumInv, SumFollowed, NEW c \in Innermost, OnPush(c)
    PROVE  \E made : SumEffect(c, made)
<1> DEFINE r == c.l.rule
           ir == EntryState(r)
           push == PushOf(r, c.t)
           entry == EntryOf(r)
           at == EntryAt(c.l)
           ul == SummaryListener(c.l.of, push)
           sl == Epsilon(c.l.of, push, r.l1)
           d1 == AddCall(c.l.of, push)
           d2 == NestCall(c.aut, at)
           d3 == AddCall(c.l.of, entry)
           d4 == UpdateCall(at, ul)
           d5 == RegisterCall(c.l.of, sl)
           made == {d1} \cup {d2} \cup {d3} \cup {d4} \cup {d5}
<1>1. HeardBy(c, "push") /\ UNCHANGED summariesData
      /\ (c.t.label # r.l1 => Return(c, <<>>))
      /\ (c.t.label = r.l1 => Return(c, <<{d1}, {d2}, {d3}, {d4}, {d5}>>))
  BY SumLoops DEF OnPush, EntryAt, EntryState, PushOf, EntryOf
<1>2. /\ c.op = "hear" /\ c.l.kind = "push" /\ c.t \in SumEdge /\ c.l.of \in Created
      /\ c.l.of \in Solver /\ c.aut \in Automaton
      /\ \A T : SumClosed(T) => Bounded(T) /\ Holds(T, c.aut, c.t)
      /\ c.l \in SumListener /\ Hears(c.l, c.t)
  BY <1>1, SumHeard DEF RuleKind
<1>3. r \in Rules /\ r.kind = "push" /\ c.l.s1 = r.s1
  BY <1>2, StateListenerFields DEF RuleKind
<1>4. c.t.start = r.s1
  BY <1>2, <1>3 DEF Hears, HearsIn
<1>5. UNCHANGED <<trans, nested, summariesListeners, reached, started>> /\ connected' = connected
  BY <1>1 DEF summariesData, reports
<1>6. SumTypeOK
  BY DEF SumInv
<1>7. CASE c.t.label # r.l1
  <2>1. Moves(c, {}) /\ agenda' \in Seq(SUBSET SumCall)
    BY <1>1, <1>6, <1>7, SumReturns
  <2>2. AsksOf(c.l, c.t, c.aut) = {} /\ ~Reports(c.l, c.t)
    BY <1>2, <1>7 DEF AsksOf, Reports
  <2>3. Deed(c, {})
    BY <1>2, <2>2, HearDeed
  <2>4. SumEffect(c, {})
    BY <1>5, <2>1, <2>3, NoPushes, SumQuietEffect
  <2> QED BY <2>4
<1>8. CASE c.t.label = r.l1
  <2>1. /\ ir \in Generated /\ ir \in Automaton /\ entry \in SumEdge /\ entry.target = ir
        /\ entry.start \in Control
        /\ \A T : entry \in T => EntersCall(T, ir)
        /\ \A T : EntersCall(T, ir) => entry \in T
        /\ push \in PushEdge /\ push \in SumEdge /\ push.start = ir /\ push.target = c.t.target
    BY <1>2, <1>3, EntryFacts, EdgeKinds, AutomatonKinds
  <2>2. /\ ul \in UpdateListener /\ ul.kind = "summary" /\ ul.t = push
        /\ sl \in SumListener /\ sl.kind = "epsilon" /\ sl.of = c.l.of
    BY <1>2, <1>3, <2>1, RulesTyped, ListenersTyped DEF SummaryListener, Epsilon
  <2>3. c.l.of \in Automaton /\ Placed(c.l.of, c.l.of) /\ Placed(c.l.of, c.aut)
        /\ PutBy(c.l.of, c.aut, c.t)
    BY <1>2, AutomatonKinds, PlacedFacts, HearsOwn
  <2>14. /\ at = SummaryOf(c.l.of, ir) /\ at \in Automaton
         /\ at \in Solver \/ at = ir
    BY <1>2, <2>1, AlikePlaces, SummaryFacts DEF EntryAt
  <2> HIDE DEF at, ir, push, entry, sl
  <2>15. /\ Proper(c.l.of, push) /\ SummaryOf(c.l.of, push.target) = c.aut
         /\ d1 \in SumCall /\ KnownCall(d1) /\ \A T : Holds(T, c.aut, push) => Carries(T, d1)
    BY <1>2, <2>1, <2>3, PutThere
  <2>16. /\ Proper(c.l.of, entry) /\ SummaryOf(c.l.of, entry.target) = at
    BY <2>1, <2>14 DEF Proper
  <2>4. d1 \in SumCall /\ d2 \in SumCall /\ d3 \in SumCall /\ d4 \in SumCall /\ d5 \in SumCall
    <3>1. d3 \in SumCall
      BY <2>1, <2>14, <2>16, SumConstructors, SumCallsTyped
    <3>2. d2 \in SumCall /\ d4 \in SumCall /\ d5 \in SumCall
      BY <1>2, <2>2, <2>3, <2>14, SumCallsTyped
    <3> QED BY <2>15, <3>1, <3>2
  <2>5. KnownCall(d1) /\ KnownCall(d2) /\ KnownCall(d3) /\ KnownCall(d4) /\ KnownCall(d5)
    <3>1. GoodListener(at, ul) /\ GoodListener(c.l.of, sl)
      BY <1>2, <2>2, <2>3, <2>15 DEF GoodListener, SummaryListener
    <3>2. NestPlace(c.aut, at)
      <4>1. c.aut \in Solver => c.aut \in Created
        BY <1>2, <2>3, PlacedOwn
      <4> QED BY <1>2, <2>1, <2>14, <4>1 DEF NestPlace
    <3>3. KnownCall(d3)
      BY <1>2, <2>16, KnownFacts DEF KnownBy
    <3>4. KnownCall(d2) /\ KnownCall(d4) /\ KnownCall(d5)
      BY <3>1, <3>2, KnownFacts DEF KnownBy
    <3> QED BY <2>15, <3>3, <3>4
  <2>6. ASSUME NEW T, SumClosed(T), Bounded(T)
        PROVE  /\ Carries(T, d1) /\ Carries(T, d2) /\ Carries(T, d3) /\ Carries(T, d4)
               /\ Carries(T, d5)
    <3>1. Holds(T, c.aut, c.t)
      BY <1>2, <2>6
    <3>2. c.t \in T => push \in T /\ entry \in T
      BY <1>3, <1>4, <1>8, <2>6 DEF SumClosed, push, entry
    <3>3. Holds(T, c.aut, push)
      BY <2>1, <3>1, <3>2 DEF Holds
    <3>4. Leads(T, c.aut, at)
      <4>1. CASE at = ir
        BY <2>1, <3>1, <3>2, <4>1 DEF Holds, Leads
      <4>2. CASE at \in Solver
        BY <4>2, SummariesAssumption DEF Leads, EntersCall
      <4> QED BY <2>14, <4>1, <4>2
    <3>5. Holds(T, at, entry)
      <4>1. CASE AllStarts(T)
        <5>1. entry \in T
          BY <3>1, <3>2, <4>1 DEF Holds, Enters
        <5> QED BY <2>1, <5>1, SummariesAssumption DEF Holds
      <4>2. CASE Sharing /\ EntersCall(T, at)
        <5>1. at = ir
          BY <1>2, <2>1, <2>14, <4>2, SummaryFacts DEF Sharing, Created
        <5> QED BY <2>1, <4>2, <5>1, SummariesAssumption DEF Holds
      <4> QED BY <4>1, <4>2 DEF Holds, Enters
    <3>6. TrueListener(T, ul) /\ TrueListener(T, sl)
      BY <2>2, <2>15, <3>3 DEF TrueListener, SummaryListener
    <3>7. Carries(T, d3)
      BY <2>16, <3>5, CarriedFacts DEF CarriedBy
    <3>8. Carries(T, d2) /\ Carries(T, d4) /\ Carries(T, d5)
      BY <3>4, <3>6, CarriedFacts DEF CarriedBy
    <3> QED BY <2>15, <3>3, <3>7, <3>8
  <2>7. PushesWaited(made)
    <3> SUFFICES ASSUME NEW t \in PushEdge, NEW a \in Automaton, TellCall("add", a, t) \in made
                 PROVE  PutBy(c.l.of, a, t)
                        /\ UpdateCall(SummaryAt(c.l.of, t), SummaryListener(c.l.of, t)) \in made
      BY <1>2 DEF PushesWaited
    <3>1. t # entry
      BY <2>1, SummariesAssumption DEF PushEdge
    <3>2. t = push /\ a = SummaryOf(c.l.of, push.target)
      BY <3>1, SumConstructors
    <3>3. SummaryAt(c.l.of, push) = at
      BY <2>1, <2>14 DEF SummaryAt
    <3> QED BY <2>15, <3>2, <3>3 DEF PutBy
  <2>8. AsksOf(c.l, c.t, c.aut) \subseteq made /\ ~Reports(c.l, c.t)
    <3>1. AsksOf(c.l, c.t, c.aut) = {d1, d2, d3, d4, d5}
      BY <1>2, <1>8 DEF AsksOf, at, ir, push, entry, sl
    <3> QED BY <1>2, <3>1 DEF Reports
  <2> HIDE DEF d1, d2, d3, d4, d5
  <2>9. Moves(c, made) /\ agenda' \in Seq(SUBSET SumCall)
    <3>1. {d1} \in SUBSET SumCall /\ {d2} \in SUBSET SumCall /\ {d3} \in SUBSET SumCall
          /\ {d4} \in SUBSET SumCall /\ {d5} \in SUBSET SumCall
      BY <2>4
    <3>2. Return(c, <<{d1}, {d2}, {d3}, {d4}, {d5}>>)
      BY <1>1, <1>8
    <3> QED BY <1>6, <3>1, <3>2, SumReturns
  <2>10. \A d \in made : KnownCall(d)
    BY <2>5
  <2>11. \A T : SumClosed(T) /\ Bounded(T) => \A d \in made : Carries(T, d)
    BY <2>6
  <2> HIDE DEF made
  <2>12. Deed(c, made)
    BY <1>2, <2>8, HearDeed
  <2>13. SumEffect(c, made)
    BY <1>5, <2>7, <2>9, <2>10, <2>11, <2>12, SumQuietEffect
  <2> QED BY <2>13
<1> QED BY <1>7, <1>8

LEMMA EpsilonEffect ==
    ASSUME SumInv, SumFollowed, NEW c \in Innermost, OnEpsilon(c)
    PROVE  \E made : SumEffect(c, made)
<1>1. /\ HeardBy(c, "epsilon") /\ Return(c, <<>>)
      /\ UNCHANGED <<trans, nested, summariesListeners, reached, unbalanced, started>>
      /\ connected' = IF c.t.label # Eps THEN connected
                      ELSE connected \cup {<<c.l.of, c.l.callSite, c.l.t.label, c.t.start>>}
  BY DEF OnEpsilon
<1>2. c.op = "hear" /\ c.l.kind = "epsilon"
  BY <1>1, SumHeard
<1>3. SumTypeOK
  BY DEF SumInv
<1>4. Moves(c, {}) /\ agenda' \in Seq(SUBSET SumCall)
  BY <1>1, <1>3, SumReturns
<1>5. Deed(c, {})
  <2>1. AsksOf(c.l, c.t, c.aut) = {}
    BY <1>2 DEF AsksOf
  <2>2. Reports(c.l, c.t) => ReportOf(c.l, c.t) \in connected'
    BY <1>1 DEF Reports, ReportOf
  <2> QED BY <1>2, <2>1, <2>2, HearDeed
<1>6. SumEffect(c, {})
  BY <1>1, <1>4, <1>5, NoPushes, SumQuietEffect
<1> QED BY <1>6

LEMMA SummaryEffect ==
    ASSUME SumInv, SumFollowed, NEW c \in Innermost, OnSummary(c)
    PROVE  \E made : SumEffect(c, made)
<1> DEFINE x == Trans(c.t.start, c.l.t.label, c.l.t.target)
           d1 == AddCall(c.l.of, c.t)
           d2 == AddCall(c.l.of, x)
           made == {d1} \cup {d2}
           ends == c.t.label = Eps /\ c.t.target = c.l.t.start
<1>1. HeardBy(c, "summary") /\ UNCHANGED summariesData
      /\ Return(c, IF ends THEN <<{d1}, {d2}>> ELSE <<>>)
  BY SumLoops DEF OnSummary
<1>2. /\ c.op = "hear" /\ c.l.kind = "summary" /\ c.t \in SumEdge
      /\ c.l.of \in Created /\ GoodListener(c.aut, c.l) /\ InPlace(c.aut, c.t)
      /\ \A T : SumClosed(T) => Bounded(T) /\ Holds(T, c.aut, c.t) /\ TrueListener(T, c.l)
      /\ c.l \in UpdateListener
  BY <1>1, SumHeard
<1>3. c.l.t \in PushEdge /\ Proper(c.l.of, c.l.t)
  BY <1>2, UpdateListenerFields DEF GoodListener
<1>4. UNCHANGED <<trans, nested, summariesListeners, reached, started>> /\ connected' = connected
  BY <1>1 DEF summariesData, reports
<1>5. SumTypeOK
  BY DEF SumInv
<1>6. CASE ~ends
  <2>1. Moves(c, {}) /\ agenda' \in Seq(SUBSET SumCall)
    BY <1>1, <1>5, <1>6, SumReturns
  <2>2. AsksOf(c.l, c.t, c.aut) = {} /\ ~Reports(c.l, c.t)
    BY <1>2, <1>6 DEF AsksOf, Reports
  <2>3. Deed(c, {})
    BY <1>2, <2>2, HearDeed
  <2>4. SumEffect(c, {})
    BY <1>4, <2>1, <2>3, NoPushes, SumQuietEffect
  <2> QED BY <2>4
<1>7. CASE ends
  <2>1. /\ c.t.start \in Control /\ c.l.t.start \in Generated
        /\ c.l.t.label \in Label \ {Eps} /\ c.l.t.target \in SumTarget
        /\ c.t.target \in Generated
    BY <1>2, <1>3, <1>7, EdgeFields DEF PushEdge
  <2>2. /\ x \in SumEdge /\ x.start \in Control /\ x.target = c.l.t.target
        /\ x.start \notin Generated
    BY <2>1, TransEdges, TransFieldsOf, SummariesAssumption
  <2>13. SummaryOf(c.l.of, c.t.target) = c.aut
    <3>1. PICK u \in Created : PutBy(u, c.aut, c.t)
      BY <1>2 DEF InPlace
    <3> QED BY <1>2, <2>1, <3>1, AlikePlaces DEF PutBy
  <2> HIDE DEF x
  <2>14. PutBy(c.l.of, c.aut, c.t) /\ PutBy(c.l.of, SummaryOf(c.l.of, c.l.t.target), c.l.t)
         /\ c.aut \in Automaton /\ SummaryOf(c.l.of, c.l.t.target) \in Automaton
    <3>1. c.aut \in Automaton
      BY <1>2, <2>1, <2>13, AlikePlaces
    <3>2. SummaryOf(c.l.of, c.l.t.target) \in Automaton
      BY <1>2, <1>3, AlikePlaces, CreatedFacts, SummaryFacts, AutomatonKinds DEF Proper
    <3> QED BY <1>3, <2>1, <2>13, <3>1, <3>2 DEF PutBy, Proper
  <2>15. d1 \in SumCall /\ KnownCall(d1) /\ \A T : Holds(T, c.aut, c.t) => Carries(T, d1)
    BY <1>2, <2>14, PutThere
  <2>16. /\ d2 \in SumCall /\ KnownCall(d2)
         /\ \A T : Holds(T, SummaryOf(c.l.of, c.l.t.target), x) => Carries(T, d2)
    BY <1>2, <2>2, <2>14, PutThere
  <2>3. d1 \in SumCall /\ d2 \in SumCall
    BY <2>15, <2>16
  <2>4. KnownCall(d1) /\ KnownCall(d2)
    BY <2>15, <2>16
  <2>5. ASSUME NEW T, SumClosed(T), Bounded(T)
        PROVE  Carries(T, d1) /\ Carries(T, d2)
    <3>1. Holds(T, c.aut, c.t) /\ Holds(T, SummaryOf(c.l.of, c.l.t.target), c.l.t)
      BY <1>2, <2>5 DEF TrueListener
    <3>2. ASSUME Enters(T, SummaryOf(c.l.of, c.l.t.target)) PROVE x \in T
      <4>1. c.l.t \in T /\ EntersCall(T, c.l.t.start)
        BY <2>1, <3>1, <3>2 DEF Holds
      <4>2. c.t \in T
        BY <1>2, <1>7, <2>1, <2>13, <3>1, <3>2, <4>1, EntersSummary DEF Holds
      <4> QED BY <1>7, <2>5, <4>1, <4>2 DEF SumClosed, x
    <3>3. Holds(T, SummaryOf(c.l.of, c.l.t.target), x)
      BY <2>2, <3>2 DEF Holds
    <3> QED BY <2>15, <2>16, <3>1, <3>3
  <2>6. PushesWaited(made)
    BY <2>1, <2>2, NoPushes
  <2>7. AsksOf(c.l, c.t, c.aut) \subseteq made /\ ~Reports(c.l, c.t)
    <3>1. AsksOf(c.l, c.t, c.aut) = {d2}
      BY <1>2, <1>7 DEF AsksOf, x
    <3> QED BY <1>2, <3>1 DEF Reports
  <2> HIDE DEF d1, d2
  <2>8. Moves(c, made) /\ agenda' \in Seq(SUBSET SumCall)
    BY <1>1, <1>5, <1>7, <2>3, SumReturns
  <2>9. \A d \in made : KnownCall(d)
    BY <2>4
  <2>10. \A T : SumClosed(T) /\ Bounded(T) => \A d \in made : Carries(T, d)
    BY <2>5
  <2> HIDE DEF made
  <2>11. Deed(c, made)
    BY <1>2, <2>7, HearDeed
  <2>12. SumEffect(c, made)
    BY <1>4, <2>6, <2>8, <2>9, <2>10, <2>11, SumQuietEffect
  <2> QED BY <2>12
<1> QED BY <1>6, <1>7

LEMMA EnteredEffect ==
    ASSUME SumInv, SumFollowed, NEW c \in Innermost, OnEntered(c)
    PROVE  \E made : SumEffect(c, made)
<1> DEFINE l == OnOutTransitionAddToState(c.l.of, c.t)
           d == RegisterCall(c.l.parent, l)
<1>1. HeardBy(c, "entered") /\ UNCHANGED summariesData
      /\ Return(c, IF c.t.label # Eps THEN <<>> ELSE <<{d}>>)
  BY SumLoops DEF OnEntered
<1>2. /\ c.op = "hear" /\ c.l.kind = "entered" /\ c.t \in SumEdge /\ c.l.of \in Created
      /\ c.l.of \in Solver /\ GoodListener(c.aut, c.l)
      /\ \A T : SumClosed(T) => Bounded(T) /\ Holds(T, c.aut, c.t)
      /\ c.l \in SumListener
  BY <1>1, SumHeard DEF RuleKind
<1>3. UNCHANGED <<trans, nested, summariesListeners, reached, started>> /\ connected' = connected
  BY <1>1 DEF summariesData, reports
<1>4. SumTypeOK
  BY DEF SumInv
<1>5. AsksOf(c.l, c.t, c.aut) = {} /\ ~Reports(c.l, c.t)
  BY <1>2 DEF AsksOf, Reports
<1>6. CASE c.t.label # Eps
  <2>1. Moves(c, {}) /\ agenda' \in Seq(SUBSET SumCall)
    BY <1>1, <1>4, <1>6, SumReturns
  <2>2. Deed(c, {})
    BY <1>2, <1>5, HearDeed
  <2>3. SumEffect(c, {})
    BY <1>3, <2>1, <2>2, NoPushes, SumQuietEffect
  <2> QED BY <2>3
<1>7. CASE c.t.label = Eps
  <2>1. c.t \in EpsEdge
    BY <1>2, <1>7, EdgeFields
  <2>2. /\ l \in SumListener /\ l.kind = "returned" /\ l.of = c.l.of /\ l.t = c.t
    BY <1>2, <2>1, ListenersTyped DEF OnOutTransitionAddToState
  <2>3. c.l.parent \in Automaton /\ Placed(c.l.of, c.l.parent) /\ Placed(c.l.of, c.aut)
    BY <1>2, StateListenerFields DEF GoodListener
  <2>4. KnownCall(d)
    <3>1. GoodListener(c.l.parent, l)
      BY <1>2, <2>2, <2>3 DEF GoodListener
    <3> QED BY <3>1, KnownFacts DEF KnownBy
  <2>5. ASSUME NEW T, SumClosed(T), Bounded(T)
        PROVE  Carries(T, d)
    <3>1. Holds(T, c.aut, c.t)
      BY <1>2, <2>5
    <3>2. Enters(T, c.l.of) => c.t \in T
      BY <1>2, <1>4, <2>3, <2>5, <3>1, PlacedEnters DEF Holds
    <3>3. TrueListener(T, l)
      BY <2>2, <3>2 DEF TrueListener
    <3> QED BY <3>3, CarriedFacts DEF CarriedBy
  <2>6. PushesWaited({d})
    <3>1. \A e \in {d} : e.op # "add"
      BY SumConstructors
    <3> QED BY <3>1, NoPushes
  <2>7. d \in SumCall
    BY <2>2, <2>3, SumCallsTyped
  <2> HIDE DEF d
  <2>8. Moves(c, {d}) /\ agenda' \in Seq(SUBSET SumCall)
    BY <1>1, <1>4, <1>7, <2>7, SumReturns
  <2>9. Deed(c, {d})
    BY <1>2, <1>5, HearDeed
  <2>10. SumEffect(c, {d})
    BY <1>3, <2>4, <2>5, <2>6, <2>8, <2>9, SumQuietEffect
  <2> QED BY <2>10
<1> QED BY <1>6, <1>7

LEMMA ReturnedEffect ==
    ASSUME SumInv, SumFollowed, NEW c \in Innermost, OnReturned(c)
    PROVE  \E made : SumEffect(c, made)
<1> DEFINE n == <<c.t.label, c.l.t.start>>
           d == ReachCall(c.l.of, n)
<1>1. HeardBy(c, "returned") /\ UNCHANGED summariesData /\ Return(c, <<{d}>>)
  BY SumLoops DEF OnReturned
<1>2. /\ c.op = "hear" /\ c.l.kind = "returned" /\ c.t \in SumEdge /\ c.l.of \in Created
      /\ c.l.of \in Solver /\ GoodListener(c.aut, c.l)
      /\ \A T : SumClosed(T) => Bounded(T) /\ Holds(T, c.aut, c.t) /\ TrueListener(T, c.l)
      /\ c.l \in SumListener /\ Hears(c.l, c.t)
  BY <1>1, SumHeard DEF RuleKind
<1>3. UNCHANGED <<trans, nested, summariesListeners, reached, started>> /\ connected' = connected
  BY <1>1 DEF summariesData, reports
<1>4. SumTypeOK
  BY DEF SumInv
<1>5. AsksOf(c.l, c.t, c.aut) = {} /\ ~Reports(c.l, c.t)
  BY <1>2 DEF AsksOf, Reports
<1>6. c.l.t \in EpsEdge /\ c.l.t.target = c.t.start /\ Placed(c.l.of, c.aut)
  BY <1>2, StateListenerFields DEF Hears, HearsIn, GoodListener
<1>7. c.l.t.start \in Control /\ c.l.t.label = Eps /\ c.t.label \in Label
      /\ c.l.t.start \in State /\ c.l.t.start \notin Generated
  BY <1>2, <1>6, EdgeFields, SummariesAssumption DEF EpsEdge, State
<1>8. d \in SumCall
  BY <1>2, <1>7, SumCallsTyped
<1>9. KnownCall(d)
  BY <1>2, KnownFacts DEF KnownBy
<1>10. ASSUME NEW T, SumClosed(T), Bounded(T)
       PROVE  Carries(T, d)
  <2>1. ASSUME Enters(T, c.l.of)
        PROVE  \E t \in T : t.start \notin Generated /\ n = <<t.label, t.start>>
    <3> DEFINE x == Trans(c.l.t.start, c.t.label, c.t.target)
    <3>1. c.l.t \in T
      BY <1>2, <1>10, <2>1 DEF TrueListener
    <3>2. c.t \in T
      BY <1>2, <1>4, <1>6, <1>10, <2>1, PlacedEnters DEF Holds
    <3>3. x \in T
      BY <1>6, <1>7, <1>10, <3>1, <3>2 DEF SumClosed
    <3>4. x.start = c.l.t.start /\ x.label = c.t.label
      BY TransFieldsOf
    <3> QED BY <1>7, <3>3, <3>4
  <2>2. ReachHolds(T, c.l.of, n)
    BY <2>1 DEF ReachHolds
  <2> QED BY <2>2, CarriedFacts DEF CarriedBy
<1>11. PushesWaited({d})
  <2>1. \A e \in {d} : e.op # "add"
    BY SumConstructors
  <2> QED BY <2>1, NoPushes
<1> HIDE DEF d
<1>12. Moves(c, {d}) /\ agenda' \in Seq(SUBSET SumCall)
  BY <1>1, <1>4, <1>8, SumReturns
<1>13. Deed(c, {d})
  BY <1>2, <1>5, HearDeed
<1>14. SumEffect(c, {d})
  BY <1>3, <1>9, <1>10, <1>11, <1>12, <1>13, SumQuietEffect
<1> QED BY <1>14

LEMMA WeightEffect ==
    ASSUME SumInv, SumFollowed, NEW c \in Innermost, OnWeightAdded(c)
    PROVE  \E made : SumEffect(c, made)
<1> DEFINE n == <<c.t.label, c.t.start>>
           d == ReachCall(c.l.of, n)
<1>1. HeardBy(c, "reach") /\ UNCHANGED summariesData
      /\ Return(c, IF c.t.start \in Generated THEN <<>> ELSE <<{d}>>)
  BY SumLoops DEF OnWeightAdded
<1>2. /\ c.op = "hear" /\ c.l.kind = "reach" /\ c.t \in SumEdge /\ c.l.of \in Created
      /\ c.l.of \in Solver /\ GoodListener(c.aut, c.l)
      /\ \A T : SumClosed(T) => Bounded(T) /\ Holds(T, c.aut, c.t)
      /\ c.l \in UpdateListener
  BY <1>1, SumHeard
<1>3. UNCHANGED <<trans, nested, summariesListeners, reached, started>> /\ connected' = connected
  BY <1>1 DEF summariesData, reports
<1>4. SumTypeOK
  BY DEF SumInv
<1>5. CASE c.t.start \in Generated
  <2>1. Moves(c, {}) /\ agenda' \in Seq(SUBSET SumCall)
    BY <1>1, <1>4, <1>5, SumReturns
  <2>2. AsksOf(c.l, c.t, c.aut) = {} /\ ~Reports(c.l, c.t)
    BY <1>2, <1>5 DEF AsksOf, Reports
  <2>3. Deed(c, {})
    BY <1>2, <2>2, HearDeed
  <2>4. SumEffect(c, {})
    BY <1>3, <2>1, <2>3, NoPushes, SumQuietEffect
  <2> QED BY <2>4
<1>6. CASE c.t.start \notin Generated
  <2>1. Placed(c.l.of, c.aut) /\ c.t.label \in Label /\ c.t.start \in State
    BY <1>2, EdgeFields DEF GoodListener, State
  <2>2. d \in SumCall
    BY <1>2, <2>1, SumCallsTyped
  <2>3. KnownCall(d)
    BY <1>2, KnownFacts DEF KnownBy
  <2>4. ASSUME NEW T, SumClosed(T), Bounded(T)
        PROVE  Carries(T, d)
    <3>1. Holds(T, c.aut, c.t)
      BY <1>2, <2>4
    <3>2. Enters(T, c.l.of) => c.t \in T
      BY <1>2, <1>4, <2>1, <2>4, <3>1, PlacedEnters DEF Holds
    <3>3. ReachHolds(T, c.l.of, n)
      BY <1>6, <3>2 DEF ReachHolds
    <3> QED BY <3>3, CarriedFacts DEF CarriedBy
  <2>5. PushesWaited({d})
    <3>1. \A e \in {d} : e.op # "add"
      BY SumConstructors
    <3> QED BY <3>1, NoPushes
  <2>6. AsksOf(c.l, c.t, c.aut) = {d} /\ ~Reports(c.l, c.t)
    BY <1>2, <1>6 DEF AsksOf, Reports
  <2> HIDE DEF d
  <2>7. Moves(c, {d}) /\ agenda' \in Seq(SUBSET SumCall)
    BY <1>1, <1>4, <1>6, <2>2, SumReturns
  <2>8. Deed(c, {d})
    BY <1>2, <2>6, HearDeed
  <2>9. SumEffect(c, {d})
    BY <1>3, <2>3, <2>4, <2>5, <2>7, <2>8, SumQuietEffect
  <2> QED BY <2>9
<1> QED BY <1>5, <1>6
\* An element of a relation on the automata is what it is at its automaton.
LEMMA PairsAt ==
    ASSUME NEW S, NEW B, NEW R, R \subseteq S \X B
    PROVE  /\ \A a, b : (\E p \in R : p[1] = a /\ p[2] = b) <=> <<a, b>> \in R
           /\ \A p \in R : p = <<p[1], p[2]>> /\ p[1] \in S /\ p[2] \in B
<1>1. \A p \in R : p = <<p[1], p[2]>> /\ p[1] \in S /\ p[2] \in B
  OBVIOUS
<1>2. \A a, b : <<a, b>>[1] = a /\ <<a, b>>[2] = b
  OBVIOUS
<1> QED BY <1>1, <1>2

LEMMA SumAt ==
    ASSUME SumInv
    PROVE  /\ \A a, l : l \in At(stateListeners, a) <=> <<a, l>> \in stateListeners
           /\ \A a, l : l \in At(updateListeners, a) <=> <<a, l>> \in updateListeners
           /\ \A a, s : s \in At(nestedListeners, a) <=> <<a, s>> \in nestedListeners
           /\ \A a, b : b \in NestedIn(a) <=> <<a, b>> \in nested
           /\ \A a, t : t \in In(a) <=> <<a, t>> \in trans
           /\ \A a, l : <<a, l>> \in stateListeners => /\ a \in Automaton /\ l \in SumListener
                                                       /\ GoodListener(a, l)
           /\ \A a, l : <<a, l>> \in updateListeners => /\ a \in Automaton /\ l \in UpdateListener
                                                        /\ GoodListener(a, l)
           /\ \A a, s : <<a, s>> \in nestedListeners => s \in Solver /\ s \in Created /\ Placed(s, a)
           /\ \A a, b : <<a, b>> \in nested => a \in Automaton /\ b \in Automaton
           /\ \A a, t : <<a, t>> \in trans => a \in Automaton /\ t \in SumEdge /\ InPlace(a, t)
<1>1. /\ stateListeners \subseteq Automaton \X SumListener
      /\ updateListeners \subseteq Automaton \X UpdateListener
      /\ nestedListeners \subseteq Automaton \X Solver
      /\ nested \subseteq Automaton \X Automaton
      /\ trans \subseteq Automaton \X SumEdge /\ \A u \in trans : InPlace(u[1], u[2])
  BY DEF SumInv, SumTypeOK
<1>2. \A p \in stateListeners \cup updateListeners : GoodListener(p[1], p[2])
  BY DEF SumInv
<1>3. \A a, b : <<a, b>>[1] = a /\ <<a, b>>[2] = b
  OBVIOUS
<1>4. /\ \A a, l : l \in At(stateListeners, a) <=> <<a, l>> \in stateListeners
      /\ \A a, l : <<a, l>> \in stateListeners => /\ a \in Automaton /\ l \in SumListener
                                                  /\ GoodListener(a, l)
  BY <1>1, <1>2, <1>3, AtFacts, PairsAt
<1>5. /\ \A a, l : l \in At(updateListeners, a) <=> <<a, l>> \in updateListeners
      /\ \A a, l : <<a, l>> \in updateListeners => /\ a \in Automaton /\ l \in UpdateListener
                                                   /\ GoodListener(a, l)
  BY <1>1, <1>2, <1>3, AtFacts, PairsAt
<1>6. /\ \A a, s : s \in At(nestedListeners, a) <=> <<a, s>> \in nestedListeners
      /\ \A a, s : <<a, s>> \in nestedListeners => s \in Solver /\ s \in Created /\ Placed(s, a)
  BY <1>1, <1>3, AtFacts, PairsAt DEF SumInv
<1>7. /\ \A a, b : b \in NestedIn(a) <=> <<a, b>> \in nested
      /\ \A a, b : <<a, b>> \in nested => a \in Automaton /\ b \in Automaton
  BY <1>1, <1>3, AtFacts, PairsAt, AutomatonKinds
<1>8. /\ \A a, t : t \in In(a) <=> <<a, t>> \in trans
      /\ \A a, t : <<a, t>> \in trans => a \in Automaton /\ t \in SumEdge /\ InPlace(a, t)
  BY <1>1, <1>3, AtFacts, PairsAt
<1> QED BY <1>4, <1>5, <1>6, <1>7, <1>8

LEMMA NotifyEffect ==
    ASSUME SumInv, SumFollowed, NEW c \in Innermost, NotifyListeners(c)
    PROVE  \E made : SumEffect(c, made)
<1> DEFINE ls == IF c.op = "updates" THEN At(updateListeners, c.aut)
                 ELSE {l \in At(stateListeners, c.aut) :
                         IF c.op = "in" THEN HearsIn(l) /\ l.s1 = c.t.target
                         ELSE ~HearsIn(l) /\ l.s1 = c.t.start}
           made == Hear(ls, {c.t}, c.aut)
<1>1. c.op \in Telling /\ Return(c, <<made>>) /\ UNCHANGED summariesData
  BY DEF NotifyListeners, Telling
<1>2. /\ c \in SumCall /\ KnownCall(c)
      /\ \A T : SumClosed(T) => Bounded(T) /\ Carries(T, c)
  BY SumCallAt
<1>3. c.aut \in Automaton /\ c.t \in SumEdge /\ <<c.aut, c.t>> \in trans
  BY <1>1, <1>2, SumCallRecords DEF KnownCall
<1>4. \A l \in ls : /\ l \in SumListener \cup UpdateListener /\ GoodListener(c.aut, l)
                    /\ l \in SumListener => Hears(l, c.t)
                    /\ <<c.aut, l>> \in stateListeners \cup updateListeners
  <2>1. CASE c.op = "updates"
    <3>1. \A l \in UpdateListener : l \notin SumListener
      BY StateListenerFields, UpdateListenerFields DEF RuleKind
    <3> QED BY <2>1, <3>1, SumAt
  <2>2. CASE c.op # "updates"
    <3> SUFFICES ASSUME NEW l \in ls
                 PROVE  /\ l \in SumListener /\ GoodListener(c.aut, l) /\ Hears(l, c.t)
                        /\ <<c.aut, l>> \in stateListeners
      OBVIOUS
    <3>1. <<c.aut, l>> \in stateListeners /\ l.s1 = IF HearsIn(l) THEN c.t.target ELSE c.t.start
      BY <2>2, SumAt
    <3> QED BY <3>1, SumAt DEF Hears
  <2> QED BY <2>1, <2>2
<1>5. \A p \in stateListeners : p[1] = c.aut /\ Hears(p[2], c.t) /\ Direction(p[2]) = c.op
        => p[2] \in ls
  <2> SUFFICES ASSUME NEW p \in stateListeners, p[1] = c.aut, Hears(p[2], c.t),
                      Direction(p[2]) = c.op
               PROVE  p[2] \in ls
    OBVIOUS
  <2>1. p[2] \in At(stateListeners, c.aut)
    BY AtFacts
  <2>2. c.op # "updates"
    BY DEF Direction
  <2>3. IF c.op = "in" THEN HearsIn(p[2]) /\ p[2].s1 = c.t.target
        ELSE ~HearsIn(p[2]) /\ p[2].s1 = c.t.start
    BY DEF Direction, Hears
  <2> QED BY <2>1, <2>2, <2>3
<1>6. c.op = "updates" => \A p \in updateListeners : p[1] = c.aut => p[2] \in ls
  BY AtFacts
<1>7. \A d : d \in made <=> \E l \in ls : d = HearCall(l, c.t, c.aut)
  BY SumLoops
<1> HIDE DEF ls, made
<1>8. made \in SUBSET SumCall
  <2>1. \A l \in ls : HearCall(l, c.t, c.aut) \in SumCall
    BY <1>3, <1>4, SumCallsTyped
  <2> QED BY <1>7, <2>1
<1>9. Moves(c, made) /\ agenda' \in Seq(SUBSET SumCall)
  BY <1>1, <1>8, SumReturns DEF SumInv
<1>10. \A d \in made : KnownCall(d)
  <2>1. \A l \in ls : KnownCall(HearCall(l, c.t, c.aut))
    BY <1>3, <1>4, KnownFacts DEF KnownBy
  <2> QED BY <1>7, <2>1
<1>11. \A T : SumClosed(T) /\ Bounded(T) => \A d \in made : Carries(T, d)
  <2> SUFFICES ASSUME NEW T, Bounded(T), NEW l \in ls
               PROVE  Carries(T, HearCall(l, c.t, c.aut))
    BY <1>7
  <2>1. TrueListener(T, l)
    <3> DEFINE p == <<c.aut, l>>
    <3>1. p \in stateListeners \cup updateListeners /\ p[2] = l
      BY <1>4
    <3> HIDE DEF p
    <3> QED BY <3>1 DEF Bounded
  <2> QED BY <2>1, CarriedFacts DEF CarriedBy
<1>12. UNCHANGED <<trans, nested, summariesListeners, reached, started>> /\ connected' = connected
  BY <1>1 DEF summariesData, reports
<1>13. Deed(c, made)
  BY <1>1, <1>5, <1>6, <1>7, <1>12 DEF Deed, Basic, Telling, summariesListeners
<1>14. PushesWaited(made)
  BY <1>7, NoPushes, SumConstructors
<1>15. SumEffect(c, made)
  BY <1>9, <1>10, <1>11, <1>12, <1>13, <1>14, SumQuietEffect
<1> QED BY <1>15

\* A listener of an automaton is one for those nested in it.
LEMMA GoodBelow ==
    ASSUME NEW a, NEW b, NEW l, GoodListener(a, l), <<a, b>> \in nested
    PROVE  GoodListener(b, l)
BY PlacedFacts DEF GoodListener

LEMMA HandOnEffect ==
    ASSUME SumInv, SumFollowed, NEW c \in Innermost, HandOn(c)
    PROVE  \E made : SumEffect(c, made)
<1> DEFINE one(b) == IF c.op = "handOn" THEN RegisterCall(b, c.l) ELSE UpdateCall(b, c.l)
           made == UNION {IF c.op = "handOn" THEN Register(b, c.l) ELSE RegisterUpdate(b, c.l) :
                            b \in NestedIn(c.aut)}
<1>1. c.op \in {"handOn", "handOnUpdate"} /\ Return(c, <<made>>) /\ UNCHANGED summariesData
  BY DEF HandOn
<1>2. \A d : d \in made <=> \E b \in NestedIn(c.aut) : d = one(b)
  BY SumLoops
<1>3. /\ c \in SumCall /\ KnownCall(c)
      /\ \A T : SumClosed(T) => Carries(T, c)
  BY SumCallAt
<1>4. /\ c.aut \in Automaton /\ GoodListener(c.aut, c.l)
      /\ c.op = "handOn" => c.l \in SumListener
      /\ c.op = "handOnUpdate" => c.l \in UpdateListener
  BY <1>1, <1>3, SumCallRecords DEF KnownCall
<1>5. \A b \in NestedIn(c.aut) : b \in Automaton /\ GoodListener(b, c.l)
  BY <1>4, SumAt, GoodBelow
<1>6. \A b : one(b) = RegisterCall(b, c.l) \/ one(b) = UpdateCall(b, c.l)
  OBVIOUS
<1>7. \A e \in nested : e[1] = c.aut => e[2] \in NestedIn(c.aut)
  BY AtFacts
<1>8. made \in SUBSET SumCall
  <2>1. \A b \in NestedIn(c.aut) : one(b) \in SumCall
    BY <1>1, <1>4, <1>5, SumCallsTyped
  <2> HIDE DEF one, made
  <2> QED BY <1>2, <2>1
<1>9. (c.op = "handOn" => \A b : one(b) = RegisterCall(b, c.l))
      /\ (c.op = "handOnUpdate" => \A b : one(b) = UpdateCall(b, c.l))
  OBVIOUS
<1> HIDE DEF one, made
<1>10. Moves(c, made) /\ agenda' \in Seq(SUBSET SumCall)
  BY <1>1, <1>8, SumReturns DEF SumInv
<1>11. \A d \in made : KnownCall(d)
  BY <1>2, <1>5, <1>6, KnownFacts DEF KnownBy
<1>12. \A T : SumClosed(T) /\ Bounded(T) => \A d \in made : Carries(T, d)
  <2> SUFFICES ASSUME NEW T, SumClosed(T), NEW b
               PROVE  Carries(T, one(b))
    BY <1>2
  <2>1. TrueListener(T, c.l)
    BY <1>1, <1>3 DEF Carries
  <2> QED BY <1>6, <2>1, CarriedFacts DEF CarriedBy
<1>13. UNCHANGED <<trans, nested, summariesListeners, reached, started>> /\ connected' = connected
  BY <1>1 DEF summariesData, reports
<1>14. Deed(c, made)
  BY <1>1, <1>2, <1>7, <1>9, <1>13 DEF Deed, Basic
<1>15. PushesWaited(made)
  BY <1>2, <1>6, NoPushes, SumConstructors
<1>16. SumEffect(c, made)
  BY <1>10, <1>11, <1>12, <1>13, <1>14, <1>15, SumQuietEffect
<1> QED BY <1>16

LEMMA GiveEffect ==
    ASSUME SumInv, SumFollowed, NEW c \in Innermost, GiveListeners(c)
    PROVE  \E made : SumEffect(c, made)
<1> DEFINE A == UNION {Register(c.child, l) : l \in At(stateListeners, c.aut)}
           B == UNION {RegisterUpdate(c.child, l) : l \in At(updateListeners, c.aut)}
           D == {[op |-> "giveOne", aut |-> c.aut, child |-> c.child, of |-> s] :
                   s \in At(nestedListeners, c.aut)}
<1>1. /\ c.op \in Giving /\ UNCHANGED summariesData
      /\ c.op = "give" => Return(c, <<A>>)
      /\ c.op = "giveUpdates" => Return(c, <<B>>)
      /\ c.op = "giveNested" => Return(c, <<D>>)
  BY DEF GiveListeners, Giving
<1>2. \A d : d \in A <=> \E l \in At(stateListeners, c.aut) : d = RegisterCall(c.child, l)
  BY SumLoops
<1>3. \A d : d \in B <=> \E l \in At(updateListeners, c.aut) : d = UpdateCall(c.child, l)
  BY SumLoops
<1>4. \A d : d \in D <=> \E s \in At(nestedListeners, c.aut) : d = GiveOneCall(c.aut, c.child, s)
  BY DEF GiveOneCall
<1>5. c \in SumCall /\ KnownCall(c)
  BY SumCallAt
<1>6. c.aut \in Automaton /\ <<c.aut, c.child>> \in nested
      /\ c.child \in Automaton
  BY <1>1, <1>5, SumCallRecords, AutomatonKinds DEF KnownCall
<1> HIDE DEF A, B, D
<1>7. UNCHANGED <<trans, nested, summariesListeners, reached, started>> /\ connected' = connected
  BY <1>1 DEF summariesData, reports
<1>8. \A T, l, a : Bounded(T) /\ (<<a, l>> \in stateListeners \/ <<a, l>> \in updateListeners)
        => TrueListener(T, l)
  <2> SUFFICES ASSUME NEW T, NEW l, NEW a, Bounded(T),
                      <<a, l>> \in stateListeners \/ <<a, l>> \in updateListeners
               PROVE  TrueListener(T, l)
    OBVIOUS
  <2> DEFINE p == <<a, l>>
  <2>1. p \in stateListeners \cup updateListeners /\ p[2] = l
    OBVIOUS
  <2> HIDE DEF p
  <2> QED BY <2>1 DEF Bounded
<1>9. CASE c.op = "give"
  <2>1. A \in SUBSET SumCall
    <3>1. \A l \in At(stateListeners, c.aut) : RegisterCall(c.child, l) \in SumCall
      BY <1>6, SumAt, SumCallsTyped
    <3> QED BY <1>2, <3>1
  <2>2. Moves(c, A) /\ agenda' \in Seq(SUBSET SumCall)
    BY <1>1, <1>9, <2>1, SumReturns DEF SumInv
  <2>3. \A d \in A : KnownCall(d)
    <3>1. \A l \in At(stateListeners, c.aut) : GoodListener(c.child, l)
      BY <1>6, SumAt, GoodBelow
    <3> QED BY <1>2, <3>1, KnownFacts DEF KnownBy
  <2>4. \A T : SumClosed(T) /\ Bounded(T) => \A d \in A : Carries(T, d)
    <3>1. \A T : Bounded(T) => \A l \in At(stateListeners, c.aut) : TrueListener(T, l)
      BY <1>8, SumAt
    <3> QED BY <1>2, <3>1, CarriedFacts DEF CarriedBy
  <2>5. Deed(c, A)
    BY <1>2, <1>7, <1>9, AtFacts DEF Deed, Basic, summariesListeners
  <2>6. PushesWaited(A)
    BY <1>2, NoPushes, SumConstructors
  <2>7. SumEffect(c, A)
    BY <1>7, <2>2, <2>3, <2>4, <2>5, <2>6, SumQuietEffect
  <2> QED BY <2>7
<1>10. CASE c.op = "giveUpdates"
  <2>1. B \in SUBSET SumCall
    <3>1. \A l \in At(updateListeners, c.aut) : UpdateCall(c.child, l) \in SumCall
      BY <1>6, SumAt, SumCallsTyped
    <3> QED BY <1>3, <3>1
  <2>2. Moves(c, B) /\ agenda' \in Seq(SUBSET SumCall)
    BY <1>1, <1>10, <2>1, SumReturns DEF SumInv
  <2>3. \A d \in B : KnownCall(d)
    <3>1. \A l \in At(updateListeners, c.aut) : GoodListener(c.child, l)
      BY <1>6, SumAt, GoodBelow
    <3> QED BY <1>3, <3>1, KnownFacts DEF KnownBy
  <2>4. \A T : SumClosed(T) /\ Bounded(T) => \A d \in B : Carries(T, d)
    <3>1. \A T : Bounded(T) => \A l \in At(updateListeners, c.aut) : TrueListener(T, l)
      BY <1>8, SumAt
    <3> QED BY <1>3, <3>1, CarriedFacts DEF CarriedBy
  <2>5. Deed(c, B)
    BY <1>3, <1>7, <1>10, AtFacts DEF Deed, Basic, summariesListeners
  <2>6. PushesWaited(B)
    BY <1>3, NoPushes, SumConstructors
  <2>7. SumEffect(c, B)
    BY <1>7, <2>2, <2>3, <2>4, <2>5, <2>6, SumQuietEffect
  <2> QED BY <2>7
<1>11. CASE c.op = "giveNested"
  <2>1. D \in SUBSET SumCall
    <3>1. \A s \in At(nestedListeners, c.aut) : GiveOneCall(c.aut, c.child, s) \in SumCall
      BY <1>6, SumAt, SumCallsTyped
    <3> QED BY <1>4, <3>1
  <2>2. Moves(c, D) /\ agenda' \in Seq(SUBSET SumCall)
    BY <1>1, <1>11, <2>1, SumReturns DEF SumInv
  <2>3. \A d \in D : KnownCall(d)
    <3>1. \A s \in At(nestedListeners, c.aut) : KnownCall(GiveOneCall(c.aut, c.child, s))
      BY <1>6, SumAt, KnownFacts DEF KnownBy
    <3> QED BY <1>4, <3>1
  <2>4. \A T : SumClosed(T) /\ Bounded(T) => \A d \in D : Carries(T, d)
    BY <1>4, CarriedFacts DEF CarriedBy
  <2>5. Deed(c, D)
    BY <1>11 DEF Deed, Basic
  <2>6. PushesWaited(D)
    BY <1>4, NoPushes, SumConstructors
  <2>7. SumEffect(c, D)
    BY <1>7, <2>2, <2>3, <2>4, <2>5, <2>6, SumQuietEffect
  <2> QED BY <2>7
<1> QED BY <1>1, <1>9, <1>10, <1>11 DEF Giving

\* The listener that a solver has in what is nested in an automaton of its own.
LEMMA EnteredListener ==
    ASSUME SumInv, NEW s \in Created, NEW a, NEW b, Placed(s, a), <<a, b>> \in nested
    PROVE  LET l == AddEpsilonToInitialState(s, InitialOf(b), a)
           IN  /\ Placed(s, b) /\ l \in SumListener /\ RegisterCall(b, l) \in SumCall
               /\ KnownCall(RegisterCall(b, l)) /\ \A T : Carries(T, RegisterCall(b, l))
<1> DEFINE l == AddEpsilonToInitialState(s, InitialOf(b), a)
<1>1. /\ Placed(s, b) /\ a \in Automaton /\ b \in Automaton /\ InitialOf(b) \in SumTarget
      /\ s \in Solver
  BY PlacedFacts, SumAt, AutomatonKinds, CreatedFacts
<1>2. l \in SumListener /\ l.kind = "entered" /\ l.of = s /\ l.parent = a
  BY <1>1, ListenersTyped DEF AddEpsilonToInitialState
<1>3. GoodListener(b, l) /\ \A T : TrueListener(T, l)
  BY <1>1, <1>2 DEF GoodListener, TrueListener
<1>4. KnownCall(RegisterCall(b, l)) /\ \A T : Carries(T, RegisterCall(b, l))
  BY <1>3, KnownFacts, CarriedFacts DEF KnownBy, CarriedBy
<1> QED BY <1>1, <1>2, <1>4, SumCallsTyped

LEMMA GiveOneEffect ==
    ASSUME SumInv, SumFollowed, NEW c \in Innermost, GiveNestedListener(c)
    PROVE  \E made : SumEffect(c, made)
<1> DEFINE l == AddEpsilonToInitialState(c.of, InitialOf(c.child), c.aut)
           d1 == RegisterCall(c.child, l)
           d2 == NestedListenerCall(c.child, c.of)
           made == {d1} \cup {d2}
<1>1. c.op = "giveOne" /\ UNCHANGED summariesData /\ Return(c, <<{d1}, {d2}>>)
  BY SumLoops DEF GiveNestedListener
<1>2. c \in SumCall /\ KnownCall(c)
  BY SumCallAt
<1>3. c.of \in Solver /\ c.of \in Created /\ <<c.aut, c.child>> \in nested /\ Placed(c.of, c.aut)
      /\ c.child \in Automaton
  BY <1>1, <1>2, SumCallRecords, AutomatonKinds DEF KnownCall
<1>4. /\ Placed(c.of, c.child) /\ d1 \in SumCall /\ KnownCall(d1) /\ \A T : Carries(T, d1)
  BY <1>3, EnteredListener
<1>5. d2 \in SumCall /\ KnownCall(d2) /\ \A T : Carries(T, d2)
  BY <1>3, <1>4, SumCallsTyped, KnownFacts, CarriedFacts DEF KnownBy, CarriedBy
<1>6. PushesWaited(made)
  <2>1. d1.op # "add" /\ d2.op # "add"
    BY SumConstructors
  <2> QED BY <2>1, NoPushes
<1> HIDE DEF d1, d2
<1>7. Moves(c, made) /\ agenda' \in Seq(SUBSET SumCall)
  BY <1>1, <1>4, <1>5, SumReturns DEF SumInv
<1>8. /\ \A d \in made : KnownCall(d)
      /\ \A T : SumClosed(T) /\ Bounded(T) => \A d \in made : Carries(T, d)
  BY <1>4, <1>5
<1>9. UNCHANGED <<trans, nested, summariesListeners, reached, started>> /\ connected' = connected
  BY <1>1 DEF summariesData, reports
<1>10. Deed(c, made)
  BY <1>1 DEF Deed, Basic
<1> HIDE DEF made
<1>11. SumEffect(c, made)
  BY <1>6, <1>7, <1>8, <1>9, <1>10, SumQuietEffect
<1> QED BY <1>11
LEMMA AddEffect ==
    ASSUME SumInv, SumFollowed, NEW c \in Innermost, AddTransition(c)
    PROVE  \E made : SumEffect(c, made)
<1> DEFINE new == <<c.aut, c.t>>
           known == (c.t.label = Eps /\ c.t.start = c.t.target) \/ new \in trans
           d1 == TellCall("updates", c.aut, c.t)
           d2 == TellCall("out", c.aut, c.t)
           d3 == TellCall("in", c.aut, c.t)
           made == {d1} \cup {d2} \cup {d3}
<1>1. /\ c \in SumCall /\ KnownCall(c)
      /\ \A T : SumClosed(T) => Bounded(T) /\ Carries(T, c)
  BY SumCallAt
<1>2. c.op = "add" /\ UNCHANGED <<nested, summariesListeners, reached, reports, started>>
  BY DEF AddTransition
<1>3. c.aut \in Automaton /\ c.t \in SumEdge /\ c = TellCall("add", c.aut, c.t)
      /\ \A o : [c EXCEPT !.op = o] = TellCall(o, c.aut, c.t)
  BY <1>1, <1>2, SumCallRecords
<1>4. InPlace(c.aut, c.t)
  BY <1>1, <1>2 DEF KnownCall
<1>5. /\ known => Return(c, <<>>) /\ trans' = trans
      /\ ~known => trans' = trans \cup {new} /\ Return(c, <<{d1}, {d2}, {d3}>>)
  BY <1>3 DEF AddTransition
<1>6. SumTypeOK
  BY DEF SumInv
<1>7. UNCHANGED <<nested, stateListeners, updateListeners, nestedListeners, reached, connected,
                  started>>
  BY <1>2 DEF summariesListeners, reports
<1>8. ~(c.t.label = Eps /\ c.t.start = c.t.target)
  BY <1>3, EdgeFields, SummariesAssumption
<1>9. CASE known
  <2>1. Moves(c, {}) /\ agenda' \in Seq(SUBSET SumCall)
    BY <1>5, <1>6, <1>9, SumReturns
  <2>2. Deed(c, {})
    BY <1>2, <1>5, <1>8, <1>9 DEF Deed, SumDone
  <2>3. UNCHANGED <<trans, nested, summariesListeners, reached, started>> /\ connected' = connected
    BY <1>2, <1>5, <1>9 DEF reports
  <2>4. SumEffect(c, {})
    BY <2>1, <2>2, <2>3, NoPushes, SumQuietEffect
  <2> QED BY <2>4
<1>10. CASE ~known
  <2>1. d1 \in SumCall /\ d2 \in SumCall /\ d3 \in SumCall
    BY <1>3, SumCallsTyped DEF Telling
  <2>2. Moves(c, made) /\ agenda' \in Seq(SUBSET SumCall)
    <3>1. {d1} \in SUBSET SumCall /\ {d2} \in SUBSET SumCall /\ {d3} \in SUBSET SumCall
      BY <2>1
    <3>2. Return(c, <<{d1}, {d2}, {d3}>>)
      BY <1>5, <1>10
    <3> HIDE DEF d1, d2, d3
    <3> QED BY <1>6, <3>1, <3>2, SumReturns
  <2>3. new \in Automaton \X SumEdge /\ new[1] = c.aut /\ new[2] = c.t
        /\ InPlace(new[1], new[2]) /\ c = TellCall("add", new[1], new[2])
    BY <1>3, <1>4
  <2>4. trans' = trans \cup {new}
    BY <1>5, <1>10
  <2>5. \A d \in made : d.op \in Telling
    BY SumConstructors DEF Telling
  <2>6. \A o \in Telling : TellCall(o, new[1], new[2]) \in made
    BY <2>3 DEF Telling
  <2>7. \A d \in made : KnownCall(d)'
    <3>1. KnownBy'
      BY KnownFacts, PTL
    <3>2. \A o \in Telling : KnownCall(TellCall(o, c.aut, c.t))'
      BY <1>4, <1>7, <2>4, <3>1 DEF KnownBy, InPlace, Created
    <3> QED BY <3>2 DEF Telling
  <2> HIDE DEF new, made, d1, d2, d3, known
  <2>8. SumTypeOK'
    <3>1. trans' \subseteq Automaton \X SumEdge
      BY <1>6, <2>3, <2>4 DEF SumTypeOK
    <3> QED BY <1>6, <1>7, <2>2, <3>1 DEF SumTypeOK
  <2>9. SumGrow
    BY <1>7, <2>4 DEF SumGrow
  <2>10. SumKeeps(c, made)
    <3>1. \A u \in trans' : u \in trans \/ InPlace(u[1], u[2])
      BY <2>3, <2>4
    <3> QED BY <1>7, <2>2, <2>7, <2>8, <2>9, <3>1 DEF SumKeeps
  <2>11. Deed(c, made)
    <3>1. SumDone(c)'
      BY <1>2, <2>4 DEF SumDone, new
    <3> QED BY <1>2, <3>1 DEF Deed
  <2>12. News(c, made)
    <3>1. PushesWaited(made)
      BY <2>5, NoPushes DEF Telling
    <3>2. \A u \in trans' : u \in trans \/
            /\ c = TellCall("add", u[1], u[2])
            /\ \A o \in Telling : TellCall(o, u[1], u[2]) \in made
      BY <2>3, <2>4, <2>6
    <3> QED BY <1>7, <3>1, <3>2 DEF News, PushesWaited
  <2>13. SumFollows(made)
    <3> SUFFICES ASSUME NEW T, SumClosed(T)
                 PROVE  Holds(T, new[1], new[2]) /\ \A d \in made : Carries(T, d)'
      BY <1>7, <2>4 DEF SumFollows
    <3>1. Holds(T, new[1], new[2])
      BY <1>1, <1>2, <2>3 DEF Carries
    <3>2. \A d \in made : Carries(T, d)'
      BY <2>5 DEF Carries, Telling
    <3> QED BY <3>1, <3>2
  <2>30. SumEffect(c, made)
    BY <2>2, <2>9, <2>10, <2>11, <2>12, <2>13 DEF SumEffect, SumHeeds
  <2> QED BY <2>30
<1> QED BY <1>9, <1>10

LEMMA RegisterEffect ==
    ASSUME SumInv, SumFollowed, NEW c \in Innermost, RegisterStateListener(c)
    PROVE  \E made : SumEffect(c, made)
<1> DEFINE new == <<c.aut, c.l>>
           known == \E k \in At(stateListeners, c.aut) : Same(c.l, k)
           ts == {t \in In(c.aut) : c.l.s1 = IF HearsIn(c.l) THEN t.target ELSE t.start}
           A == Hear({c.l}, ts, c.aut)
           d == HandOnCall(c.aut, c.l)
           made == A \cup {d}
<1>1. /\ c \in SumCall /\ KnownCall(c)
      /\ \A T : SumClosed(T) => Bounded(T) /\ Carries(T, c)
  BY SumCallAt
<1>2. c.op = "register"
      /\ UNCHANGED <<trans, nested, updateListeners, nestedListeners, reached, reports, started>>
  BY DEF RegisterStateListener
<1>3. c.aut \in Automaton /\ c.l \in SumListener /\ [c EXCEPT !.op = "handOn"] = d
      /\ GoodListener(c.aut, c.l)
  BY <1>1, <1>2, SumCallRecords DEF KnownCall
<1>4. /\ known => Return(c, <<>>) /\ stateListeners' = stateListeners
      /\ ~known => stateListeners' = stateListeners \cup {new} /\ Return(c, <<A, {d}>>)
  BY <1>3 DEF RegisterStateListener
<1>5. SumTypeOK
  BY DEF SumInv
<1>6. UNCHANGED <<trans, nested, updateListeners, nestedListeners, reached, connected, started>>
  BY <1>2 DEF reports
<1>7. CASE known
  <2>1. Moves(c, {}) /\ agenda' \in Seq(SUBSET SumCall)
    BY <1>4, <1>5, <1>7, SumReturns
  <2>2. Deed(c, {})
    <3>1. PICK k : <<c.aut, k>> \in stateListeners /\ Same(c.l, k)
      BY <1>7, SumAt
    <3>2. SumDone(c)'
      BY <1>2, <1>4, <1>7, <3>1 DEF SumDone
    <3> QED BY <1>2, <3>2 DEF Deed
  <2>3. UNCHANGED <<trans, nested, summariesListeners, reached, started>> /\ connected' = connected
    BY <1>4, <1>6, <1>7 DEF summariesListeners
  <2>4. SumEffect(c, {})
    BY <2>1, <2>2, <2>3, NoPushes, SumQuietEffect
  <2> QED BY <2>4
<1>8. CASE ~known
  <2>1. \A e : e \in A <=> \E t \in ts : e = HearCall(c.l, t, c.aut)
    BY SumLoops
  <2>2. \A t \in ts : t \in SumEdge /\ <<c.aut, t>> \in trans /\ Hears(c.l, t)
    BY SumAt DEF Hears
  <2>3. \A u \in trans : c.aut = u[1] /\ Hears(c.l, u[2]) => u[2] \in ts
    BY AtFacts DEF Hears
  <2>4. new \in Automaton \X SumListener /\ new[1] = c.aut /\ new[2] = c.l
    BY <1>3
  <2>5. stateListeners' = stateListeners \cup {new}
    BY <1>4, <1>8
  <2> HIDE DEF ts, A, known
  <2>6. A \in SUBSET SumCall /\ {d} \in SUBSET SumCall
    <3>1. \A t \in ts : HearCall(c.l, t, c.aut) \in SumCall
      BY <1>3, <2>2, SumCallsTyped
    <3>2. d \in SumCall
      BY <1>3, SumCallsTyped
    <3> QED BY <2>1, <3>1, <3>2
  <2>7. Moves(c, made) /\ agenda' \in Seq(SUBSET SumCall)
    BY <1>4, <1>5, <1>8, <2>6, SumReturns
  <2>8. \A e \in made : KnownCall(e)
    <3>1. \A t \in ts : KnownCall(HearCall(c.l, t, c.aut))
      BY <1>3, <2>2, KnownFacts DEF KnownBy
    <3>2. KnownCall(d)
      BY <1>3, KnownFacts DEF KnownBy
    <3> QED BY <2>1, <3>1, <3>2
  <2>9. \A e \in made : e.op # "add"
    BY <2>1, SumConstructors
  <2>10. \A t \in ts : HearCall(c.l, t, c.aut) \in made
    BY <2>1
  <2>11. HandOnCall(c.aut, c.l) \in made
    OBVIOUS
  <2>12. ASSUME NEW T, TrueListener(T, c.l)
         PROVE  \A e \in made : Carries(T, e)
    <3>1. Carries(T, d) /\ \A t : Carries(T, HearCall(c.l, t, c.aut))
      BY <2>12, CarriedFacts DEF CarriedBy
    <3> QED BY <2>1, <3>1
  <2> HIDE DEF new, made, d
  <2>13. SumTypeOK'
    <3>1. stateListeners' \subseteq Automaton \X SumListener
      BY <1>5, <2>4, <2>5 DEF SumTypeOK
    <3> QED BY <1>5, <1>6, <2>7, <3>1 DEF SumTypeOK
  <2>14. SumGrow
    BY <1>6, <2>5 DEF SumGrow
  <2>15. SumKeeps(c, made)
    <3>1. \A e \in made : KnownCall(e)'
      BY <2>8, <2>14, PlacedKept
    <3>2. GoodListener(new[1], new[2])'
      <4>1. GoodListener(c.aut, c.l)'
        BY <1>3, <2>14, PlacedKept
      <4> QED BY <2>4, <4>1
    <3> QED BY <1>2, <1>6, <2>5, <2>7, <2>13, <2>14, <3>1, <3>2 DEF SumKeeps
  <2>16. Deed(c, made)
    <3>1. <<c.aut, c.l>> \in stateListeners' /\ Same(c.l, c.l)
      BY <1>3, <2>5, SameSelf DEF new
    <3>2. SumDone(c)'
      BY <1>2, <3>1 DEF SumDone
    <3> QED BY <1>2, <3>2 DEF Deed
  <2>17. News(c, made)
    <3>1. PushesWaited(made)
      BY <2>9, NoPushes
    <3>2. \A p \in stateListeners' : p \in stateListeners \/
            /\ HandOnCall(p[1], p[2]) \in made
            /\ \A u \in trans' :
                 p[1] = u[1] /\ Hears(p[2], u[2]) => HearCall(p[2], u[2], u[1]) \in made
      BY <1>6, <2>3, <2>4, <2>5, <2>10, <2>11
    <3> QED BY <1>6, <3>1, <3>2 DEF News, PushesWaited
  <2>18. SumFollows(made)
    <3> SUFFICES ASSUME NEW T, SumClosed(T)
                 PROVE  TrueListener(T, new[2]) /\ \A e \in made : Carries(T, e)'
      BY <1>6, <2>5 DEF SumFollows
    <3>1. TrueListener(T, c.l)
      BY <1>1, <1>2 DEF Carries
    <3> QED BY <2>4, <2>12, <2>14, <3>1, CarriesKept
  <2>30. SumEffect(c, made)
    BY <2>7, <2>14, <2>15, <2>16, <2>17, <2>18 DEF SumEffect, SumHeeds
  <2> QED BY <2>30
<1> QED BY <1>7, <1>8

LEMMA RegisterUpdateEffect ==
    ASSUME SumInv, SumFollowed, NEW c \in Innermost, RegisterUpdateListener(c)
    PROVE  \E made : SumEffect(c, made)
<1> DEFINE new == <<c.aut, c.l>>
           A == Hear({c.l}, In(c.aut), c.aut)
           d == HandUpdateOnCall(c.aut, c.l)
           made == A \cup {d}
<1>1. /\ c \in SumCall /\ KnownCall(c)
      /\ \A T : SumClosed(T) => Bounded(T) /\ Carries(T, c)
  BY SumCallAt
<1>2. c.op = "registerUpdate" /\ updateListeners' = updateListeners \cup {new}
      /\ UNCHANGED <<trans, nested, stateListeners, nestedListeners, reached, reports, started>>
  BY DEF RegisterUpdateListener
<1>3. c.aut \in Automaton /\ c.l \in UpdateListener /\ [c EXCEPT !.op = "handOnUpdate"] = d
      /\ GoodListener(c.aut, c.l)
  BY <1>1, <1>2, SumCallRecords DEF KnownCall
<1>4. /\ new \in updateListeners => Return(c, <<>>)
      /\ new \notin updateListeners => Return(c, <<A, {d}>>)
  BY <1>3 DEF RegisterUpdateListener
<1>5. SumTypeOK
  BY DEF SumInv
<1>6. UNCHANGED <<trans, nested, stateListeners, nestedListeners, reached, connected, started>>
  BY <1>2 DEF reports
<1>7. SumDone(c)'
  BY <1>2 DEF SumDone
<1>8. CASE new \in updateListeners
  <2>1. Moves(c, {}) /\ agenda' \in Seq(SUBSET SumCall)
    BY <1>4, <1>5, <1>8, SumReturns
  <2>2. Deed(c, {})
    BY <1>2, <1>7 DEF Deed
  <2>3. UNCHANGED <<trans, nested, summariesListeners, reached, started>> /\ connected' = connected
    BY <1>2, <1>6, <1>8 DEF summariesListeners
  <2>4. SumEffect(c, {})
    BY <2>1, <2>2, <2>3, NoPushes, SumQuietEffect
  <2> QED BY <2>4
<1>9. CASE new \notin updateListeners
  <2>1. \A e : e \in A <=> \E t \in In(c.aut) : e = HearCall(c.l, t, c.aut)
    BY SumLoops
  <2>2. \A t \in In(c.aut) : t \in SumEdge /\ <<c.aut, t>> \in trans
    BY SumAt
  <2>3. \A u \in trans : c.aut = u[1] => u[2] \in In(c.aut)
    BY AtFacts
  <2>4. new \in Automaton \X UpdateListener /\ new[1] = c.aut /\ new[2] = c.l
    BY <1>3
  <2>5. c.l \notin SumListener
    BY <1>3, StateListenerFields, UpdateListenerFields DEF RuleKind
  <2> HIDE DEF A
  <2>6. A \in SUBSET SumCall /\ {d} \in SUBSET SumCall
    <3>1. \A t \in In(c.aut) : HearCall(c.l, t, c.aut) \in SumCall
      BY <1>3, <2>2, SumCallsTyped
    <3>2. d \in SumCall
      BY <1>3, SumCallsTyped
    <3> QED BY <2>1, <3>1, <3>2
  <2>7. Moves(c, made) /\ agenda' \in Seq(SUBSET SumCall)
    BY <1>4, <1>5, <1>9, <2>6, SumReturns
  <2>8. \A e \in made : KnownCall(e)
    <3>1. \A t \in In(c.aut) : KnownCall(HearCall(c.l, t, c.aut))
      BY <1>3, <2>2, <2>5, KnownFacts DEF KnownBy
    <3>2. KnownCall(d)
      BY <1>3, KnownFacts DEF KnownBy
    <3> QED BY <2>1, <3>1, <3>2
  <2>9. \A e \in made : e.op # "add"
    BY <2>1, SumConstructors
  <2>10. \A t \in In(c.aut) : HearCall(c.l, t, c.aut) \in made
    BY <2>1
  <2>11. HandUpdateOnCall(c.aut, c.l) \in made
    OBVIOUS
  <2>12. ASSUME NEW T, TrueListener(T, c.l)
         PROVE  \A e \in made : Carries(T, e)
    <3>1. Carries(T, d) /\ \A t : Carries(T, HearCall(c.l, t, c.aut))
      BY <2>12, CarriedFacts DEF CarriedBy
    <3> QED BY <2>1, <3>1
  <2> HIDE DEF new, made, d
  <2>13. SumTypeOK'
    <3>1. updateListeners' \subseteq Automaton \X UpdateListener
      BY <1>2, <1>5, <2>4 DEF SumTypeOK
    <3> QED BY <1>5, <1>6, <2>7, <3>1 DEF SumTypeOK
  <2>14. SumGrow
    BY <1>2, <1>6 DEF SumGrow
  <2>15. SumKeeps(c, made)
    <3>1. \A e \in made : KnownCall(e)'
      BY <2>8, <2>14, PlacedKept
    <3>2. GoodListener(new[1], new[2])'
      <4>1. GoodListener(c.aut, c.l)'
        BY <1>3, <2>14, PlacedKept
      <4> QED BY <2>4, <4>1
    <3> QED BY <1>2, <1>6, <2>7, <2>13, <2>14, <3>1, <3>2 DEF SumKeeps
  <2>16. Deed(c, made)
    BY <1>2, <1>7 DEF Deed
  <2>17. News(c, made)
    <3>1. PushesWaited(made)
      BY <2>9, NoPushes
    <3>2. \A p \in updateListeners' : p \in updateListeners \/
            /\ HandUpdateOnCall(p[1], p[2]) \in made
            /\ \A u \in trans' : p[1] = u[1] => HearCall(p[2], u[2], u[1]) \in made
      BY <1>2, <1>6, <2>3, <2>4, <2>10, <2>11
    <3> QED BY <1>6, <3>1, <3>2 DEF News, PushesWaited
  <2>18. SumFollows(made)
    <3> SUFFICES ASSUME NEW T, SumClosed(T)
                 PROVE  TrueListener(T, new[2]) /\ \A e \in made : Carries(T, e)'
      BY <1>2, <1>6 DEF SumFollows
    <3>1. TrueListener(T, c.l)
      BY <1>1, <1>2 DEF Carries
    <3> QED BY <2>4, <2>12, <2>14, <3>1, CarriesKept
  <2>30. SumEffect(c, made)
    BY <2>7, <2>14, <2>15, <2>16, <2>17, <2>18 DEF SumEffect, SumHeeds
  <2> QED BY <2>30
<1> QED BY <1>8, <1>9
LEMMA NestEffect ==
    ASSUME SumInv, SumFollowed, NEW c \in Innermost, AddNestedAutomaton(c)
    PROVE  \E made : SumEffect(c, made)
<1> DEFINE new == <<c.aut, c.child>>
           d1 == GiveCall("give", c.aut, c.child)
           d2 == GiveCall("giveUpdates", c.aut, c.child)
           d3 == GiveCall("giveNested", c.aut, c.child)
           made == {d1} \cup {d2} \cup {d3}
<1>1. /\ c \in SumCall /\ KnownCall(c)
      /\ \A T : SumClosed(T) => Bounded(T) /\ Carries(T, c)
  BY SumCallAt
<1>2. c.op = "nest" /\ nested' = nested \cup {new}
      /\ UNCHANGED <<trans, summariesListeners, reached, reports, started>>
  BY DEF AddNestedAutomaton
<1>3. c.aut \in Automaton /\ c.child \in Automaton /\ NestPlace(c.aut, c.child)
      /\ \A o : [c EXCEPT !.op = o] = GiveCall(o, c.aut, c.child)
  BY <1>1, <1>2, SumCallRecords DEF KnownCall
<1>4. /\ new \in nested => Return(c, <<>>)
      /\ new \notin nested => Return(c, <<{d1}, {d2}, {d3}>>)
  BY <1>3 DEF AddNestedAutomaton
<1>5. SumTypeOK
  BY DEF SumInv
<1>6. UNCHANGED <<trans, stateListeners, updateListeners, nestedListeners, reached, connected,
                  started>>
  BY <1>2 DEF reports, summariesListeners
<1>7. SumDone(c)'
  BY <1>2 DEF SumDone
<1>8. CASE new \in nested
  <2>1. Moves(c, {}) /\ agenda' \in Seq(SUBSET SumCall)
    BY <1>4, <1>5, <1>8, SumReturns
  <2>2. Deed(c, {})
    BY <1>2, <1>7 DEF Deed
  <2>3. UNCHANGED <<trans, nested, summariesListeners, reached, started>> /\ connected' = connected
    BY <1>2, <1>6, <1>8
  <2>4. SumEffect(c, {})
    BY <2>1, <2>2, <2>3, NoPushes, SumQuietEffect
  <2> QED BY <2>4
<1>9. CASE new \notin nested
  <2>1. d1 \in SumCall /\ d2 \in SumCall /\ d3 \in SumCall
    BY <1>3, SumCallsTyped DEF Giving
  <2>2. Moves(c, made) /\ agenda' \in Seq(SUBSET SumCall)
    <3>1. {d1} \in SUBSET SumCall /\ {d2} \in SUBSET SumCall /\ {d3} \in SUBSET SumCall
      BY <2>1
    <3>2. Return(c, <<{d1}, {d2}, {d3}>>)
      BY <1>4, <1>9
    <3> HIDE DEF d1, d2, d3
    <3> QED BY <1>5, <3>1, <3>2, SumReturns
  <2>3. new \in Automaton \X Automaton /\ new[1] = c.aut /\ new[2] = c.child
    BY <1>3
  <2>4. \A d \in made : d.op \in Giving
    BY SumConstructors DEF Giving
  <2>5. \A o \in Giving : GiveCall(o, new[1], new[2]) \in made
    BY <2>3 DEF Giving
  <2>6. \A d \in made : KnownCall(d)'
    <3>1. KnownBy'
      BY KnownFacts, PTL
    <3>2. \A o \in Giving : KnownCall(GiveCall(o, c.aut, c.child))'
      BY <1>2, <3>1 DEF KnownBy
    <3> QED BY <3>2 DEF Giving
  <2> HIDE DEF new, made, d1, d2, d3
  <2>7. SumTypeOK'
    <3>1. nested' \subseteq Automaton \X Automaton
      BY <1>2, <1>5, <2>3 DEF SumTypeOK
    <3> QED BY <1>5, <1>6, <2>2, <3>1 DEF SumTypeOK
  <2>8. SumGrow
    BY <1>2, <1>6 DEF SumGrow
  <2>9. SumKeeps(c, made)
    <3>1. \A e \in nested' : e \in nested \/ NestPlace(e[1], e[2])
      BY <1>2, <1>3, <2>3
    <3> QED BY <1>6, <2>2, <2>6, <2>7, <2>8, <3>1 DEF SumKeeps
  <2>10. Deed(c, made)
    BY <1>2, <1>7 DEF Deed
  <2>11. News(c, made)
    <3>1. PushesWaited(made)
      BY <2>4, NoPushes DEF Giving
    <3>2. \A e \in nested' : e \in nested \/ \A o \in Giving : GiveCall(o, e[1], e[2]) \in made
      BY <1>2, <2>5
    <3> QED BY <1>6, <3>1, <3>2 DEF News, PushesWaited
  <2>12. SumFollows(made)
    <3> SUFFICES ASSUME NEW T, SumClosed(T)
                 PROVE  Leads(T, new[1], new[2]) /\ \A d \in made : Carries(T, d)'
      BY <1>2, <1>6 DEF SumFollows
    <3>1. Leads(T, c.aut, c.child)
      BY <1>1, <1>2 DEF Carries
    <3>2. \A d \in made : Carries(T, d)'
      BY <2>4 DEF Carries, Giving
    <3> QED BY <2>3, <3>1, <3>2
  <2>30. SumEffect(c, made)
    BY <2>2, <2>8, <2>9, <2>10, <2>11, <2>12 DEF SumEffect, SumHeeds
  <2> QED BY <2>30
<1> QED BY <1>8, <1>9

LEMMA RegisterNestedEffect ==
    ASSUME SumInv, SumFollowed, NEW c \in Innermost, RegisterNestedListener(c)
    PROVE  \E made : SumEffect(c, made)
<1> DEFINE new == <<c.aut, c.of>>
           one(b) == RegisterCall(b, AddEpsilonToInitialState(c.of, InitialOf(b), c.aut))
           A == UNION {NestedAutomaton(c.of, c.aut, b) : b \in NestedIn(c.aut)}
           made == IF new \in nestedListeners THEN {} ELSE A
<1>1. c \in SumCall /\ KnownCall(c)
  BY SumCallAt
<1>2. c.op = "registerNested" /\ nestedListeners' = nestedListeners \cup {new}
      /\ UNCHANGED <<trans, nested, stateListeners, updateListeners, reached, reports, started>>
  BY DEF RegisterNestedListener
<1>3. c.aut \in Automaton /\ c.of \in Solver /\ c.of \in Created /\ Placed(c.of, c.aut)
  BY <1>1, <1>2, SumCallRecords DEF KnownCall
<1>4. Return(c, IF new \in nestedListeners THEN <<>> ELSE <<A>>)
  BY DEF RegisterNestedListener
<1>5. SumTypeOK
  BY DEF SumInv
<1>6. UNCHANGED <<trans, nested, stateListeners, updateListeners, reached, connected, started>>
  BY <1>2 DEF reports
<1>7. \A d : d \in A <=> \E b \in NestedIn(c.aut) : d = one(b)
  BY SumLoops
<1>8. \A b \in NestedIn(c.aut) :
        one(b) \in SumCall /\ KnownCall(one(b)) /\ \A T : Carries(T, one(b))
  BY <1>3, SumAt, EnteredListener
<1>9. \A b : one(b).op = "register"
  BY SumConstructors
<1>10. new \in Automaton \X Solver /\ new[1] = c.aut /\ new[2] = c.of
  BY <1>3
<1> HIDE DEF one, A, new
<1>11. A \in SUBSET SumCall /\ \A d \in A : KnownCall(d) /\ d.op = "register" /\ \A T : Carries(T, d)
  BY <1>7, <1>8, <1>9
<1>12. Moves(c, made) /\ agenda' \in Seq(SUBSET SumCall)
  BY <1>4, <1>5, <1>11, SumReturns
<1>13. \A d \in made : KnownCall(d) /\ d.op = "register" /\ \A T : Carries(T, d)
  BY <1>11
<1> HIDE DEF made
<1>14. SumTypeOK'
  <2>1. nestedListeners' \subseteq Automaton \X Solver
    BY <1>2, <1>5, <1>10 DEF SumTypeOK
  <2> QED BY <1>5, <1>6, <1>12, <2>1 DEF SumTypeOK
<1>15. SumGrow
  BY <1>6 DEF SumGrow
<1>16. SumKeeps(c, made)
  <2>1. \A d \in made : KnownCall(d)'
    BY <1>13, <1>15, PlacedKept
  <2>2. (new[2] \in Created /\ Placed(new[2], new[1]))'
    <3>1. (c.of \in Created /\ Placed(c.of, c.aut))'
      BY <1>3, <1>15, PlacedKept
    <3> QED BY <1>10, <3>1
  <2> QED BY <1>2, <1>6, <1>12, <1>14, <1>15, <2>1, <2>2 DEF SumKeeps
<1>17. Deed(c, made)
  BY <1>2 DEF Deed, Basic
<1>18. News(c, made)
  <2>1. PushesWaited(made)
    BY <1>13, NoPushes
  <2> QED BY <1>6, <2>1 DEF News, PushesWaited
<1>19. SumFollows(made)
  <2>1. \A T : \A d \in made : Carries(T, d)'
    BY <1>13, <1>15, CarriesKept
  <2> QED BY <1>6, <2>1 DEF SumFollows
<1>30. SumEffect(c, made)
  BY <1>12, <1>15, <1>16, <1>17, <1>18, <1>19 DEF SumEffect, SumHeeds
<1> QED BY <1>30

LEMMA ReachEffect ==
    ASSUME SumInv, SumFollowed, NEW c \in Innermost, SetContextReachable(c)
    PROVE  \E made : SumEffect(c, made)
<1> DEFINE new == <<c.of, c.n>>
           at == {p \in Rules : <<p.l1, p.s1>> = c.n}
           one(r) == RegisterCall(c.of, RuleListener(c.of, r))
           A == UNION {Register(c.of, RuleListener(c.of, r)) : r \in at}
           made == IF new \in reached THEN {} ELSE A
<1>1. /\ c \in SumCall /\ KnownCall(c)
      /\ \A T : SumClosed(T) => Bounded(T) /\ Carries(T, c)
  BY SumCallAt
<1>2. c.op = "reach" /\ reached' = reached \cup {new}
      /\ UNCHANGED <<trans, nested, summariesListeners, reports, started>>
  BY DEF SetContextReachable
<1>3. c.of \in Solver /\ c.of \in Created /\ c.n \in Label \X State
  BY <1>1, <1>2, SumCallRecords DEF KnownCall
<1>4. Return(c, IF new \in reached THEN <<>> ELSE <<A>>)
  BY DEF SetContextReachable
<1>5. SumTypeOK
  BY DEF SumInv
<1>6. UNCHANGED <<trans, nested, stateListeners, updateListeners, nestedListeners, connected, started>>
  BY <1>2 DEF reports, summariesListeners
<1>7. \A d : d \in A <=> \E r \in at : d = one(r)
  BY SumLoops
<1>8. \A r \in at : /\ one(r) \in SumCall /\ KnownCall(one(r)) /\ \A T : Carries(T, one(r))
                    /\ one(r).op = "register"
  <2> SUFFICES ASSUME NEW r \in Rules
               PROVE  /\ one(r) \in SumCall /\ KnownCall(one(r)) /\ \A T : Carries(T, one(r))
                      /\ one(r).op = "register"
    OBVIOUS
  <2> DEFINE l == RuleListener(c.of, r)
  <2>1. l \in SumListener /\ l.of = c.of /\ l.kind \in RuleKind
    BY <1>3, ListenersTyped, RulesTyped DEF RuleListener
  <2>2. c.of \in Automaton /\ Placed(c.of, c.of)
    BY <1>3, AutomatonKinds, PlacedFacts
  <2>3. GoodListener(c.of, l) /\ \A T : TrueListener(T, l)
    BY <1>3, <2>1, <2>2 DEF GoodListener, TrueListener, RuleKind
  <2> HIDE DEF l
  <2>4. LET d == RegisterCall(c.of, l)
        IN  d \in SumCall /\ KnownCall(d) /\ (\A T : Carries(T, d)) /\ d.op = "register"
    BY <2>1, <2>2, <2>3, SumCallsTyped, KnownFacts, CarriedFacts, SumConstructors
       DEF KnownBy, CarriedBy
  <2> QED BY <2>4 DEF l
<1>9. new \in Solver \X (Label \X State) /\ new[1] = c.of /\ new[2] = c.n
  BY <1>3
<1>10. \A r \in Rules : <<r.l1, r.s1>> = c.n => one(r) \in A
  BY <1>7
<1>11. \A r : one(r) = RegisterCall(c.of, RuleListener(c.of, r))
  OBVIOUS
<1> HIDE DEF one, A, new, at
<1>12. A \in SUBSET SumCall /\ \A d \in A : KnownCall(d) /\ d.op = "register" /\ \A T : Carries(T, d)
  BY <1>7, <1>8
<1>13. Moves(c, made) /\ agenda' \in Seq(SUBSET SumCall)
  BY <1>4, <1>5, <1>12, SumReturns
<1>14. \A d \in made : KnownCall(d) /\ d.op = "register" /\ \A T : Carries(T, d)
  BY <1>12
<1>15. new \in reached \/ made = A
  OBVIOUS
<1> HIDE DEF made
<1>16. SumTypeOK'
  <2>1. reached' \subseteq Solver \X (Label \X State)
    BY <1>2, <1>5, <1>9 DEF SumTypeOK
  <2> QED BY <1>5, <1>6, <1>13, <2>1 DEF SumTypeOK
<1>17. SumGrow
  BY <1>2, <1>6 DEF SumGrow
<1>18. SumKeeps(c, made)
  <2>1. \A d \in made : KnownCall(d)'
    BY <1>14, <1>17, PlacedKept
  <2> QED BY <1>2, <1>3, <1>6, <1>9, <1>13, <1>16, <1>17, <2>1 DEF SumKeeps
<1>19. Deed(c, made)
  <2>1. SumDone(c)'
    BY <1>2 DEF SumDone, new
  <2> QED BY <1>2, <2>1 DEF Deed
<1>20. News(c, made)
  <2>1. PushesWaited(made)
    BY <1>14, NoPushes
  <2>2. \A x \in reached' : x \in reached \/ \A r \in Rules : <<r.l1, r.s1>> = x[2] =>
          RegisterCall(x[1], RuleListener(x[1], r)) \in made
    BY <1>2, <1>9, <1>10, <1>11, <1>15
  <2> QED BY <1>6, <2>1, <2>2 DEF News, PushesWaited
<1>21. SumFollows(made)
  <2> SUFFICES ASSUME NEW T, SumClosed(T)
               PROVE  ReachHolds(T, new[1], new[2]) /\ \A d \in made : Carries(T, d)'
    BY <1>2, <1>6 DEF SumFollows
  <2>1. ReachHolds(T, c.of, c.n)
    BY <1>1, <1>2 DEF Carries
  <2>2. \A d \in made : Carries(T, d)'
    BY <1>14, <1>17, CarriesKept
  <2> QED BY <1>9, <2>1, <2>2
<1>30. SumEffect(c, made)
  BY <1>13, <1>17, <1>18, <1>19, <1>20, <1>21 DEF SumEffect, SumHeeds
<1> QED BY <1>30

LEMMA SumStartEffect ==
    ASSUME SumInv, SumFollowed, ReachListening,
           NEW s \in Solver, NEW n \in SolverStarts[s], Start(s, n)
    PROVE  \E made : SumEffect(noSumCall, made)
<1> DEFINE new == <<s, n>>
           l == CallAutomatonListener(s)
           p == <<s, l>>
           q == <<s, s>>
           x == StartOf(new)
           d == AddCall(s, x)
<1>1. /\ started' = started \cup {new}
      /\ agenda' = <<{d}>> \o agenda
      /\ updateListeners' = updateListeners \cup {p} /\ nestedListeners' = nestedListeners \cup {q}
      /\ \A u \in Created : LookAlike(s, u)
      /\ UNCHANGED <<trans, nested, stateListeners, reached, reports>>
  BY SumLoops DEF Start, StartOf
<1>2. n \in (Label \ {Eps}) \X Control
  BY SummariesAssumption
<1>3. n[1] \in Label \ {Eps} /\ n[2] \in Control /\ Initial(s) \in SumTarget /\ s \in Automaton
  BY <1>2, AutomatonKinds
<1>4. x = Trans(n[2], n[1], Initial(s))
  BY DEF StartOf
<1>5. /\ x \in SumEdge /\ x.start \in Control /\ x.target = Initial(s) /\ x.start \notin Generated
      /\ Proper(s, x) /\ SummaryOf(s, x.target) = s
  BY <1>3, <1>4, TransEdges, TransFieldsOf, SummariesAssumption, SummaryFacts DEF Proper
<1>6. d \in SumCall
  BY <1>3, <1>5, SumConstructors, SumCallsTyped
<1>7. /\ new \in Solver \X ((Label \ {Eps}) \X Control) /\ new[1] = s /\ new[2] = n
      /\ p \in Automaton \X UpdateListener /\ p[1] = s /\ p[2] = l
      /\ q \in Automaton \X Solver /\ q[1] = s /\ q[2] = s
  BY <1>2, <1>3, ListenersTyped
<1>8. SumTypeOK
  BY DEF SumInv
<1>9. UNCHANGED <<trans, nested, stateListeners, reached, connected>>
  BY <1>1 DEF reports
<1>10. noSumCall \notin SumCall
  BY SumCallOps, SumConstructors DEF Telling, Giving
<1>11. s \in Created'
  <2> HIDE DEF new
  <2> QED BY <1>1, <1>7 DEF Created
<1>12. KnownCall(d)'
  <2>1. KnownBy'
    BY KnownFacts, PTL
  <2> QED BY <1>5, <1>11, <2>1 DEF KnownBy
<1>13. PushesWaited({d})
  BY <1>5, NoPushes
<1>14. l.of = s /\ l.kind = "reach"
  BY DEF CallAutomatonListener
\* When the solver was there already, its listener was.
<1>15. \/ p \in updateListeners
       \/ (\A u \in trans : u[1] # s) /\ (\A e \in nested : e[1] # s)
  <2>1. CASE s \in Created
    <3>1. PICK y \in started : y[1] = s
      BY <2>1 DEF Created
    <3>2. <<y[1], CallAutomatonListener(y[1])>> \in updateListeners
      BY <3>1 DEF ReachListening
    <3>3. p \in updateListeners
      BY <3>1, <3>2
    <3> QED BY <3>3
  <2>2. CASE s \notin Created
    BY <2>2, NothingYet
  <2> QED BY <2>1, <2>2
<1>16. d = AddCall(new[1], StartOf(new))
  BY <1>7
<1>17. StartOf(new) = x
  OBVIOUS
<1> HIDE DEF d, x, new, p, q, l
<1>18. agenda' \in Seq(SUBSET SumCall) /\ Moves(noSumCall, {d})
  <2> DEFINE K == SumCall
  <2>1. agenda \in Seq(SUBSET K) /\ {d} \in SUBSET K /\ noSumCall \notin K
    BY <1>6, <1>8, <1>10 DEF SumTypeOK
  <2> HIDE DEF K
  <2>2. <<{d}>> \in Seq(SUBSET K)
    BY <2>1, LoopTypes
  <2>3. agenda' \in Seq(SUBSET K)
    BY <1>1, <2>1, <2>2, PushedStack
  <2>4. Moves(noSumCall, {d})
    BY <1>1, <2>1, PushMoves
  <2> QED BY <2>3, <2>4 DEF K
<1>19. SumTypeOK'
  <2>1. started' \subseteq Solver \X ((Label \ {Eps}) \X Control)
        /\ \A y \in started' : y[2] \in SolverStarts[y[1]]
    BY <1>1, <1>7, <1>8 DEF SumTypeOK
  <2>2. /\ updateListeners' \subseteq Automaton \X UpdateListener
        /\ nestedListeners' \subseteq Automaton \X Solver
    BY <1>1, <1>7, <1>8 DEF SumTypeOK
  <2> QED BY <1>8, <1>9, <1>18, <2>1, <2>2 DEF SumTypeOK
<1>20. SumGrow
  BY <1>1, <1>9 DEF SumGrow
<1>21. SumKeeps(noSumCall, {d})
  <2>1. Placed(s, s)'
    BY <1>20, PlacedKept, PlacedFacts
  <2>2. GoodListener(p[1], p[2])'
    <3>1. GoodListener(s, l)'
      BY <1>11, <1>14, <2>1 DEF GoodListener
    <3> QED BY <1>7, <3>1
  <2>3. (q[2] \in Created /\ Placed(q[2], q[1]))'
    BY <1>7, <1>11, <2>1
  <2>4. \A y, z \in started' : (y \in started /\ z \in started) \/ LookAlike(y[1], z[1])
    <3>1. \A y \in started : LookAlike(s, y[1]) /\ LookAlike(y[1], s)
      BY <1>1 DEF Created, LookAlike
    <3>2. LookAlike(s, s)
      BY DEF LookAlike
    <3> QED BY <1>1, <1>7, <3>1, <3>2
  <2> QED BY <1>1, <1>9, <1>12, <1>18, <1>19, <1>20, <2>2, <2>3, <2>4 DEF SumKeeps
<1>22. Deed(noSumCall, {d})
  BY SumConstructors DEF Deed, Basic
<1>23. News(noSumCall, {d})
  <2>1. \A y \in started' : y \in started \/
          /\ AddCall(y[1], StartOf(y)) \in {d}
          /\ <<y[1], CallAutomatonListener(y[1])>> \in updateListeners'
    <3>1. <<new[1], CallAutomatonListener(new[1])>> \in updateListeners'
      BY <1>1, <1>7 DEF p, l
    <3> QED BY <1>1, <1>16, <3>1
  <2>2. \A v \in updateListeners' : v \in updateListeners \/
          /\ HandUpdateOnCall(v[1], v[2]) \in {d} \/ \A e \in nested' : e[1] # v[1]
          /\ \A u \in trans' : v[1] = u[1] => HearCall(v[2], u[2], u[1]) \in {d}
    <3>1. CASE p \in updateListeners
      BY <1>1, <3>1
    <3>2. CASE (\A u \in trans : u[1] # s) /\ (\A e \in nested : e[1] # s)
      BY <1>1, <1>7, <1>9, <3>2
    <3> QED BY <1>15, <3>1, <3>2
  <2> QED BY <1>9, <1>13, <2>1, <2>2 DEF News, PushesWaited
<1>24. SumFollows({d})
  <2> SUFFICES ASSUME NEW T
               PROVE  Carries(T, d)' /\ TrueListener(T, p[2])
    BY <1>1, <1>9 DEF SumFollows
  <2>1. Enters(T, s)' => x \in T
    <3>1. new \in started'
      BY <1>1
    <3> QED BY <1>7, <1>17, <3>1 DEF Enters, EntersStart, AllStarts
  <2>2. Holds(T, SummaryOf(s, x.target), x)'
    BY <1>5, <2>1 DEF Holds
  <2>3. CarriedBy'
    BY CarriedFacts, PTL
  <2>4. Carries(T, AddCall(s, x))'
    BY <2>2, <2>3 DEF CarriedBy
  <2>5. TrueListener(T, p[2])
    BY <1>7, <1>14 DEF TrueListener
  <2> QED BY <2>4, <2>5 DEF d
<1> QED BY <1>18, <1>20, <1>21, <1>22, <1>23, <1>24 DEF SumEffect, SumHeeds

LEMMA SumEndEffect ==
    ASSUME SumInv, SumFollowed, SummariesEndLoop
    PROVE  \E made : SumEffect(noSumCall, made)
<1>1. LoopEnds /\ UNCHANGED summariesData
  BY DEF SummariesEndLoop
<1>2. agenda' \in Seq(SUBSET SumCall) /\ Moves(noSumCall, {})
  <2> DEFINE K == SumCall
  <2>1. agenda \in Seq(SUBSET K)
    BY DEF SumInv, SumTypeOK
  <2> HIDE DEF K
  <2>2. agenda' \in Seq(SUBSET K) /\ Moves(noSumCall, {})
    BY <1>1, <2>1, EndedStack, EndMoves
  <2> QED BY <2>2 DEF K
<1>3. UNCHANGED <<trans, nested, summariesListeners, reached, started>> /\ connected' = connected
  BY <1>1 DEF summariesData, reports
<1>4. Deed(noSumCall, {})
  BY SumConstructors DEF Deed, Basic
<1>5. SumEffect(noSumCall, {})
  BY <1>2, <1>3, <1>4, NoPushes, SumQuietEffect
<1> QED BY <1>5

(***************************************************************************)
(* The inductive invariant.                                                *)
(***************************************************************************)
SumIInv == SumInv /\ SumOwed /\ SumFollowed

LEMMA SumEffects ==
    ASSUME SumInv, SumFollowed, ReachListening, SummariesNext
    PROVE  \E c, made : SumEffect(c, made) /\ (Pending(c) \/ c = noSumCall)
<1>1. \A c \in Innermost : Pending(c)
  BY SumCallAt
<1>2. CASE SummariesEndLoop
  BY <1>2, SumEndEffect
<1>3. CASE \E s \in Solver : \E n \in SolverStarts[s] : Start(s, n)
  BY <1>3, SumStartEffect
<1>4. ASSUME NEW c \in Innermost,
             \/ AddTransition(c) \/ NotifyListeners(c) \/ RegisterStateListener(c)
             \/ RegisterUpdateListener(c) \/ HandOn(c) \/ AddNestedAutomaton(c)
             \/ GiveListeners(c) \/ GiveNestedListener(c) \/ RegisterNestedListener(c)
      PROVE  \E made : SumEffect(c, made)
  BY <1>4, AddEffect, NotifyEffect, RegisterEffect, RegisterUpdateEffect, HandOnEffect, NestEffect,
     GiveEffect, GiveOneEffect, RegisterNestedEffect
<1>5. ASSUME NEW c \in Innermost,
             \/ OnNormal(c) \/ OnPush(c) \/ OnPop(c) \/ OnTransitive(c) \/ OnEpsilon(c)
             \/ OnSummary(c) \/ OnEntered(c) \/ OnReturned(c) \/ OnWeightAdded(c)
             \/ SetContextReachable(c)
      PROVE  \E made : SumEffect(c, made)
  BY <1>5, NormalEffect, PushEffect, PopEffect, TransitiveEffect, EpsilonEffect, SummaryEffect,
     EnteredEffect, ReturnedEffect, WeightEffect, ReachEffect
<1>6. CASE \E c \in Innermost : \E made : SumEffect(c, made)
  BY <1>1, <1>6
<1> QED BY <1>2, <1>3, <1>4, <1>5, <1>6 DEF SummariesNext, SummariesStep

LEMMA SumIInvStep == SumIInv /\ [SummariesNext]_summariesVars => SumIInv'
<1> SUFFICES ASSUME SumIInv, [SummariesNext]_summariesVars
             PROVE  SumIInv'
  OBVIOUS
<1>1. CASE SummariesNext
  <2>1. PICK c, made : SumEffect(c, made) /\ (Pending(c) \/ c = noSumCall)
    BY <1>1, SumEffects DEF SumIInv, SumOwed
  <2>2. /\ SumKeeps(c, made) /\ SumHeeds(c, made) /\ SumFollows(made)
        /\ SumGrow /\ Moves(c, made)
    BY <2>1 DEF SumEffect, SumKeeps
  <2>3. SumInv'
    BY <2>2, SumKept DEF SumIInv
  <2>4. SumOwed'
    BY <2>1, <2>2, SumOwedAfter DEF SumIInv, SumInv
  <2>5. SumFollowed'
    BY <2>2, SumFollowedAfter DEF SumIInv
  <2> QED BY <2>3, <2>4, <2>5 DEF SumIInv
<1>2. CASE UNCHANGED summariesVars
  <2>1. UNCHANGED <<trans, nested, stateListeners, updateListeners, nestedListeners, reached,
                    connected, unbalanced, started, agenda>>
    BY <1>2 DEF summariesVars, summariesData, summariesListeners, reports
  <2>2. SumInv'
    <3>1. SumTypeOK' /\ \A d : (Pending(d)' <=> Pending(d))
      BY <2>1 DEF SumIInv, SumInv, SumTypeOK, Pending
    <3>2. SumGrow /\ Created' = Created
      BY <2>1 DEF SumGrow, Created
    <3>3. \A a, b : (NestPlace(a, b)' <=> NestPlace(a, b)) /\ (InPlace(a, b)' <=> InPlace(a, b))
      BY <3>2 DEF NestPlace, InPlace
    <3>4. \A a, l : GoodListener(a, l) => GoodListener(a, l)'
      BY <3>2, PlacedKept DEF GoodListener
    <3>5. \A d : KnownCall(d) => KnownCall(d)'
      BY <2>1, <3>2, <3>3, <3>4, PlacedKept DEF KnownCall
    <3> QED BY <2>1, <3>1, <3>2, <3>3, <3>4, <3>5, PlacedKept DEF SumIInv, SumInv
  <2>3. SumOwed'
    <3>1. \A d : (Pending(d)' <=> Pending(d)) /\ (SumAsked(d)' <=> SumAsked(d))
      BY <2>1 DEF SumAsked, SumDone, Pending
    <3>2. \A l, t, a : Answered(l, t, a)' <=> Answered(l, t, a)
      BY <2>1, <3>1 DEF Answered
    <3>3. StartsOwed' /\ ReachOwed' /\ SummaryOwed' /\ ReachListening'
      BY <2>1, <3>1 DEF SumIInv, SumOwed, StartsOwed, ReachOwed, SummaryOwed, ReachListening, Created
    <3>4. StateOwed' /\ UpdateOwed'
      BY <2>1, <3>1, <3>2 DEF SumIInv, SumOwed, StateOwed, UpdateOwed
    <3>5. HandOnOwed' /\ HandUpdateOnOwed'
      BY <2>1, <3>1 DEF SumIInv, SumOwed, HandOnOwed, HandUpdateOnOwed
    <3> QED BY <3>3, <3>4, <3>5 DEF SumOwed
  <2>4. SumFollowed'
    BY <2>1 DEF SumIInv, SumFollowed, Bounded, Holds, Enters, EntersCall, EntersStart, AllStarts,
                Sharing, TrueListener, ReachHolds, Leads, Carries, Pending
  <2> QED BY <2>2, <2>3, <2>4 DEF SumIInv
<1> QED BY <1>1, <1>2

LEMMA SumIInvInit == SummariesInit => SumIInv
<1> SUFFICES ASSUME SummariesInit
             PROVE  SumIInv
  OBVIOUS
<1>1. /\ trans = {} /\ nested = {} /\ stateListeners = {} /\ updateListeners = {}
      /\ nestedListeners = {} /\ reached = {} /\ started = {} /\ agenda = <<>>
  BY DEF SummariesInit
<1>2. \A d : ~Pending(d)
  BY <1>1 DEF Pending
<1>3. SumTypeOK
  BY <1>1, LoopTypes DEF SumTypeOK
<1>4. SumInv
  BY <1>1, <1>2, <1>3 DEF SumInv
<1>5. SumOwed
  <2>1. StartsOwed /\ StateOwed /\ UpdateOwed /\ HandOnOwed /\ HandUpdateOnOwed /\ ReachOwed
        /\ ReachListening
    BY <1>1 DEF StartsOwed, StateOwed, UpdateOwed, HandOnOwed, HandUpdateOnOwed, ReachOwed,
                ReachListening
  <2>2. SummaryOwed
    BY <1>1, <1>2, SumConstructors DEF SummaryOwed, SumAsked, SumDone
  <2> QED BY <2>1, <2>2 DEF SumOwed
<1>6. SumFollowed
  BY <1>1, <1>2 DEF SumFollowed, Bounded
<1> QED BY <1>4, <1>5, <1>6 DEF SumIInv

LEMMA SumIInvAlways == SummariesSpec => []SumIInv
BY SumIInvInit, SumIInvStep, PTL DEF SummariesSpec

(***************************************************************************)
(* What there is to be: the least set that the rules add nothing to.       *)
(***************************************************************************)
Entailing(T, d) ==
    \/ \E t \in T, r \in Rules : /\ r.kind = "normal" /\ r.s1 = t.start /\ r.l1 = t.label
                                 /\ d = Trans(r.s2, r.l2, t.target)
    \/ \E t \in T, r \in Rules : /\ r.kind = "push" /\ r.s1 = t.start /\ r.l1 = t.label
                                 /\ d = PushOf(r, t) \/ d = EntryOf(r)
    \/ \E t \in T, r \in Rules : /\ r.kind = "pop" /\ r.s1 = t.start /\ r.l1 = t.label
                                 /\ t.target \in Generated /\ d = Trans(r.s2, Eps, t.target)
    \/ \E t, u \in T : /\ t.label = Eps /\ t.target = u.start
                       /\ d = Trans(t.start, u.label, u.target)

LEMMA InEntails ==
    ASSUME NEW T, NEW d
    PROVE  d \in Entails(T) <=> Entailing(T, d)
<1> DEFINE normal(t) == {Trans(r.s2, r.l2, t.target) :
                           r \in {p \in Rules : p.kind = "normal" /\ <<p.s1, p.l1>> = <<t.start, t.label>>}}
           push(t) == UNION {{Trans(CreateState(r.s2, r.l2), r.callSite, t.target),
                              Trans(r.s2, r.l2, CreateState(r.s2, r.l2))} :
                           r \in {p \in Rules : p.kind = "push" /\ <<p.s1, p.l1>> = <<t.start, t.label>>}}
           pop(t) == {Trans(r.s2, Eps, t.target) :
                        r \in {p \in Rules : /\ p.kind = "pop" /\ t.target \in Generated
                                             /\ <<p.s1, p.l1>> = <<t.start, t.label>>}}
           pairs == {q \in T \X T : q[1].label = Eps /\ q[1].target = q[2].start}
           through == {Trans(p[1].start, p[2].label, p[2].target) : p \in pairs}
<1>1. \A t : d \in normal(t) <=>
        \E r \in Rules : /\ r.kind = "normal" /\ r.s1 = t.start /\ r.l1 = t.label
                         /\ d = Trans(r.s2, r.l2, t.target)
  OBVIOUS
<1>2. \A t : d \in push(t) <=>
        \E r \in Rules : /\ r.kind = "push" /\ r.s1 = t.start /\ r.l1 = t.label
                         /\ d = PushOf(r, t) \/ d = EntryOf(r)
  BY DEF PushOf, EntryOf, EntryState
<1>3. \A t : d \in pop(t) <=>
        \E r \in Rules : /\ r.kind = "pop" /\ r.s1 = t.start /\ r.l1 = t.label
                         /\ t.target \in Generated /\ d = Trans(r.s2, Eps, t.target)
  OBVIOUS
<1>4. d \in through <=> \E t, u \in T : /\ t.label = Eps /\ t.target = u.start
                                        /\ d = Trans(t.start, u.label, u.target)
  <2>1. ASSUME d \in through
        PROVE  \E t, u \in T : /\ t.label = Eps /\ t.target = u.start
                               /\ d = Trans(t.start, u.label, u.target)
    <3>1. PICK p \in pairs : d = Trans(p[1].start, p[2].label, p[2].target)
      BY <2>1
    <3>2. p[1] \in T /\ p[2] \in T /\ p[1].label = Eps /\ p[1].target = p[2].start
      OBVIOUS
    <3> QED BY <3>1, <3>2
  <2>2. ASSUME NEW t \in T, NEW u \in T, t.label = Eps, t.target = u.start,
               d = Trans(t.start, u.label, u.target)
        PROVE  d \in through
    <3> DEFINE p == <<t, u>>
    <3>1. p \in pairs /\ p[1] = t /\ p[2] = u
      BY <2>2
    <3> HIDE DEF p, pairs
    <3> QED BY <2>2, <3>1
  <2> QED BY <2>1, <2>2
<1>5. Entails(T) = (UNION {normal(t) : t \in T}) \cup (UNION {push(t) : t \in T})
                     \cup (UNION {pop(t) : t \in T}) \cup through
  BY DEF Entails
<1> HIDE DEF normal, push, pop, through
<1>6. d \in Entails(T) <=> \/ d \in UNION {normal(t) : t \in T}
                           \/ d \in UNION {push(t) : t \in T}
                           \/ d \in UNION {pop(t) : t \in T}
                           \/ d \in through
  BY <1>5, Zenon
<1>7. /\ d \in UNION {normal(t) : t \in T} <=> \E t \in T : d \in normal(t)
      /\ d \in UNION {push(t) : t \in T} <=> \E t \in T : d \in push(t)
      /\ d \in UNION {pop(t) : t \in T} <=> \E t \in T : d \in pop(t)
  OBVIOUS
<1>8. d \in Entails(T) <=> \/ \E t \in T : d \in normal(t)
                           \/ \E t \in T : d \in push(t)
                           \/ \E t \in T : d \in pop(t)
                           \/ d \in through
  BY <1>6, <1>7, Zenon
<1> QED BY <1>1, <1>2, <1>3, <1>4, <1>8 DEF Entailing

LEMMA ClosedEntails ==
    ASSUME NEW T
    PROVE  SumClosed(T) <=> Entails(T) \subseteq T
<1>1. Entails(T) \subseteq T <=> \A d : Entailing(T, d) => d \in T
  BY InEntails
<1>2. ASSUME SumClosed(T), NEW d, Entailing(T, d) PROVE d \in T
  BY <1>2 DEF SumClosed, Entailing
<1>3. ASSUME \A d : Entailing(T, d) => d \in T PROVE SumClosed(T)
  BY <1>3 DEF SumClosed, Entailing
<1> QED BY <1>1, <1>2, <1>3

LEMMA EntailsTypes ==
    /\ \A T \in SUBSET Transition : Entails(T) \in SUBSET Transition
    /\ \A T, V : T \subseteq V => Entails(T) \subseteq Entails(V)
<1>1. ASSUME NEW T \in SUBSET Transition, NEW d, Entailing(T, d)
      PROVE  d \in Transition
  <2>1. \A q \in State, a \in Label, z \in State : Trans(q, a, z) \in Transition
    BY DEF Trans, Transition
  <2>2. \A t \in T : t.start \in State /\ t.label \in Label /\ t.target \in State
    BY DEF Transition
  <2>3. Control \subseteq State /\ Generated \subseteq State /\ Eps \in Label
    BY SummariesAssumption DEF State
  <2>4. \A t \in T, r \in Rules : r.kind = "push" =>
          PushOf(r, t) \in Transition /\ EntryOf(r) \in Transition
    <3> SUFFICES ASSUME NEW t \in T, NEW r \in Rules, r.kind = "push"
                 PROVE  PushOf(r, t) \in Transition /\ EntryOf(r) \in Transition
      OBVIOUS
    <3>1. EntryState(r) \in Generated
      BY EntryFacts
    <3> QED BY <2>1, <2>2, <2>3, <3>1, RulesTyped DEF PushOf, EntryOf
  <2>5. \A t \in T, r \in Rules : r.kind = "normal" => Trans(r.s2, r.l2, t.target) \in Transition
    BY <2>1, <2>2, <2>3, RulesTyped
  <2>6. \A t \in T, r \in Rules : Trans(r.s2, Eps, t.target) \in Transition
    BY <2>1, <2>2, <2>3, RulesTyped
  <2> QED BY <1>1, <2>1, <2>2, <2>4, <2>5, <2>6 DEF Entailing
<1>2. ASSUME NEW T, NEW V, T \subseteq V, NEW d, Entailing(T, d)
      PROVE  Entailing(V, d)
  BY <1>2 DEF Entailing
<1> QED BY <1>1, <1>2, InEntails

LEMMA SumFinite == IsFiniteSet(Automaton) /\ IsFiniteSet(Transition)
<1> DEFINE I == {Initial(s) : s \in Solver}
<1>1. IsFiniteSet(I)
  <2> DEFINE f == [s \in Solver |-> Initial(s)]
  <2>1. f \in [Solver -> I] /\ \A t \in I : \E s \in Solver : f[s] = t
    OBVIOUS
  <2> HIDE DEF f, I
  <2> QED BY <2>1, ImageFinite, SummariesFinite
<1>2. IsFiniteSet(Automaton)
  BY SummariesFinite, FS_Union DEF Automaton
<1>3. IsFiniteSet(State)
  <2>1. IsFiniteSet(Control \cup Generated)
    BY SummariesFinite, FS_Union
  <2> QED BY <1>1, <2>1, FS_Union DEF State
<1>4. IsFiniteSet(Transition)
  <2> DEFINE N == State \X (Label \X State)
             name == [t \in Transition |-> <<t.start, <<t.label, t.target>>>>]
  <2>1. IsFiniteSet(Label \X State)
    BY <1>3, SummariesFinite, FS_Product
  <2>2. IsFiniteSet(N)
    BY <1>3, <2>1, FS_Product
  <2>3. name \in [Transition -> N] /\ \A t, u \in Transition : name[t] = name[u] => t = u
    BY DEF Transition
  <2> HIDE DEF N, name
  <2> QED BY <2>2, <2>3, NamedFinite
<1> QED BY <1>2, <1>4

LEMMA SaturatedLeast ==
    ASSUME NEW S \in SUBSET Transition
    PROVE  /\ SaturatedFrom(S) \in SUBSET Transition
           /\ S \subseteq SaturatedFrom(S) /\ SumClosed(SaturatedFrom(S))
           /\ \A T \in SUBSET Transition : S \subseteq T /\ SumClosed(T) => SaturatedFrom(S) \subseteq T
<1> DEFINE D == SUBSET Transition
           after(T) == T \cup Entails(T)
           further == [T \in D |-> after(T)]
           all(f) == [T \in D |-> LET new == after(T) IN IF new = T THEN T ELSE f[new]]
<1>1. \A T \in D : after(T) \in D /\ T \subseteq after(T)
  BY EntailsTypes
<1>2. Expands(Transition, further)
  <2>1. IsFiniteSet(Transition) /\ further \in [D -> D]
    BY <1>1, SumFinite
  <2>2. \A x \in D : x \subseteq further[x]
    BY <1>1
  <2>3. \A x, y \in D : x \subseteq y => further[x] \subseteq further[y]
    BY EntailsTypes
  <2> QED BY <2>1, <2>2, <2>3 DEF Expands
<1>3. \A f : Repeats(D, further, f) <=> f = all(f)
  <2> SUFFICES ASSUME NEW f PROVE Repeats(D, further, f) <=> f = all(f)
    OBVIOUS
  <2> QED BY DEF Repeats
<1> HIDE DEF D
<1>4. /\ \E f : Repeats(D, further, f)
      /\ \A f : Repeats(D, further, f) => Closes(Transition, further, f)
  BY <1>2, SetClosure DEF D
<1> DEFINE close == CHOOSE f : f = all(f)
<1>5. SaturatedFrom(S) = close[S]
  BY Zenon DEF SaturatedFrom, D
<1>6. close = all(close)
  <2>1. \E f : f = all(f)
    BY <1>3, <1>4
  <2> HIDE DEF all
  <2> QED BY <2>1
<1>7. Closes(Transition, further, close)
  BY <1>3, <1>4, <1>6
<1> HIDE DEF close
<1>8. \A T \in D : further[T] = after(T)
  OBVIOUS
<1> HIDE DEF further
<1>9. /\ close[S] \in D /\ S \subseteq close[S] /\ further[close[S]] = close[S]
      /\ \A T \in D : S \subseteq T /\ further[T] \subseteq T => close[S] \subseteq T
  BY <1>7 DEF Closes, D
<1>10. \A T \in D : further[T] \subseteq T <=> SumClosed(T)
  BY <1>8, ClosedEntails
<1> QED BY <1>5, <1>9, <1>10 DEF D

LEMMA BelowLeast ==
    ASSUME SumTypeOK, NEW a \in Automaton
    PROVE  /\ Below(a) \in SUBSET Automaton /\ a \in Below(a) /\ NestClosed(Below(a))
           /\ \A S \in SUBSET Automaton : a \in S /\ NestClosed(S) => Below(a) \subseteq S
<1> DEFINE D == SUBSET Automaton
           after(A) == A \cup {p[2] : p \in {q \in nested : q[1] \in A}}
           further == [A \in D |-> after(A)]
           all(f) == [A \in D |-> LET new == after(A) IN IF new = A THEN A ELSE f[new]]
<1>1. \A A \in D : after(A) \in D /\ A \subseteq after(A)
  BY AutomatonKinds DEF SumTypeOK
<1>2. Expands(Automaton, further)
  <2>1. IsFiniteSet(Automaton) /\ further \in [D -> D]
    BY <1>1, SumFinite
  <2>2. \A x \in D : x \subseteq further[x]
    BY <1>1
  <2>3. \A x, y \in D : x \subseteq y => further[x] \subseteq further[y]
    OBVIOUS
  <2> QED BY <2>1, <2>2, <2>3 DEF Expands
<1>3. \A f : Repeats(D, further, f) <=> f = all(f)
  <2> SUFFICES ASSUME NEW f PROVE Repeats(D, further, f) <=> f = all(f)
    OBVIOUS
  <2> QED BY DEF Repeats
<1> HIDE DEF D
<1>4. /\ \E f : Repeats(D, further, f)
      /\ \A f : Repeats(D, further, f) => Closes(Automaton, further, f)
  BY <1>2, SetClosure DEF D
<1> DEFINE close == CHOOSE f : f = all(f)
<1>5. Below(a) = close[{a}]
  BY Zenon DEF Below, D
<1>6. close = all(close)
  <2>1. \E f : f = all(f)
    BY <1>3, <1>4
  <2> HIDE DEF all
  <2> QED BY <2>1
<1>7. Closes(Automaton, further, close)
  BY <1>3, <1>4, <1>6
<1> HIDE DEF close
<1>8. \A A \in D : further[A] = after(A)
  OBVIOUS
<1> HIDE DEF further
<1>9. {a} \in D
  BY DEF D
<1>10. /\ close[{a}] \in D /\ {a} \subseteq close[{a}] /\ further[close[{a}]] = close[{a}]
       /\ \A A \in D : {a} \subseteq A /\ further[A] \subseteq A => close[{a}] \subseteq A
  BY <1>7, <1>9 DEF Closes, D
<1>11. \A A \in D : further[A] \subseteq A <=> NestClosed(A)
  BY <1>8 DEF NestClosed
<1>12. PICK B : B = Below(a)
  OBVIOUS
<1>13. /\ B \in D /\ a \in B /\ further[B] \subseteq B
       /\ \A A \in D : a \in A /\ further[A] \subseteq A => B \subseteq A
  BY <1>5, <1>10, <1>12
<1>14. B \in D /\ a \in B /\ NestClosed(B) /\ \A A \in D : a \in A /\ NestClosed(A) => B \subseteq A
  BY <1>11, <1>13
<1> QED BY <1>12, <1>14 DEF D

LEMMA BelowPlaced ==
    ASSUME SumTypeOK, NEW s \in Solver, NEW a
    PROVE  a \in Below(s) <=> Placed(s, a)
<1>1. PICK B : B = Below(s)
  OBVIOUS
<1>2. /\ B \in SUBSET Automaton /\ s \in B /\ NestClosed(B)
      /\ \A S \in SUBSET Automaton : s \in S /\ NestClosed(S) => B \subseteq S
  BY <1>1, BelowLeast, AutomatonKinds
<1> QED BY <1>1, <1>2 DEF Placed

(***************************************************************************)
(* When all calls have returned.                                           *)
(***************************************************************************)
LEMMA SettledFacts ==
    ASSUME SumIInv, Idle
    PROVE  /\ \A d : SumAsked(d) => SumDone(d)
           /\ \A a, l, t : <<a, l>> \in stateListeners /\ <<a, t>> \in trans /\ Hears(l, t)
                             => Answered(l, t, a)
           /\ \A a, l, t : <<a, l>> \in updateListeners /\ <<a, t>> \in trans => Answered(l, t, a)
<1>1. \A d : ~Pending(d)
  BY DEF Idle, Pending
<1>2. \A p \in stateListeners, u \in trans :
        p[1] = u[1] /\ Hears(p[2], u[2]) => Answered(p[2], u[2], u[1])
  BY <1>1 DEF SumIInv, SumOwed, StateOwed
<1>3. \A p \in updateListeners, u \in trans : p[1] = u[1] => Answered(p[2], u[2], u[1])
  BY <1>1 DEF SumIInv, SumOwed, UpdateOwed
<1>4. ASSUME NEW a, NEW l, NEW t, <<a, t>> \in trans
      PROVE  /\ <<a, l>> \in stateListeners /\ Hears(l, t) => Answered(l, t, a)
             /\ <<a, l>> \in updateListeners => Answered(l, t, a)
  <2> DEFINE p == <<a, l>>
             u == <<a, t>>
  <2>1. u \in trans /\ p[1] = a /\ p[2] = l /\ u[1] = a /\ u[2] = t
    BY <1>4
  <2> HIDE DEF p, u
  <2>2. /\ p \in stateListeners /\ Hears(l, t) => Answered(l, t, a)
        /\ p \in updateListeners => Answered(l, t, a)
    BY <1>2, <1>3, <2>1
  <2> QED BY <2>2 DEF p
<1> QED BY <1>1, <1>4 DEF SumAsked

LEMMA HandedDown ==
    ASSUME SumIInv, Idle, NEW a, NEW b, <<a, b>> \in nested, NEW l
    PROVE  /\ <<a, l>> \in stateListeners =>
                \E k : <<b, k>> \in stateListeners /\ Same(l, k)
           /\ <<a, l>> \in updateListeners => <<b, l>> \in updateListeners
<1> DEFINE e == <<a, b>>
           p == <<a, l>>
<1>1. e \in nested /\ e[1] = a /\ e[2] = b /\ p[1] = a /\ p[2] = l
  OBVIOUS
<1> HIDE DEF e, p
<1>2. \A d : ~Pending(d)
  BY DEF Idle, Pending
<1>3. /\ p \in stateListeners => SumDone(RegisterCall(b, l))
      /\ p \in updateListeners => SumDone(UpdateCall(b, l))
  <2>1. HandOnOwed /\ HandUpdateOnOwed
    BY DEF SumIInv, SumOwed
  <2> QED BY <1>1, <1>2, <2>1, SettledFacts DEF HandOnOwed, HandUpdateOnOwed
<1>4. SumDone(RegisterCall(b, l)) => \E k : <<b, k>> \in stateListeners /\ Same(l, k)
  <2>1. PICK c : c = RegisterCall(b, l) /\ c.op = "register" /\ c.aut = b /\ c.l = l
    BY SumConstructors
  <2> QED BY <2>1 DEF SumDone
<1>5. SumDone(UpdateCall(b, l)) => <<b, l>> \in updateListeners
  <2>1. PICK c : c = UpdateCall(b, l) /\ c.op = "registerUpdate" /\ c.aut = b /\ c.l = l
    BY SumConstructors
  <2> QED BY <2>1 DEF SumDone
<1> QED BY <1>3, <1>4, <1>5 DEF p

LEMMA RuleListenerFields ==
    ASSUME NEW u, NEW r \in Rules
    PROVE  /\ RuleListener(u, r).of = u /\ RuleListener(u, r).rule = r
           /\ RuleListener(u, r).kind = r.kind /\ RuleListener(u, r).s1 = r.s1
           /\ r.kind \in RuleKind /\ ~HearsIn(RuleListener(u, r)) /\ r.kind # "summary"
BY RulesTyped DEF RuleListener, RuleKind, HearsIn

LEMMA EpsilonFields ==
    ASSUME NEW u, NEW t, NEW x
    PROVE  /\ Epsilon(u, t, x).of = u /\ Epsilon(u, t, x).t = t /\ Epsilon(u, t, x).callSite = x
           /\ Epsilon(u, t, x).kind = "epsilon" /\ Epsilon(u, t, x).s1 = t.start
           /\ HearsIn(Epsilon(u, t, x))
BY DEF Epsilon, HearsIn

\* What a solver's automaton listens to, those below it listen to.
LEMMA ListensBelow ==
    ASSUME SumIInv, Idle, NEW s \in Created, NEW a, Placed(s, a)
    PROVE  /\ <<a, CallAutomatonListener(s)>> \in updateListeners
           /\ \A r \in Rules : \A v : <<s, RuleListener(v, r)>> \in stateListeners =>
                \E u : <<a, RuleListener(u, r)>> \in stateListeners
           /\ \A t, x, v : <<s, Epsilon(v, t, x)>> \in stateListeners =>
                \E u : <<a, Epsilon(u, t, x)>> \in stateListeners
<1>1. SumTypeOK /\ ReachListening
  BY DEF SumIInv, SumInv, SumOwed
<1>2. \A b, l : <<b, l>> \in stateListeners => l \in SumListener
  BY <1>1 DEF SumTypeOK
<1>3. \A e \in nested : e = <<e[1], e[2]>> /\ e[2] \in Automaton
  BY <1>1 DEF SumTypeOK
<1>4. s \in Automaton
  BY CreatedFacts, AutomatonKinds DEF SumIInv
<1>5. <<a, CallAutomatonListener(s)>> \in updateListeners
  <2> DEFINE l == CallAutomatonListener(s)
             S == {b \in Automaton : <<b, l>> \in updateListeners}
  <2>1. s \in S
    <3>1. PICK x \in started : x[1] = s
      BY DEF Created
    <3>2. <<x[1], CallAutomatonListener(x[1])>> \in updateListeners
      BY <1>1 DEF ReachListening
    <3> QED BY <1>4, <3>1, <3>2
  <2> HIDE DEF l
  <2>2. NestClosed(S)
    <3> SUFFICES ASSUME NEW e \in nested, <<e[1], l>> \in updateListeners
                 PROVE  <<e[2], l>> \in updateListeners /\ e[2] \in Automaton
      BY DEF NestClosed
    <3>1. PICK b, d : e = <<b, d>> /\ e[1] = b /\ e[2] = d
      BY <1>3
    <3> QED BY <1>3, <3>1, HandedDown
  <2>3. a \in S
    BY <2>1, <2>2 DEF Placed
  <2> QED BY <2>3 DEF l
<1>6. ASSUME NEW r \in Rules, NEW v, <<s, RuleListener(v, r)>> \in stateListeners
      PROVE  \E u : <<a, RuleListener(u, r)>> \in stateListeners
  <2> DEFINE S == {b \in Automaton : \E u : <<b, RuleListener(u, r)>> \in stateListeners}
  <2>1. s \in S
    BY <1>4, <1>6
  <2>2. NestClosed(S)
    <3> SUFFICES ASSUME NEW e \in nested, NEW u, <<e[1], RuleListener(u, r)>> \in stateListeners
                 PROVE  e[2] \in Automaton /\ \E w : <<e[2], RuleListener(w, r)>> \in stateListeners
      BY DEF NestClosed
    <3>1. PICK b, d : e = <<b, d>> /\ e[1] = b /\ e[2] = d
      BY <1>3
    <3>2. PICK k : <<d, k>> \in stateListeners /\ Same(RuleListener(u, r), k)
      BY <3>1, HandedDown
    <3>3. k = RuleListener(k.of, r)
      <4>1. RuleListener(u, r) \in SumListener /\ k \in SumListener
        BY <1>2, <3>2
      <4> QED BY <3>2, <4>1, RuleListenerFields, SameListeners
    <3> QED BY <1>3, <3>1, <3>2, <3>3
  <2>3. a \in S
    BY <2>1, <2>2 DEF Placed
  <2> QED BY <2>3
<1>7. ASSUME NEW t, NEW x, NEW v, <<s, Epsilon(v, t, x)>> \in stateListeners
      PROVE  \E u : <<a, Epsilon(u, t, x)>> \in stateListeners
  <2> DEFINE S == {b \in Automaton : \E u : <<b, Epsilon(u, t, x)>> \in stateListeners}
  <2>1. s \in S
    BY <1>4, <1>7
  <2>2. NestClosed(S)
    <3> SUFFICES ASSUME NEW e \in nested, NEW u, <<e[1], Epsilon(u, t, x)>> \in stateListeners
                 PROVE  e[2] \in Automaton /\ \E w : <<e[2], Epsilon(w, t, x)>> \in stateListeners
      BY DEF NestClosed
    <3>1. PICK b, d : e = <<b, d>> /\ e[1] = b /\ e[2] = d
      BY <1>3
    <3>2. PICK k : <<d, k>> \in stateListeners /\ Same(Epsilon(u, t, x), k)
      BY <3>1, HandedDown
    <3>3. k = Epsilon(k.of, t, x)
      <4>1. Epsilon(u, t, x) \in SumListener /\ k \in SumListener
        BY <1>2, <3>2
      <4> QED BY <3>2, <4>1, EpsilonFields, SameListeners
    <3> QED BY <1>3, <3>1, <3>2, <3>3
  <2>3. a \in S
    BY <2>1, <2>2 DEF Placed
  <2> QED BY <2>3
<1> QED BY <1>5, <1>6, <1>7

\* The transitions below a solver's automaton.
Held(s) == {t \in SumEdge : \E a \in Automaton : Placed(s, a) /\ <<a, t>> \in trans}

LEMMA HeldFacts ==
    ASSUME SumInv, NEW s
    PROVE  /\ \A t \in Held(s) : t \in SumEdge /\ t \in Transition
           /\ \A t \in Held(s) : \E a \in Automaton : Placed(s, a) /\ <<a, t>> \in trans
           /\ \A a, t : Placed(s, a) /\ <<a, t>> \in trans => t \in Held(s)
           /\ \A u, t : SumDone(AddCall(u, t)) => <<SummaryOf(u, t.target), t>> \in trans
<1>1. \A a, t : <<a, t>> \in trans => a \in Automaton /\ t \in SumEdge
  BY SumAt
<1>2. ASSUME NEW u, NEW t, SumDone(AddCall(u, t)) PROVE <<SummaryOf(u, t.target), t>> \in trans
  <2>1. PICK c : c = AddCall(u, t) /\ c.op = "add" /\ c.aut = SummaryOf(u, t.target) /\ c.t = t
    BY SumConstructors
  <2> QED BY <1>2, <2>1 DEF SumDone
<1> QED BY <1>1, <1>2, EdgeFields DEF Held

LEMMA HeldReached ==
    ASSUME SumIInv, Idle, NEW s \in Created, NEW t \in Held(s), t.start \notin Generated
    PROVE  <<s, <<t.label, t.start>>>> \in reached
<1> DEFINE l == CallAutomatonListener(s)
           c == ReachCall(s, <<t.label, t.start>>)
<1>1. PICK a \in Automaton : Placed(s, a) /\ <<a, t>> \in trans
  BY DEF Held
<1>2. <<a, l>> \in updateListeners
  BY <1>1, ListensBelow
<1>3. l.kind = "reach" /\ l.of = s
  BY DEF CallAutomatonListener
<1>4. c.op = "reach" /\ c.of = s /\ c.n = <<t.label, t.start>>
  BY SumConstructors
<1>5. c \in AsksOf(l, t, a)
  BY <1>3 DEF AsksOf
<1> HIDE DEF l, c
<1>6. SumDone(c)
  BY <1>1, <1>2, <1>5, SettledFacts DEF Answered
<1> QED BY <1>4, <1>6 DEF SumDone

\* A transition below a solver's automaton is told to a listener of each rule for it.
LEMMA MatchedBelow ==
    ASSUME SumIInv, Idle, NEW s \in Created, NEW a, Placed(s, a), NEW t, <<a, t>> \in trans,
           NEW r \in Rules, r.s1 = t.start, r.l1 = t.label
    PROVE  \E u \in Created : /\ Placed(u, a) /\ PutBy(u, a, t)
                              /\ \A d \in AsksOf(RuleListener(u, r), t, a) : SumDone(d)
<1>1. SumInv /\ ReachOwed
  BY DEF SumIInv, SumOwed
<1>2. t.start \notin Generated
  BY RulesTyped, SummariesAssumption
<1>3. t \in Held(s)
  BY <1>1, HeldFacts
<1>4. PICK k : <<s, k>> \in stateListeners /\ Same(RuleListener(s, r), k)
  <2> DEFINE x == <<s, <<r.l1, r.s1>>>>
             c == RegisterCall(s, RuleListener(s, r))
  <2>1. x \in reached /\ x[1] = s /\ x[2] = <<r.l1, r.s1>>
    BY <1>2, <1>3, HeldReached
  <2> HIDE DEF x
  <2>2. SumDone(c)
    BY <1>1, <2>1, SettledFacts DEF ReachOwed
  <2>3. c.op = "register" /\ c.aut = s /\ c.l = RuleListener(s, r)
    BY SumConstructors
  <2> HIDE DEF c
  <2> QED BY <2>2, <2>3 DEF SumDone
<1>5. k = RuleListener(k.of, r)
  <2>1. RuleListener(s, r) \in SumListener /\ k \in SumListener
    BY <1>1, <1>4, ListenersTyped, CreatedFacts, SumAt
  <2> QED BY <1>4, <2>1, RuleListenerFields, SameListeners
<1>6. PICK u : <<a, RuleListener(u, r)>> \in stateListeners
  BY <1>4, <1>5, ListensBelow
<1>7. u \in Created /\ Placed(u, a)
  <2>1. GoodListener(a, RuleListener(u, r))
    BY <1>1, <1>6, SumAt
  <2> QED BY <2>1, RuleListenerFields DEF GoodListener
<1>8. PutBy(u, a, t)
  <2>1. InPlace(a, t)
    BY <1>1, SumAt
  <2> QED BY <1>1, <1>7, <2>1, PutByHearer
<1>9. Hears(RuleListener(u, r), t)
  BY RuleListenerFields DEF Hears
<1>10. Answered(RuleListener(u, r), t, a)
  BY <1>6, <1>9, SettledFacts
<1> QED BY <1>7, <1>8, <1>10, SettledFacts DEF Answered

\* What the listener of a push asked for.
LEMMA PushedBelow ==
    ASSUME SumIInv, Idle, NEW s \in Created, NEW a, Placed(s, a), NEW t, <<a, t>> \in trans,
           NEW r \in Rules, r.kind = "push", r.s1 = t.start, r.l1 = t.label
    PROVE  \E u \in Created :
             LET b == SummaryOf(u, EntryState(r))
             IN /\ Placed(u, a) /\ PutBy(u, a, t) /\ <<a, b>> \in nested
                /\ <<a, PushOf(r, t)>> \in trans /\ <<b, EntryOf(r)>> \in trans
                /\ \E k : <<u, k>> \in stateListeners /\ Same(Epsilon(u, PushOf(r, t), r.l1), k)
<1>1. PICK u \in Created : /\ Placed(u, a) /\ PutBy(u, a, t)
                           /\ \A d \in AsksOf(RuleListener(u, r), t, a) : SumDone(d)
  BY MatchedBelow
<1> DEFINE b == SummaryOf(u, EntryState(r))
           l == Epsilon(u, PushOf(r, t), r.l1)
<1>2. EntryAt(RuleListener(u, r)) = b
  BY RuleListenerFields DEF EntryAt
<1>3. {AddCall(u, PushOf(r, t)), NestCall(a, b), AddCall(u, EntryOf(r)), RegisterCall(u, l)}
        \subseteq AsksOf(RuleListener(u, r), t, a)
  BY <1>2, RuleListenerFields DEF AsksOf
<1>4. /\ SumDone(AddCall(u, PushOf(r, t))) /\ SumDone(NestCall(a, b))
      /\ SumDone(AddCall(u, EntryOf(r))) /\ SumDone(RegisterCall(u, l))
  BY <1>1, <1>3
<1>5. PushOf(r, t).target = t.target /\ EntryOf(r).target = EntryState(r)
  BY TransFieldsOf DEF PushOf, EntryOf
<1>6. <<a, PushOf(r, t)>> \in trans /\ <<b, EntryOf(r)>> \in trans
  <2>1. /\ <<SummaryOf(u, PushOf(r, t).target), PushOf(r, t)>> \in trans
        /\ <<SummaryOf(u, EntryOf(r).target), EntryOf(r)>> \in trans
    BY <1>4, HeldFacts DEF SumIInv
  <2>2. a = SummaryOf(u, t.target)
    BY <1>1 DEF PutBy
  <2> QED BY <1>5, <2>1, <2>2
<1> HIDE DEF b, l
<1>7. <<a, b>> \in nested
  <2>1. PICK c : c = NestCall(a, b) /\ c.op = "nest" /\ c.aut = a /\ c.child = b
    BY SumConstructors
  <2> QED BY <1>4, <2>1 DEF SumDone
<1>8. \E k : <<u, k>> \in stateListeners /\ Same(l, k)
  <2>1. PICK c : c = RegisterCall(u, l) /\ c.op = "register" /\ c.aut = u /\ c.l = l
    BY SumConstructors
  <2> QED BY <1>4, <2>1 DEF SumDone
<1> QED BY <1>1, <1>6, <1>7, <1>8 DEF b, l

\* The transitions below a solver's automaton are all that the rules entail of them.
LEMMA HeldClosed ==
    ASSUME SumIInv, Idle, NEW s \in Created
    PROVE  SumClosed(Held(s))
<1>1. SumInv /\ SummaryOwed
  BY DEF SumIInv, SumOwed
<1>2. ASSUME NEW t \in Held(s), NEW r \in Rules, r.s1 = t.start, r.l1 = t.label,
             NEW d, d.target = t.target,
             \A u, a : AddCall(u, d) \in AsksOf(RuleListener(u, r), t, a)
      PROVE  d \in Held(s)
  <2>1. PICK a \in Automaton : Placed(s, a) /\ <<a, t>> \in trans
    BY <1>1, HeldFacts
  <2>2. PICK u \in Created : /\ PutBy(u, a, t)
                             /\ \A c \in AsksOf(RuleListener(u, r), t, a) : SumDone(c)
    BY <1>2, <2>1, MatchedBelow
  <2>3. <<SummaryOf(u, d.target), d>> \in trans
    BY <1>1, <1>2, <2>2, HeldFacts
  <2>4. <<a, d>> \in trans
    BY <1>2, <2>2, <2>3 DEF PutBy
  <2> QED BY <1>1, <2>1, <2>4, HeldFacts
<1>3. ASSUME NEW t \in Held(s), NEW r \in Rules, r.kind = "normal", r.s1 = t.start, r.l1 = t.label
      PROVE  Trans(r.s2, r.l2, t.target) \in Held(s)
  <2> DEFINE d == Trans(r.s2, r.l2, t.target)
  <2>1. d.target = t.target
    BY TransFieldsOf
  <2>2. \A u, a : AddCall(u, d) \in AsksOf(RuleListener(u, r), t, a)
    BY <1>3, RuleListenerFields DEF AsksOf
  <2> HIDE DEF d
  <2>3. d \in Held(s)
    BY <1>2, <1>3, <2>1, <2>2
  <2> QED BY <2>3 DEF d
<1>4. ASSUME NEW t \in Held(s), NEW r \in Rules, r.kind = "push", r.s1 = t.start, r.l1 = t.label
      PROVE  PushOf(r, t) \in Held(s) /\ EntryOf(r) \in Held(s)
  <2>1. PICK a \in Automaton : Placed(s, a) /\ <<a, t>> \in trans
    BY <1>1, HeldFacts
  <2>2. PICK b : /\ <<a, b>> \in nested /\ <<a, PushOf(r, t)>> \in trans
                 /\ <<b, EntryOf(r)>> \in trans
    BY <1>4, <2>1, PushedBelow
  <2>3. Placed(s, b)
    BY <2>1, <2>2, PlacedFacts
  <2> QED BY <1>1, <2>1, <2>2, <2>3, HeldFacts
<1>5. ASSUME NEW t \in Held(s), NEW r \in Rules, r.kind = "pop", r.s1 = t.start, r.l1 = t.label,
             t.target \in Generated
      PROVE  Trans(r.s2, Eps, t.target) \in Held(s)
  <2> DEFINE d == Trans(r.s2, Eps, t.target)
  <2>1. d.target = t.target
    BY TransFieldsOf
  <2>2. \A u, a : AddCall(u, d) \in AsksOf(RuleListener(u, r), t, a)
    BY <1>5, RuleListenerFields DEF AsksOf
  <2> HIDE DEF d
  <2>3. d \in Held(s)
    BY <1>2, <1>5, <2>1, <2>2
  <2> QED BY <2>3 DEF d
<1>6. ASSUME NEW t \in Held(s), NEW u \in Held(s), t.label = Eps, t.target = u.start
      PROVE  Trans(t.start, u.label, u.target) \in Held(s)
  <2> DEFINE d == Trans(t.start, u.label, u.target)
  <2>1. PICK a \in Automaton : Placed(s, a) /\ <<a, t>> \in trans
    BY <1>1, HeldFacts
  <2>2. PICK b \in Automaton : Placed(s, b) /\ <<b, u>> \in trans
    BY <1>1, HeldFacts
  <2>3. t \in SumEdge /\ u \in SumEdge /\ InPlace(a, t)
    BY <1>1, <2>1, HeldFacts, SumAt
  <2>4. u \in PushEdge /\ u.start \in Generated
    BY <1>6, <2>3, EdgeFields
  <2>5. SumDone(TellCall("add", b, u))
    <3>1. PICK c : c = TellCall("add", b, u) /\ c.op = "add" /\ c.aut = b /\ c.t = u
      BY SumConstructors
    <3>2. SumDone(c)
      BY <2>2, <3>1 DEF SumDone
    <3> QED BY <3>1, <3>2
  <2>6. PICK v \in Created : /\ PutBy(v, b, u)
                             /\ SumDone(UpdateCall(SummaryAt(v, u), SummaryListener(v, u)))
    BY <1>1, <2>2, <2>4, <2>5, SettledFacts DEF SummaryOwed, SumAsked
  <2>7. SummaryAt(v, u) = a
    <3>1. PutBy(s, a, t)
      BY <1>1, <2>1, <2>3, PutByHearer
    <3> QED BY <1>1, <1>6, <2>4, <3>1, AlikePlaces DEF PutBy, SummaryAt
  <2>8. <<a, SummaryListener(v, u)>> \in updateListeners
    <3>1. PICK c : /\ c = UpdateCall(a, SummaryListener(v, u)) /\ c.op = "registerUpdate"
                   /\ c.aut = a /\ c.l = SummaryListener(v, u)
      BY SumConstructors
    <3> QED BY <2>6, <2>7, <3>1 DEF SumDone
  <2>9. Answered(SummaryListener(v, u), t, a)
    BY <2>1, <2>8, SettledFacts
  <2>10. AddCall(v, d) \in AsksOf(SummaryListener(v, u), t, a)
    BY <1>6 DEF AsksOf, SummaryListener
  <2>11. d.target = u.target
    BY TransFieldsOf
  <2> HIDE DEF d
  <2>12. <<SummaryOf(v, d.target), d>> \in trans
    BY <1>1, <2>9, <2>10, SettledFacts, HeldFacts DEF Answered
  <2>13. <<b, d>> \in trans
    BY <2>6, <2>11, <2>12 DEF PutBy
  <2>14. d \in Held(s)
    BY <1>1, <2>2, <2>13, HeldFacts
  <2> QED BY <2>14 DEF d
<1> QED BY <1>3, <1>4, <1>5, <1>6 DEF SumClosed

LEMMA ExpectedOfLeast ==
    ASSUME SumTypeOK, NEW s \in Solver
    PROVE  /\ ExpectedOf(s) \in SUBSET Transition /\ SumClosed(ExpectedOf(s))
           /\ \A x \in started : x[1] = s => StartOf(x) \in ExpectedOf(s)
           /\ \A T \in SUBSET Transition :
                SumClosed(T) /\ (\A x \in started : x[1] = s => StartOf(x) \in T)
                  => ExpectedOf(s) \subseteq T
<1> DEFINE N == {p[2] : p \in {q \in started : q[1] = s}}
           R(M, v) == {Trans(n[2], n[1], Initial(v)) : n \in M}
           A == UNION {SolverStarts[v] : v \in Solver}
<1>1. N \in SUBSET A
  BY DEF SumTypeOK
<1>2. N \subseteq (Label \ {Eps}) \X Control
  BY DEF SumTypeOK
<1>3. R(N, s) \in SUBSET Transition
  BY <1>2 DEF Trans, Transition, State
<1>4. ExpectedOf(s) = SaturatedFrom(R(N, s))
  <2> HIDE DEF A, R
  <2>1. Entailed = [M \in SUBSET A |-> [v \in Solver |-> SaturatedFrom(R(M, v))]]
    BY DEF Entailed, A, R
  <2>2. ExpectedOf(s) = Entailed[N][s]
    BY DEF ExpectedOf
  <2> HIDE DEF N
  <2> QED BY <1>1, <2>1, <2>2
<1>5. \A T : R(N, s) \subseteq T <=> \A x \in started : x[1] = s => StartOf(x) \in T
  BY DEF StartOf
<1> HIDE DEF N, R
<1> QED BY <1>3, <1>4, <1>5, SaturatedLeast

\* ... and no more than the rules entail of what the solver started with.
LEMMA ExpectedBound ==
    ASSUME SumIInv, NEW s \in Created
    PROVE  Bounded(ExpectedOf(s)) /\ Enters(ExpectedOf(s), s)
<1> DEFINE T == ExpectedOf(s)
<1>1. SumInv /\ SumTypeOK /\ SumFollowed /\ s \in Solver
  BY CreatedFacts DEF SumIInv, SumInv
<1>2. SumClosed(T) /\ \A x \in started : x[1] = s => StartOf(x) \in T
  BY <1>1, ExpectedOfLeast
<1> HIDE DEF T
<1>3. \A x \in started : x[1] \in Created /\ LookAlike(s, x[1])
  BY <1>1, CreatedFacts
<1>4. CASE EntersItself(s)
  <2>1. AllStarts(T)
    BY <1>2, <1>3, <1>4 DEF AllStarts, LookAlike
  <2> QED BY <1>1, <1>2, <2>1 DEF SumFollowed, Enters, T
<1>5. CASE ~EntersItself(s)
  <2>1. Sharing
    BY <1>3, <1>5 DEF Sharing, LookAlike
  <2>2. EntersCall(T, s)
    BY <1>1, SummariesAssumption DEF EntersCall
  <2>3. EntersStart(T, s)
    BY <1>2 DEF EntersStart
  <2> QED BY <1>1, <1>2, <2>1, <2>2, <2>3 DEF SumFollowed, Enters, T
<1> QED BY <1>4, <1>5

LEMMA HeldExpected ==
    ASSUME SumIInv, Idle, NEW s \in Created
    PROVE  Held(s) = ExpectedOf(s)
<1>1. SumInv /\ SumTypeOK /\ StartsOwed /\ s \in Solver
  BY CreatedFacts DEF SumIInv, SumInv, SumOwed
<1>2. ExpectedOf(s) \subseteq Held(s)
  <2>1. Held(s) \in SUBSET Transition
    BY <1>1, HeldFacts
  <2>2. ASSUME NEW x \in started, x[1] = s PROVE StartOf(x) \in Held(s)
    <3>1. SumDone(AddCall(s, StartOf(x)))
      BY <1>1, <2>2, SettledFacts DEF StartsOwed
    <3>2. SummaryOf(s, StartOf(x).target) = s
      BY <1>1, <2>2, TransFieldsOf, SummaryFacts DEF StartOf
    <3> QED BY <1>1, <3>1, <3>2, PlacedFacts, HeldFacts
  <2> QED BY <1>1, <2>1, <2>2, HeldClosed, ExpectedOfLeast
<1>3. ASSUME NEW t \in Held(s) PROVE t \in ExpectedOf(s)
  <2> DEFINE T == ExpectedOf(s)
  <2>1. Bounded(T) /\ Enters(T, s)
    BY ExpectedBound
  <2> HIDE DEF T
  <2>2. PICK a \in Automaton : Placed(s, a) /\ <<a, t>> \in trans
    BY <1>1, HeldFacts
  <2>3. Enters(T, a)
    BY <1>1, <2>1, <2>2, PlacedEnters
  <2>4. Holds(T, a, t)
    <3> DEFINE u == <<a, t>>
    <3>1. u \in trans /\ u[1] = a /\ u[2] = t
      BY <2>2
    <3> HIDE DEF u
    <3> QED BY <2>1, <3>1 DEF Bounded
  <2> QED BY <2>3, <2>4 DEF Holds, T
<1> QED BY <1>2, <1>3

LEMMA ExactHere == SumIInv => SummariesExact
<1> SUFFICES ASSUME SumIInv, Idle, NEW s \in Created
             PROVE  /\ UNION {In(a) : a \in Below(s)} = ExpectedOf(s)
                    /\ {p[2] : p \in {q \in reached : q[1] = s}}
                         = {<<t.label, t.start>> : t \in {u \in ExpectedOf(s) : u.start \notin Generated}}
  BY DEF SummariesExact
<1>1. SumInv /\ SumTypeOK /\ s \in Solver
  BY CreatedFacts DEF SumIInv, SumInv
<1>2. UNION {In(a) : a \in Below(s)} = ExpectedOf(s)
  <2> DEFINE B == Below(s)
  <2>1. \A a : a \in B <=> Placed(s, a)
    BY <1>1, BelowPlaced
  <2>2. \A a, t : t \in In(a) <=> <<a, t>> \in trans
    BY <1>1, SumAt
  <2> HIDE DEF B
  <2>3. \A t : t \in UNION {In(a) : a \in B} <=> \E a \in B : t \in In(a)
    OBVIOUS
  <2>4. ASSUME NEW t PROVE t \in UNION {In(a) : a \in B} <=> t \in Held(s)
    <3>1. t \in Held(s) <=> \E a : Placed(s, a) /\ <<a, t>> \in trans
      BY <1>1, HeldFacts
    <3>2. (\E a \in B : t \in In(a)) <=> \E a : Placed(s, a) /\ <<a, t>> \in trans
      BY <2>1, <2>2
    <3> QED BY <2>3, <3>1, <3>2
  <2>5. UNION {In(a) : a \in B} = Held(s)
    BY <2>4
  <2> QED BY <2>5, HeldExpected DEF B
<1>3. PICK T : T = ExpectedOf(s)
  OBVIOUS
<1>4. \A n : <<s, n>> \in reached <=> \E t \in T : t.start \notin Generated /\ n = <<t.label, t.start>>
  <2>1. ASSUME NEW n, <<s, n>> \in reached
        PROVE  \E t \in T : t.start \notin Generated /\ n = <<t.label, t.start>>
    <3> DEFINE x == <<s, n>>
    <3>1. x \in reached /\ x[1] = s /\ x[2] = n
      BY <2>1
    <3> HIDE DEF x
    <3> QED BY <1>3, <3>1, ExpectedBound DEF Bounded, ReachHolds
  <2>2. ASSUME NEW t \in T, t.start \notin Generated
        PROVE  <<s, <<t.label, t.start>>>> \in reached
    BY <1>3, <2>2, HeldExpected, HeldReached
  <2> QED BY <2>1, <2>2
<1>5. {p[2] : p \in {q \in reached : q[1] = s}}
        = {<<t.label, t.start>> : t \in {u \in T : u.start \notin Generated}}
  <2>1. \A n : n \in {p[2] : p \in {q \in reached : q[1] = s}} <=> <<s, n>> \in reached
    BY <1>1 DEF SumTypeOK
  <2>2. \A n : n \in {<<t.label, t.start>> : t \in {u \in T : u.start \notin Generated}}
                 <=> \E t \in T : t.start \notin Generated /\ n = <<t.label, t.start>>
    OBVIOUS
  <2> QED BY <1>4, <2>1, <2>2
<1> QED BY <1>2, <1>3, <1>5

LEMMA HandedOnHere == SumIInv => HandedOn
<1> SUFFICES ASSUME SumIInv, Idle, NEW e \in nested
             PROVE  /\ \A l \in At(stateListeners, e[1]) :
                         \E k \in At(stateListeners, e[2]) : Same(l, k)
                    /\ At(updateListeners, e[1]) \subseteq At(updateListeners, e[2])
  BY DEF HandedOn
<1>1. SumInv /\ SumTypeOK
  BY DEF SumIInv, SumInv
<1>2. PICK a, b : e = <<a, b>> /\ e[1] = a /\ e[2] = b
  BY <1>1 DEF SumTypeOK
<1>3. ASSUME NEW l \in At(stateListeners, a)
      PROVE  \E k \in At(stateListeners, b) : Same(l, k)
  <2>1. PICK k : <<b, k>> \in stateListeners /\ Same(l, k)
    <3>1. <<a, l>> \in stateListeners
      BY <1>1, <1>3, SumAt
    <3>2. <<a, b>> \in nested
      BY <1>2
    <3> QED BY <3>1, <3>2, HandedDown
  <2> QED BY <1>1, <2>1, SumAt
<1>4. ASSUME NEW l \in At(updateListeners, a)
      PROVE  l \in At(updateListeners, b)
  BY <1>1, <1>2, <1>4, SumAt, HandedDown
<1> QED BY <1>2, <1>3, <1>4

LEMMA ReturnsHere == SumIInv => ReturnsReported
<1> SUFFICES ASSUME SumIInv, Idle, NEW s \in Created, NEW r \in Rules,
                    NEW t \in ExpectedOf(s), NEW e \in ExpectedOf(s),
                    r.kind = "push", <<r.s1, r.l1>> = <<t.start, t.label>>,
                    e.label = Eps, e.target = CreateState(r.s2, r.l2)
             PROVE  \E u \in Created : <<u, r.l1, r.callSite, e.start>> \in connected
  BY DEF ReturnsReported
<1> DEFINE ir == EntryState(r)
           push == PushOf(r, t)
<1>1. SumInv /\ s \in Solver
  BY CreatedFacts DEF SumIInv
<1>2. t \in Held(s) /\ e \in Held(s) /\ r.s1 = t.start /\ r.l1 = t.label
  BY HeldExpected
<1>3. e.target = ir /\ ir \in Generated
  BY EntryFacts DEF EntryState
<1>4. push.start = ir /\ push.label = r.callSite
  BY TransFieldsOf DEF PushOf
<1>5. push \in PushEdge /\ r.l1 \in Label
  BY <1>1, <1>2, HeldFacts, EntryFacts, RulesTyped
<1>6. PICK a \in Automaton : Placed(s, a) /\ <<a, t>> \in trans
  BY <1>1, <1>2, HeldFacts
<1>7. PICK b \in Automaton : Placed(s, b) /\ <<b, e>> \in trans
  BY <1>1, <1>2, HeldFacts
<1>8. PICK u \in Created : /\ Placed(u, a) /\ <<a, SummaryOf(u, ir)>> \in nested
                           /\ \E k : <<u, k>> \in stateListeners /\ Same(Epsilon(u, push, r.l1), k)
  BY <1>2, <1>6, PushedBelow
<1> HIDE DEF ir, push
<1>9. SummaryOf(u, ir) = b
  <2>1. PutBy(s, b, e)
    BY <1>1, <1>7, SumAt, PutByHearer
  <2> QED BY <1>1, <1>3, <2>1, AlikePlaces DEF PutBy
<1>10. Placed(u, b)
  BY <1>8, <1>9, PlacedFacts
<1>11. PICK k : <<u, k>> \in stateListeners /\ Same(Epsilon(u, push, r.l1), k)
  BY <1>8
<1>12. k = Epsilon(k.of, push, r.l1)
  <2>1. Epsilon(u, push, r.l1) \in SumListener /\ k \in SumListener
    BY <1>1, <1>5, <1>11, CreatedFacts, SumAt, ListenersTyped
  <2> QED BY <1>11, <2>1, EpsilonFields, SameListeners
<1>13. PICK w : <<b, Epsilon(w, push, r.l1)>> \in stateListeners
  <2>1. <<u, Epsilon(k.of, push, r.l1)>> \in stateListeners
    BY <1>11, <1>12
  <2>2. \A v, x : <<u, Epsilon(v, push, x)>> \in stateListeners =>
          \E w : <<b, Epsilon(w, push, x)>> \in stateListeners
    BY <1>10, ListensBelow, Zenon
  <2> QED BY <2>1, <2>2, Zenon
<1>14. w \in Created
  <2>1. GoodListener(b, Epsilon(w, push, r.l1))
    BY <1>1, <1>13, SumAt
  <2> QED BY <2>1, EpsilonFields DEF GoodListener
<1>15. Hears(Epsilon(w, push, r.l1), e)
  BY <1>3, <1>4, EpsilonFields DEF Hears
<1>16. Answered(Epsilon(w, push, r.l1), e, b)
  BY <1>7, <1>13, <1>15, SettledFacts
<1>17. ReportOf(Epsilon(w, push, r.l1), e) = <<w, r.l1, r.callSite, e.start>>
  BY <1>4, EpsilonFields DEF ReportOf
<1>18. Reports(Epsilon(w, push, r.l1), e)
  BY EpsilonFields DEF Reports
<1> QED BY <1>14, <1>16, <1>17, <1>18 DEF Answered

(***************************************************************************)
(* The theorems.                                                           *)
(***************************************************************************)
\* Whatever the rules, the solvers and the order of the calls: the automata nested
\* in a solver's hold what a single automaton of the solver's would, no less though
\* others made their summaries, no more though others use them too, and the solver
\* has processed their nodes.  (HandlePushListener, addNestedAutomaton)
THEOREM SummariesAlwaysExact == SummariesSpec => []SummariesExact
BY SumIInvAlways, ExactHere, PTL

\* The listeners of an automaton are registered with those nested in it, whichever
\* came first.  (registerListener, addNestedAutomaton)
THEOREM AlwaysHandedOn == SummariesSpec => []HandedOn
BY SumIInvAlways, HandedOnHere, PTL

\* Every return from a summary is reported to a solver that made the call.
\* (HandlePushListener, UpdateEpsilonOnPushListener)
THEOREM ReturnsAlwaysReported == SummariesSpec => []ReturnsReported
BY SumIInvAlways, ReturnsHere, PTL
=============================================================================
