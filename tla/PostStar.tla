------------------------------ MODULE PostStar ------------------------------
(***************************************************************************)
(* The incremental post* saturation of a weighted pushdown system:         *)
(* wpds.impl.PostStar driving one wpds.impl.WeightedPAutomaton, with the   *)
(* rules held by wpds.impl.WeightedPushdownSystem.                         *)
(*                                                                         *)
(* The code has no worklist.  Adding a transition notifies the listeners   *)
(* of its states, a listener adds further transitions and registers        *)
(* further listeners, and all of that runs in nested calls on one thread;  *)
(* rules and transitions arrive at any time, also from the middle of a     *)
(* notification.                                                           *)
(***************************************************************************)
EXTENDS CallStack, FiniteSets

CONSTANTS
    State,              \* automaton states: control states and generated ones
    Label,              \* proper stack symbols, the empty word Eps included
    Wildcard,           \* Wildcard and ExclusionWildcard symbols
    Excludes,           \* the labels an exclusion wildcard excludes
    Eps,                \* fa.epsilon()
    Empties,            \* the labels whose class implements Empty
    Generated,          \* the states for which fa.isGeneratedState holds
    CreateState(_, _),  \* fa.createState(state, label)
    Weight, One,        \* the weight domain and fa.getOne()
    Extend(_, _),       \* a.extendWith(b)
    Combine(_, _),      \* a.combineWith(b)
    Rules,              \* the rules a client may ever add
    Seeds,              \* the transitions a client may ever add, with weights
    Observed            \* the notifications a client has a listener for

Transition == [start : State, label : Label, target : State]
Fact == [t : Transition, w : Weight]

NormalRule == [kind : {"normal"}, s1 : State, l1 : Label \cup Wildcard,
               s2 : State, l2 : Label \cup Wildcard, w : Weight]
PushRule == [kind : {"push"}, s1 : State, l1 : Label \cup Wildcard,
             s2 : State, l2 : Label, callSite : Label \cup Wildcard,
             w : Weight]
PopRule == [kind : {"pop"}, s1 : State, l1 : Label, s2 : State, w : Weight]
Rule == NormalRule \cup PushRule \cup PopRule

ASSUME LabelAssumption ==
    /\ Eps \in Label
    /\ Empties \subseteq Label
    /\ Label \cap Wildcard = {}
    /\ Excludes \in [Wildcard -> SUBSET Label]

ASSUME StateAssumption ==
    \A s \in State, a \in Label : CreateState(s, a) \in State

ASSUME WeightAssumption ==
    /\ One \in Weight
    /\ \A a, b \in Weight : Extend(a, b) \in Weight /\ Combine(a, b) \in Weight

\* Combining is a join; extending is monotone but need not distribute over it.
ASSUME CombineAssumption ==
    \A a, b, c \in Weight :
        /\ Combine(a, a) = a
        /\ Combine(a, b) = Combine(b, a)
        /\ Combine(Combine(a, b), c) = Combine(a, Combine(b, c))

ASSUME ExtendAssumption ==
    \A a, b, c \in Weight : Combine(a, b) = a =>
        /\ Combine(Extend(a, c), Extend(b, c)) = Extend(a, c)
        /\ Combine(Extend(c, a), Extend(c, b)) = Extend(c, a)

\* No pop rule names an Empty label (HandlePopListener throws on one), and no
\* push rule leaves the empty word as its call site.
ASSUME ClientAssumption ==
    /\ Rules \subseteq Rule
    /\ \A r \in Rules : /\ r.kind = "pop" => r.l1 \notin Empties
                        /\ r.kind = "push" => r.callSite # Eps
    /\ Seeds \subseteq Fact
    /\ Observed \subseteq {"weight", "connect", "unbalanced"}

VARIABLES
    rules,       \* WeightedPushdownSystem: normalRules, pushRules, popRules
    started,     \* poststar has registered its PostStarUpdateListener
    seeded,      \* the seeds a client has added so far
    weight,      \* transitionToWeights; its domain is `transitions'
    listeners,   \* stateListeners
    connected,   \* connectedPushes
    unbalanced   \* unbalancedPops

data == <<rules, started, seeded, weight, listeners, connected, unbalanced>>
vars == <<data, agenda>>

(***************************************************************************)
(* Listeners.  HandleNormalListener, HandlePushListener and                *)
(* HandlePopListener are equal when their rules are, so a rule stands for  *)
(* the listener registered for it.                                         *)
(***************************************************************************)
TransitiveListener == [kind : {"transitive"}, s1 : State, t : Transition,
                       w : Weight]
EpsilonListener == [kind : {"epsilon"}, s1 : State, t : Transition,
                    callSite : Label \cup Wildcard]
Listener == Rule \cup TransitiveListener \cup EpsilonListener

UpdateTransitivePop(t, w) ==
    [kind |-> "transitive", s1 |-> t.target, t |-> t, w |-> w]
UpdateEpsilonOnPush(t, callSite) ==
    [kind |-> "epsilon", s1 |-> t.start, t |-> t, callSite |-> callSite]

\* Mutant: no listener is told of incoming transitions.
HearsOut(l, t) == l.s1 = t.start

\* Listener l is told of t.  Only UpdateEpsilonOnPushListener does anything in
\* onInTransitionAdded, and it alone does nothing in onOutTransitionAdded.
Hears(l, t) == l.s1 = IF l.kind = "epsilon" THEN t.target ELSE t.start

(***************************************************************************)
(* Calls.  A call of "hear" carries the weight its loop was given; a call  *)
(* of "replay", made while a listener is registered, reads the weight when *)
(* it is run.                                                              *)
(***************************************************************************)
ReconnectEntry == [callSite : Label \cup Wildcard, returnSite : Label,
                   fact : State, combined : SUBSET Weight, returned : Weight]

AddCall == [op : {"add"}, t : Transition, w : Weight]
NotifyCall == [op : {"notifyOut", "notifyIn"}, t : Transition, w : Weight]
HearCall == [op : {"hear"}, l : Listener, t : Transition, w : Weight]
ReplayCall == [op : {"replay"}, l : Listener, t : Transition]
RegisterCall == [op : {"register"}, l : Listener]
UnbalancedCall == [op : {"unbalanced"}, s : State, t : Transition, w : Weight]
ReconnectCall == [op : {"reconnect"}, e : ReconnectEntry]
ClientCall == [op : {"client"}]
\* The calls a listener makes, and all calls.
EffectCall == AddCall \cup RegisterCall \cup UnbalancedCall
                \cup ReconnectCall
Call == EffectCall \cup NotifyCall \cup HearCall \cup ReplayCall
          \cup ClientCall

Add(s, a, q, v) ==
    {[op |-> "add", t |-> [start |-> s, label |-> a, target |-> q], w |-> v]}
Register(l) == {[op |-> "register", l |-> l]}
Notify(way, t, v) == {[op |-> way, t |-> t, w |-> v]}
TellClient(event) == IF event \in Observed THEN {[op |-> "client"]} ELSE {}

\* c makes the listener of this kind hear of a transition.
Heard(c, kind) == c.op \in {"hear", "replay"} /\ c.l.kind = kind

\* The weight that listener is given.
WeightOf(c) == IF c.op = "hear" THEN c.w ELSE weight[c.t]

\* getWeightFor(t): no element stands for null.
GetWeightFor(t) == {weight[u] : u \in {t} \cap DOMAIN weight}

\* Mutant: a listener hears only of what comes after it.
ReplayNothing(l) == {}

\* The calls that tell listener l of every transition at its state.
Replay(l) == {[op |-> "replay", l |-> l, t |-> t] :
                t \in {u \in DOMAIN weight : Hears(l, u)}}

(***************************************************************************)
(* What a listener does when it is told of transition t with weight w: the *)
(* calls it makes, in order.                                               *)
(***************************************************************************)
Matches(l1, a) == l1 = a \/ l1 \in Wildcard

NormalApplies(r, a) ==
    /\ Matches(r.l1, a)
    /\ r.l2 \in Wildcard => a \notin Excludes[r.l2] \cup {Eps}

HandleNormal(r, t, w) ==
    LET l2 == IF r.l2 \in Wildcard THEN t.label ELSE r.l2
    IN IF NormalApplies(r, t.label)
       THEN <<Add(r.s2, l2, t.target, Extend(w, r.w))>> ELSE <<>>

\* A wildcard at the call site keeps the label that was matched.
CallSiteLabel(r, a) == IF r.callSite \in Wildcard THEN a ELSE r.callSite

HandlePush(r, t, w) ==
    LET a == t.label
        applies == Matches(r.l1, a) /\ (r.callSite \in Wildcard => a # Eps)
        ir == CreateState(r.s2, r.l2)
        site == CallSiteLabel(r, a)
        push == [start |-> ir, label |-> site, target |-> t.target]
    IN IF applies
       THEN <<Add(ir, site, t.target, Extend(w, r.w)),
              Add(r.s2, r.l2, ir, One),
              Register(UpdateEpsilonOnPush(push, r.l1))>>
       ELSE <<>>

\* Mutant: a pop at the bottom of the stack is not told from the others.
PopAnywhere(r, t, w) ==
    LET v == Extend(w, r.w)
        pop == [start |-> r.s2, label |-> Eps, target |-> t.target]
    IN IF t.label # r.l1 THEN <<>>
       ELSE <<Add(r.s2, Eps, t.target, v), Register(UpdateTransitivePop(pop, v))>>

\* The pop itself; without a generated state below, only the client is told.
Pop(r, t, w) ==
    LET v == Extend(w, r.w)
        pop == [start |-> r.s2, label |-> Eps, target |-> t.target]
    IN IF t.label # r.l1 THEN <<>>
       ELSE IF t.target \in Generated
       THEN <<Add(r.s2, Eps, t.target, v), Register(UpdateTransitivePop(pop, v))>>
       ELSE <<{[op |-> "unbalanced", s |-> r.s2, t |-> t, w |-> w]}>>

\* Behind an Empty label the rule pops at the target, too.
Forward(r, t) ==
    IF t.label \in Empties
    THEN <<Register([r EXCEPT !.s1 = t.target])>> ELSE <<>>

HandlePop(r, t, w) == Pop(r, t, w) \o Forward(r, t)

\* Mutant: the weights of the pop and of what follows it are swapped.
HandleTransitiveSwapped(l, t, w) ==
    <<Add(l.t.start, t.label, t.target, Extend(l.w, w))>>

HandleTransitive(l, t, w) ==
    <<Add(l.t.start, t.label, t.target, Extend(w, l.w))>>

HandleEpsilon(l, t, w) ==
    IF t.label = Eps
    THEN <<{[op |-> "reconnect",
             e |-> [callSite |-> l.callSite, returnSite |-> l.t.label,
                    fact |-> t.start, combined |-> GetWeightFor(l.t),
                    returned |-> w]]}>>
    ELSE <<>>

(***************************************************************************)
(* The steps.                                                              *)
(***************************************************************************)
Init ==
    /\ rules = {} /\ started = FALSE /\ seeded = {}
    /\ weight = [t \in {} |-> One]
    /\ listeners = {} /\ connected = {}
    /\ unbalanced = [e \in {} |-> One]
    /\ agenda = <<>>

\* The client runs when no call is in progress or when it has been called.
ClientRuns == agenda = <<>> \/ [op |-> "client"] \in Innermost

\* WeightedPushdownSystem.addRule, called by the client.
AddRule(r) ==
    /\ ClientRuns
    /\ r \notin rules
    /\ rules' = rules \cup {r}
    /\ agenda' = (IF started THEN <<Register(r)>> ELSE <<>>) \o agenda
    /\ UNCHANGED <<started, seeded, weight, listeners, connected, unbalanced>>

\* addTransition or addWeightForTransition, called by the client.
\* Bound: each seed is added once.
AddSeed(f) ==
    /\ ClientRuns
    /\ f \notin seeded
    /\ seeded' = seeded \cup {f}
    /\ agenda' = <<{[op |-> "add", t |-> f.t, w |-> f.w]}>> \o agenda
    /\ UNCHANGED <<rules, started, weight, listeners, connected, unbalanced>>

\* poststar registers its PostStarUpdateListener, which replays the rules.
Poststar ==
    /\ agenda = <<>> /\ ~started
    /\ started' = TRUE
    /\ agenda' = <<{[op |-> "register", l |-> r] : r \in rules}>>
    /\ UNCHANGED <<rules, seeded, weight, listeners, connected, unbalanced>>

\* The client's listener returns.
ClientReturn(c) ==
    /\ c.op = "client"
    /\ Return(c, <<>>)
    /\ UNCHANGED data

\* A loop has made all its calls.
EndLoop ==
    /\ agenda # <<>> /\ Head(agenda) = {}
    /\ agenda' = Tail(agenda)
    /\ UNCHANGED data

\* Mutant: the last weight replaces what was there.
PutLast(m, k, w) == [j \in DOMAIN m \cup {k} |-> IF j # k THEN m[j] ELSE w]

\* m with w combined into the entry of k.
Put(m, k, w) ==
    [j \in DOMAIN m \cup {k} |->
        IF j # k THEN m[j]
        ELSE IF k \in DOMAIN m THEN Combine(m[k], w) ELSE w]

\* Mutant: a transition that adds nothing is tried again.
AddRetried(c) ==
    /\ c.op = "add"
    /\ LET new == Put(weight, c.t, c.w)
       IN IF (c.t.start = c.t.target /\ c.t.label = Eps) \/ new = weight
          THEN weight' = weight /\ agenda' = agenda
          ELSE /\ weight' = new
               /\ Return(c, <<TellClient("weight"),
                              Notify("notifyOut", c.t, new[c.t]),
                              Notify("notifyIn", c.t, new[c.t])>>)
    /\ UNCHANGED <<rules, started, seeded, listeners, connected, unbalanced>>

AddWeightForTransition(c) ==
    /\ c.op = "add"
    /\ LET new == Put(weight, c.t, c.w)
       IN IF (c.t.start = c.t.target /\ c.t.label = Eps) \/ new = weight
          THEN weight' = weight /\ Return(c, <<>>)
          ELSE /\ weight' = new
               /\ Return(c, <<TellClient("weight"),
                              Notify("notifyOut", c.t, new[c.t]),
                              Notify("notifyIn", c.t, new[c.t])>>)
    /\ UNCHANGED <<rules, started, seeded, listeners, connected, unbalanced>>

\* A notification loop starts: it runs over the listeners registered by now.
NotifyListeners(c) ==
    /\ c.op \in {"notifyOut", "notifyIn"}
    /\ Return(c, <<{[op |-> "hear", l |-> l, t |-> c.t, w |-> c.w] :
                     l \in {k \in listeners :
                              /\ Hears(k, c.t)
                              /\ (k.kind = "epsilon") <=> (c.op = "notifyIn")}}>>)
    /\ UNCHANGED data

RegisterListener(c) ==
    /\ c.op = "register"
    /\ listeners' = listeners \cup {c.l}
    /\ Return(c, IF c.l \in listeners THEN <<>> ELSE <<Replay(c.l)>>)
    /\ UNCHANGED <<rules, started, seeded, weight, connected, unbalanced>>

\* A listener is called.
OnNormal(c) ==
    /\ Heard(c, "normal")
    /\ Return(c, HandleNormal(c.l, c.t, WeightOf(c)))
    /\ UNCHANGED data

OnPush(c) ==
    /\ Heard(c, "push")
    /\ Return(c, HandlePush(c.l, c.t, WeightOf(c)))
    /\ UNCHANGED data

OnPop(c) ==
    /\ Heard(c, "pop")
    /\ Return(c, HandlePop(c.l, c.t, WeightOf(c)))
    /\ UNCHANGED data

OnTransitive(c) ==
    /\ Heard(c, "transitive")
    /\ Return(c, HandleTransitive(c.l, c.t, WeightOf(c)))
    /\ UNCHANGED data

OnEpsilon(c) ==
    /\ Heard(c, "epsilon")
    /\ Return(c, HandleEpsilon(c.l, c.t, WeightOf(c)))
    /\ UNCHANGED data

ReconnectPush(c) ==
    /\ c.op = "reconnect"
    /\ connected' = connected \cup {c.e}
    /\ Return(c, <<IF c.e \in connected THEN {} ELSE TellClient("connect")>>)
    /\ UNCHANGED <<rules, started, seeded, weight, listeners, unbalanced>>

UnbalancedPop(c) ==
    /\ c.op = "unbalanced"
    /\ unbalanced' = Put(unbalanced, <<c.s, c.t>>, c.w)
    /\ Return(c, <<IF unbalanced' = unbalanced THEN {}
                   ELSE TellClient("unbalanced")>>)
    /\ UNCHANGED <<rules, started, seeded, weight, listeners, connected>>

\* One step of the running call.
Step ==
    \/ EndLoop
    \/ \E c \in Innermost :
         \/ ClientReturn(c)
         \/ AddWeightForTransition(c)
         \/ NotifyListeners(c)
         \/ RegisterListener(c)
         \/ OnNormal(c)
         \/ OnPush(c)
         \/ OnPop(c)
         \/ OnTransitive(c)
         \/ OnEpsilon(c)
         \/ ReconnectPush(c)
         \/ UnbalancedPop(c)

Next ==
    \/ Step
    \/ Poststar
    \/ \E r \in Rules : AddRule(r)
    \/ \E f \in Seeds : AddSeed(f)

Spec == Init /\ [][Next]_vars

\* The one thread keeps running, and a client's listener returns.
FairSpec == Spec /\ WF_vars(Step)

(***************************************************************************)
(* Properties.                                                             *)
(***************************************************************************)
\* Every variable holds values of its kind; in particular every call on the
\* stack has the arguments its callee needs, and a call that looks a weight up
\* finds one.
TypeOK ==
    /\ rules \subseteq Rules
    /\ started \in BOOLEAN
    /\ seeded \subseteq Seeds
    /\ DOMAIN weight \subseteq Transition
    /\ \A t \in DOMAIN weight : weight[t] \in Weight
    /\ listeners \subseteq Listener
    /\ connected \subseteq ReconnectEntry
    /\ DOMAIN unbalanced \subseteq State \X Transition
    /\ \A e \in DOMAIN unbalanced : unbalanced[e] \in Weight
    /\ agenda \in Seq(SUBSET Call)

\* The call stack is empty and the solver has been started.
Quiet == started /\ agenda = <<>>

\* The automaton already accounts for the fact that t has weight w.
Accounts(t, w) ==
    \/ t.start = t.target /\ t.label = Eps
    \/ t \in DOMAIN weight /\ Combine(weight[t], w) = weight[t]

\* The facts rule r derives from a transition t of weight w out of r.s1 and,
\* for a pop, from the transitions u that leave its target.
NormalFacts(r, t, w) ==
    {[t |-> [start |-> r.s2, label |-> a, target |-> t.target],
      w |-> Extend(w, r.w)] :
        a \in {b \in Label : \/ b = r.l2
                             \/ /\ r.l2 \in Wildcard /\ b = t.label
                                /\ b # Eps /\ b \notin Excludes[r.l2]}}

PushFacts(r, t, w) ==
    LET ir == CreateState(r.s2, r.l2)
    IN UNION {{[t |-> [start |-> ir, label |-> a, target |-> t.target],
                w |-> Extend(w, r.w)],
               [t |-> [start |-> r.s2, label |-> r.l2, target |-> ir],
                w |-> One]} :
        a \in {b \in Label : \/ b = r.callSite
                             \/ r.callSite \in Wildcard /\ b = t.label /\ b # Eps}}

PopFacts(r, t, w) ==
    {[t |-> [start |-> r.s2, label |-> u.label, target |-> u.target],
      w |-> Extend(weight[u], Extend(w, r.w))] :
        u \in {v \in DOMAIN weight : v.start = t.target}}
      \cup {[t |-> [start |-> r.s2, label |-> Eps, target |-> t.target],
             w |-> Extend(w, r.w)]}

Consequences(r, t) ==
    IF r.s1 # t.start \/ ~Matches(r.l1, t.label) THEN {}
    ELSE CASE r.kind = "normal" -> NormalFacts(r, t, weight[t])
           [] r.kind = "push" -> PushFacts(r, t, weight[t])
           [] r.kind = "pop" -> IF t.target \in Generated
                                THEN PopFacts(r, t, weight[t]) ELSE {}

\* Whenever the outermost call has returned the automaton is saturated: no
\* rule yields a transition, or a better weight, that it lacks.  Listeners
\* and rules may have come in any order, and a listener may have been given a
\* weight that was improved before it ran.
Saturated ==
    Quiet => \A r \in rules, t \in DOMAIN weight :
                \A f \in Consequences(r, t) : Accounts(f.t, f.w)

\* Whenever the outermost call has returned, every return through a push has
\* been reported with its final weight: for a push rule that applies to t and
\* an empty transition e back to its intermediate state, connectedPushes has
\* the entry for e.
PushesConnected ==
    Quiet => \A r \in rules, t, e \in DOMAIN weight :
        /\ r.kind = "push" /\ r.s1 = t.start /\ Matches(r.l1, t.label)
        /\ r.callSite \in Wildcard => t.label # Eps
        /\ e.label = Eps /\ e.target = CreateState(r.s2, r.l2)
        => \E c \in connected :
              /\ c.callSite = r.l1
              /\ c.returnSite = IF r.callSite \in Wildcard THEN t.label
                                ELSE r.callSite
              /\ c.fact = e.start /\ c.returned = weight[e]

\* Whenever the outermost call has returned, a pop rule that reaches a state
\* below which nothing was pushed has been reported with the final weight of
\* the transition popped.
PopsReported ==
    Quiet => \A r \in rules, t \in DOMAIN weight :
        /\ r.kind = "pop" /\ r.s1 = t.start /\ r.l1 = t.label
        /\ t.target \notin Generated
        => /\ <<r.s2, t>> \in DOMAIN unbalanced
           /\ unbalanced[<<r.s2, t>>] = weight[t]

\* What the client is told is true of the automaton at that time and stays
\* so: a connected push returns along an empty transition into a state that a
\* push left by the reported return site, whose weight was known by then, and
\* an unbalanced pop took a transition out of the stack's bottom.
ReportsJustified ==
    /\ \A c \in connected : \E e, p \in DOMAIN weight :
          /\ e.label = Eps /\ e.start = c.fact
          /\ p.start = e.target /\ p.label = c.returnSite
          /\ c.combined # {}
    /\ \A e \in DOMAIN unbalanced :
          e[2] \in DOMAIN weight /\ e[2].target \notin Generated

\* m is at least as good as n everywhere: it has n's entries, and combining
\* them in changes nothing.
Improves(m, n) ==
    \A k \in DOMAIN n : k \in DOMAIN m /\ Combine(m[k], n[k]) = m[k]

\* A step never drops a transition, an unbalanced pop or a weight that was
\* combined into one, whatever order the calls run in: the weight a listener
\* was given stays accounted for.
WeightsOnlyImprove ==
    [][/\ Improves(weight', weight) /\ Improves(unbalanced', unbalanced)
       /\ connected \subseteq connected' /\ listeners \subseteq listeners']_vars

\* Every call the client makes returns: the nested notifications die out.
CallsReturn == agenda # <<>> ~> agenda = <<>>
=============================================================================
