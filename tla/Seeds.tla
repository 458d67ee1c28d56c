------------------------------- MODULE Seeds -------------------------------
(***************************************************************************)
(* SeedFactory: from the entry points it reaches the methods of the        *)
(* program through the push rules of their calls, asks each method it      *)
(* processes for seeds, and later answers for a seed which methods are in  *)
(* scope: the method of the seed and what is below it on some stack.       *)
(*                                                                         *)
(* The automaton has one state for the stacks below a method that was      *)
(* called: <<m>> is createState(Reachable, m).  Its transitions out of     *)
(* Reachable.v() are [from |-> Top, ...].                                  *)
(*                                                                         *)
(* Names that ReachableQueue has too carry the word Seeds (or Soot), so    *)
(* that ReachableMethods_proofs can extend both modules.                   *)
(***************************************************************************)
EXTENDS CallStack, FiniteSets

CONSTANTS
    SootMethod,
    EntryPoints,
    Callees,           \* method -> the methods with a body that it calls
    Seeds,             \* method -> the queries that generate finds in it
    ClassOf, Initializers,   \* method -> class, class -> its static initializers
    analyseClassInitializers

ASSUME SeedsAssumption ==
    /\ EntryPoints \subseteq SootMethod
    /\ Callees \in [SootMethod -> SUBSET SootMethod]
    /\ DOMAIN Seeds = SootMethod
    /\ \A m \in SootMethod : Initializers[ClassOf[m]] \subseteq SootMethod
    /\ analyseClassInitializers \in BOOLEAN

\* A query is asked at a statement, and a statement is in one method.
ASSUME SeedsInOneMethod ==
    \A m, n \in SootMethod : Seeds[m] \cap Seeds[n] # {} => m = n

\* There are finitely many methods (needed where calls are followed to the end).
ASSUME SeedsFinite == IsFiniteSet(SootMethod)

Query == UNION {Seeds[m] : m \in SootMethod}

Top == <<"top">>
Initial == <<"initial">>
Below(m) == <<"below", m>>
State == {Top, Initial} \cup {Below(m) : m \in SootMethod}

VARIABLES
    automaton,          \* the transitions
    rules,              \* the push rules <<caller, callee>>
    processed,
    seedToTransition,   \* <<query, transition>>
    closures,           \* the TransitiveClosure listeners: <<query, state>>
    answered,           \* the queries in queryToScope
    scope,              \* the set that getMethodScope collects for a query
    stage               \* how far computeSeeds has come

seedsData == <<automaton, rules, processed, seedToTransition, closures, answered, scope, stage>>
seedsVars == <<seedsData, agenda>>

Trans(s, m, t) == [from |-> s, m |-> m, to |-> t]

\* Calls.
Process(t) == [op |-> "process", t |-> t]
AddPushRule(p) == [op |-> "rule", p |-> p]
Push(p, t) == [op |-> "push", p |-> p, t |-> t]
TransitiveClosure(q, s) == [op |-> "closure", q |-> q, s |-> s]

\* computeSeeds: the entry points, then poststar (no rules yet), then the
\* listener, which is replayed over the transitions of the entry points.
SeedsInit ==
    /\ automaton = {Trans(Top, m, Initial) : m \in EntryPoints}
    /\ rules = {} /\ processed = {} /\ seedToTransition = {}
    /\ closures = {} /\ answered = {}
    /\ scope = [q \in Query |-> {}]
    /\ stage = "entries"
    /\ agenda = <<{Process(t) : t \in automaton}>>

SeedsEndLoop == LoopEnds /\ UNCHANGED seedsData

(***************************************************************************)
(* process, addPushRule, and post* for the push rules.                     *)
(***************************************************************************)
ProcessTransition(c) ==
    /\ c.op = "process"
    /\ processed' = processed \cup {c.t.m}
    /\ IF c.t.m \in processed THEN Return(c, <<>>) /\ UNCHANGED seedToTransition
       ELSE /\ seedToTransition' = seedToTransition \cup {<<q, c.t>> : q \in Seeds[c.t.m]}
            /\ Return(c, <<{AddPushRule(<<c.t.m, n>>) : n \in Callees[c.t.m]}>>)
    /\ UNCHANGED <<automaton, rules, closures, answered, scope, stage>>

\* Mutant: the rule is applied to later transitions only.
AddRuleForLater(c) ==
    /\ c.op = "rule"
    /\ rules' = rules \cup {c.p}
    /\ Return(c, <<>>)
    /\ UNCHANGED <<automaton, processed, seedToTransition, closures, answered, scope, stage>>

\* The HandlePushListener of the rule is replayed over what leaves Top.
AddRule(c) ==
    /\ c.op = "rule"
    /\ rules' = rules \cup {c.p}
    /\ Return(c, IF c.p \in rules THEN <<>>
                 ELSE <<{Push(c.p, t) : t \in {u \in automaton : u.from = Top /\ u.m = c.p[1]}}>>)
    /\ UNCHANGED <<automaton, processed, seedToTransition, closures, answered, scope, stage>>

PushTo(c) ==
    /\ c.op = "push"
    /\ Return(c, <<{[op |-> "add", t |-> Trans(Below(c.p[2]), c.p[1], c.t.to)]},
                   {[op |-> "add", t |-> Trans(Top, c.p[2], Below(c.p[2]))]}>>)
    /\ UNCHANGED seedsData

\* The update listener is told, then the listeners of the state: at Top those of
\* the push rules, elsewhere nobody listens before the scopes are asked for.
AddTransition(c) ==
    /\ c.op = "add"
    /\ automaton' = automaton \cup {c.t}
    /\ Return(c, IF c.t \in automaton THEN <<>>
                 ELSE <<{Process(c.t)}, {[op |-> "out", t |-> c.t]}>>)
    /\ UNCHANGED <<rules, processed, seedToTransition, closures, answered, scope, stage>>

OutAdded(c) ==
    /\ c.op = "out"
    /\ Return(c, <<IF c.t.from = Top THEN {Push(p, c.t) : p \in {r \in rules : r[1] = c.t.m}}
                   ELSE {}>>)
    /\ UNCHANGED seedsData

(***************************************************************************)
(* The rest of computeSeeds.                                               *)
(***************************************************************************)
AnalyseClassInitializers ==
    /\ Idle /\ stage = "entries"
    /\ stage' = "computed"
    /\ agenda' = IF analyseClassInitializers
                 THEN <<{[op |-> "class", k |-> ClassOf[m]] : m \in processed}>> ELSE <<>>
    /\ UNCHANGED <<automaton, rules, processed, seedToTransition, closures, answered, scope>>

AddStaticInitializerFor(c) ==
    /\ c.op = "class"
    /\ Return(c, <<{AddPushRule(<<ep, i>>) : ep \in EntryPoints, i \in Initializers[c.k]}>>)
    /\ UNCHANGED seedsData

(***************************************************************************)
(* getMethodScope.                                                         *)
(***************************************************************************)
Transitions(q) == {p[2] : p \in {d \in seedToTransition : d[1] = q}}

\* Bound: a scope is asked for once; queryToScope answers from then on.
GetMethodScope(q) ==
    /\ Idle /\ stage = "computed" /\ q \notin answered
    /\ answered' = answered \cup {q}
    /\ scope' = [scope EXCEPT ![q] = {t.m : t \in Transitions(q)}]
    /\ agenda' = <<{TransitiveClosure(q, t.to) : t \in Transitions(q)}>>
    /\ UNCHANGED <<automaton, rules, processed, seedToTransition, closures, stage>>

\* Mutant: the scope has the method's callers, but not theirs.
CloseOnce(c) ==
    /\ c.op = "closure"
    /\ LET out == {t \in automaton : t.from = c.s}
       IN scope' = [scope EXCEPT ![c.q] = @ \cup {t.m : t \in out}]
    /\ Return(c, <<>>)
    /\ UNCHANGED <<automaton, rules, processed, seedToTransition, closures, answered, stage>>

\* A TransitiveClosure is equal to another of the same state and query.
CloseTransitively(c) ==
    /\ c.op = "closure"
    /\ closures' = closures \cup {<<c.q, c.s>>}
    /\ IF <<c.q, c.s>> \in closures THEN Return(c, <<>>) /\ UNCHANGED scope
       ELSE LET out == {t \in automaton : t.from = c.s}
            IN /\ scope' = [scope EXCEPT ![c.q] = @ \cup {t.m : t \in out}]
               /\ Return(c, <<{TransitiveClosure(c.q, t.to) : t \in out}>>)
    /\ UNCHANGED <<automaton, rules, processed, seedToTransition, answered, stage>>

SeedsStep ==
    \/ SeedsEndLoop
    \/ AnalyseClassInitializers
    \/ \E c \in Innermost :
         \/ ProcessTransition(c)
         \/ AddRule(c)
         \/ PushTo(c)
         \/ AddTransition(c)
         \/ OutAdded(c)
         \/ AddStaticInitializerFor(c)
         \/ CloseTransitively(c)

SeedsNext ==
    \/ SeedsStep
    \/ \E q \in Query : GetMethodScope(q)

SeedsSpec == SeedsInit /\ [][SeedsNext]_seedsVars
SeedsFairSpec == SeedsSpec /\ WF_seedsVars(SeedsStep)

-----------------------------------------------------------------------------
(***************************************************************************)
(* Properties.                                                             *)
(***************************************************************************)
Transitively(R, S) ==
    LET close[T \in SUBSET SootMethod] ==
          LET next == T \cup {p[2] : p \in {e \in R : e[1] \in T}}
          IN IF next = T THEN T ELSE close[next]
    IN close[S]

Calls == UNION {{m} \X Callees[m] : m \in SootMethod}
CalledFromEntries == Transitively(Calls, EntryPoints)

\* The entry points also call the initializers of the classes of the methods
\* that are reached without any initializer.
Initialized ==
    IF analyseClassInitializers
    THEN UNION {Initializers[ClassOf[m]] : m \in CalledFromEntries} ELSE {}
CallsAndInitializers == Calls \cup (EntryPoints \X Initialized)
Reached == Transitively(CallsAndInitializers, EntryPoints)

\* The methods that call m directly or not, and m.
CallersOf(m) ==
    Transitively({<<p[2], p[1]>> : p \in {e \in CallsAndInitializers : e[1] \in Reached}}, {m})

\* computeSeeds processes the methods reachable from the entry points, each once,
\* and finds their seeds, in whatever order transitions are announced while
\* the rules that make further ones are added.  (process, addPushRule)
SeedsExact ==
    Idle /\ stage = "computed" =>
      /\ processed = Reached
      /\ {p[1] : p \in seedToTransition} = UNION {Seeds[m] : m \in Reached}

\* The scope of a seed is its method with all callers.  If the method is an entry
\* point it may be the method alone: the seed is kept with the first transition
\* of its method, and which one is first the order decides.  (getMethodScope)
ScopeExact ==
    Idle => \A q \in answered : \A m \in {n \in Reached : q \in Seeds[n]} :
              \/ scope[q] = CallersOf(m)
              \/ m \in EntryPoints /\ scope[q] = {m}

=============================================================================
