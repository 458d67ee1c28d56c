# Formal models of WPDS (synchronized pushdown systems, Boomerang, IDEal)

This directory holds TLA+ models of the program's own core logic, TLC instances
that check them, and proofs checked by TLAPS. Everything is translated from the
Java sources under `src/`; nothing is translated from a paper.

## 1. The system

The repository is a stack of five Java projects. It is single-threaded; what makes it
hard is that everything is *incremental and re-entrant*. There is no worklist: adding
a transition or a rule calls listeners, a listener adds more of both and registers
more listeners, and all of it runs in nested calls. Java hash sets iterate in no
order a caller can rely on, so the order of almost everything is open.

| Part | State it keeps | Operations | Interacts through |
|---|---|---|---|
| Weighted pushdown system (`WPDS`, `WeightedPushdownSystem`) | rule sets, update listeners | `addRule`, `registerUpdateListener`, `poststar`, `prestar` | `onRuleAdded` callbacks |
| Weighted automaton (`WeightedPAutomaton`) | transitions with weights, state listeners, update listeners, connected pushes, unbalanced pops, nested automata | `addTransition`, `addWeightForTransition`, the `register*` methods, `reconnectPush`, `unbalancedPop`, `getTransitionsToFinalWeights` | listener callbacks, in the middle of which clients call back |
| post* (`PostStar`) | none of its own: its listeners are in the automaton | five listener classes, one per saturation rule | state listeners |
| Nested automata (summaries) | one automaton per generated state | `createNestedAutomaton`, `addNestedAutomaton` | listeners copied to children |
| pre* (`PreStar`) | a worklist | `prestar`, `update` | direct calls |
| Reachability (`ForwardDFSVisitor`) | incremental transitive closure, listeners | `onWeightAdded`, `registerListener` | update and state listeners of the automaton |
| Path expressions (`PathExpression`, `extractLanguage`) | elimination table | `eliminate`, `extractPathSequence` | read only |
| Synchronized solver (`SyncPDSSolver`) | two pushdown systems, two automata, the nodes reachable in each and in both | `solve`, `processNode`, `processNormal/Push/Pop`, `setCallingContextReachable`, `setFieldContextReachable`, witnesses | `onWeightAdded` of both automata |
| Boomerang solvers (`AbstractBoomerangSolver`, forward, backward) | reachable methods, queued work, per-statement listeners | `addReachable`, `submit`, `computeSuccessor` | Soot's control-flow graph, the queue |
| Boomerang (`WeightedBoomerang`) | one solver per query, points of indirection, call-site pairing | `solve`, `addBaseAllocation`, `addFlowAllocation`, field reads and writes, timeouts | listeners on all solvers |
| IDEal (`IDEALSeedSolver`, `IDEALWeightFunctions`) | two solvers, strong and weak updates, phase | `run`, `runPhase`, `addOtherThanOneWeight` | connect-push listener, non-one-flow listener |
| Weights (`TransitionFunction`, `SetDomain`, typestate automata) | immutable | `extendWith`, `combineWith` | called by the automaton |
| Test core, example programs, visualization, statistics | - | - | - |

What makes each part correct:

- **post\***: whatever order rules, transitions and listeners come in, the automaton
  is closed under the rules when the outermost call returns; it never holds anything
  not entailed; weights only improve; every return through a push and every pop at
  the bottom of the stack is reported with its final weight; the nesting ends.
- **Reachability**: a listener of a state hears of every transition reachable from
  that state and of no other, also when transitions arrive during a callback.
- **pre\***: the result accepts every configuration from which the target set is
  reachable.
- **Synchronized solver**: a node is processed exactly when both automata reach it,
  once, whichever came first.
- **Boomerang**: a runnable submitted for a method runs exactly once, when the method
  is or becomes reachable; every (base, flow) allocation pair is executed once;
  every pair of a push and a matching return at a call site is connected.
- **IDEal**: the second phase uses strong updates only where no other allocation
  site was seen; the phases do not leak into each other.
- **Weights**: `combineWith` is a join and `extendWith` a monoid that distributes
  over it, as far as the automaton relies on it.
- **Path expressions**: the language of the expression is the language of the graph.

## 2. Plan

| # | Module | What | Status |
|---|---|---|---|
| 1 | `PostStar` | post* on one automaton, with re-entrant clients | done, proved |
| 2 | `Saturation`, `LeastSaturation` | what a client of post* may rely on; `PostStar` implements it | done (TLC), `LeastSaturation` proved |
| 3 | `Reachability` | `ForwardDFSVisitor` and its epsilon variant over a growing automaton | done, proved |
| 4 | `PreStar` | the worklist algorithm | done |
| 5 | `SyncPDS`, `SyncFixpoint` | `SyncPDSSolver` over two automata that keep the promise of `Saturation`; its result is a least fixpoint | done, proved |
| 6 | `WholeProgram`, `PointsTo` | the solvers of `WholeProgramBoomerang` in one another's callbacks, against executions of the analysed method | done (TLC) for one method |
| 7 | `ReachableQueue` | `addReachable`, `submit` and the listeners that forward reachability between solvers | done, proved |
| 8 | `CallSites`, `CallSitesFixpoint` | points of indirection of calls, balanced and unbalanced returns, imports at returns; its result is a least fixpoint | done, proved |
| 9 | `Summaries` | nested-automata mode of post*: one automaton per generated state, shared by solvers | done, proved, without weights |
| 10 | `FinalWeights` | `getTransitionsToFinalWeights` and `ValueComputationListener`; for any weights with the laws below | done, proved |
| 11 | `TransitionFunctions`, `FinalStates` | the typestate weights; they satisfy `CombineAssumption` of `PostStar` and distribute; what a final weight says of an object | done, proved |
| 12 | `EmptyStackWitness`, `Ideal` | witnesses; the two phases, strong and weak updates, time-outs | done, proved |
| 13 | `Seeds` | `SeedFactory`: seeds of reached methods, scope of a query | done, proved |
| - | backward flow functions, field reads of backward queries, field summaries | | not planned in detail, see section 6 |

Theorems, in order of interest: saturation, connected pushes and monotonicity of
`PostStar` (done); that its result is the least saturated automaton (done); soundness and
completeness of `Reachability` (done); the queue runs work once, loses none and forwards all
(done); typestate weights are joins that distribute (done); synchronized, exactly-once
processing of `SyncPDS` (done); that call-site pairs are handled once (done); the reports of
unbalanced pops and what is strong in `Ideal` (done); that the outcome of the queue and the
imports of `CallSites` are least fixpoints, as post*'s result is (done), and that the result of
`SyncPDS` is (done); that final weights are the combined weights of the ways, and lead an object
where its statements do (done); that seeds and scopes are those of the call graph (done); that
shared summaries lose nothing and mix nothing up (done).
Open: `WholeProgram`, which TLC checks.

## 3. How the code is modelled

### The call stack (`CallStack`)

The code is one thread in which listeners call back into what called them. All
models share `agenda`, the call stack: a sequence of loops, innermost first, each
the set of calls it has yet to make. An action takes one call of the innermost loop,
does what the method does up to its first call, and pushes the calls it makes: a set
where the code iterates over a snapshot of a hash set (any order), a sequence of sets
where the code fixes the order. What the code reads before a nested call and uses
after it is an argument stored in the call; what it reads afterwards is read by a
later action. So an interleaving that the Java iteration orders admit is a behaviour,
and a stale snapshot is stale in the model too. `Idle` means the outermost call has
returned, which is when a client may look at the result. Deadlock is not checked: a
system in which nobody calls has stopped, and that calls do return is what the
`CallsReturn`, `SummariesReturn` and `SolvesReturn` properties say.

### Modules and code

| Module | Code | State | Actions |
|---|---|---|---|
| `PostStar` | `PostStar.java`, the transition, listener and push parts of `WeightedPAutomaton.java`, `addRule` of `WeightedPushdownSystem.java` | `weight` (transitionToWeights; its domain is `transitions`), `listeners`, `connected` (connectedPushes), `unbalanced`, `rules` | a client's `AddRule`, `AddSeed`, `Poststar`, also inside its own callbacks (`Observed` says which it listens to); `AddWeightForTransition`, `NotifyListeners`, `RegisterListener`; `OnNormal`, `OnPush`, `OnPop`, `OnTransitive`, `OnEpsilon`, one for each listener class; `ReconnectPush`, `UnbalancedPop` |
| `PostStarInvariant` | - | - | the inductive invariants: `SaturationInv`, `ReportInv`, `LeastInv` |
| `Entailment` | the same listener bodies, as one round of rules on a whole automaton | - | used by `Saturation`, `SyncPDS`, `WholeProgram` |
| `Saturation` | - | `rules`, `seeded`, `weight`, `busy` | the abstract solver: between calls the automaton holds exactly what is entailed |
| `LeastSaturation` | - | the same | the same solver without recursion: between calls the automaton is the least one to which the rules add nothing |
| `Reachability` | `ForwardDFSVisitor.java`, `registerDFSListener` and the notifications of `WeightedPAutomaton.java` | `reaches`, `adjacent`, `inverse`, `counted` (refCount), `closures`, `listeners`; `told` is history | `insertEdge` is cut at each point where it calls back: `InsertEdge`, `Count`, `MakeEdge`, `Spread`, `CloseOne`, `Poll` |
| `ReachabilityInvariant` | - | - | the inductive invariants: `SoundInv`, `CompleteInv` |
| `PreStar` | `PreStar.java` | `weight`, `worklist` | one for each loop and for `update` |
| `SyncRules`, `SyncPDS` | `SyncPDSSolver.java`, the node classes | rules and transitions of both systems, the three sets of nodes; `computed` and `told` count calls, `during` has the listeners registered inside an update listener | `Solve`, the contexts, `ProcessNode` (which tells the update listeners: the client runs), `TellStateListeners`, the successors, `RegisterListener` |
| `SyncFixpoint` | - | - | the result without any order |
| `WholeProgram` | `WholeProgramBoomerang`, the forward solver of `WeightedBoomerang`, `AbstractBoomerangSolver`, `ForwardBoomerangSolver`, `PointOfIndirection` | per query a field automaton, the context sets, `perStatementFieldTransitions` and listeners; per store the two sets of its point of indirection | `Solve`, the solver's own calls, `AddBaseAllocation`, `AddFlowAllocation`, `ExecuteImportAliases`, `OnAlias`, `OnTrigger`, `OnImport` |
| `PointsTo` | - | - | the executions of the analysed method, and a reference points-to analysis |
| `ReachableQueue` | `addReachable`, `submit`, `registerReachableMethodListener` of `AbstractBoomerangSolver`; `addAllocationType`'s listeners in `WeightedBoomerang` | per solver the reachable methods, the queued runnables, the listeners; histories of what ran | `Solve`, `AddReachable`, `Reachable` (the queue of the method), `NotifyListeners`, `Submit`, `RunRunnable`, `RegisterReachableMethodListener` |
| `CallSites` | `ForwardCallSitePOI`, `OnReturnNodeReachle`, `ImportFlowAtReturn`, the unbalanced returns of `WeightedBoomerang` | `returnsFromCall`, `byPassingAllocations`, the listeners, the nodes each solver reaches | `Solve`, `ProcessNode` (which makes the calls of `Found`), `AddReturn`, `AddByPassingAllocation`, `RegisterPair`, `OnReturnNodeReachable`, `ImportFlowAtReturn`, `UnbalancedReturnFlow`, `InsertTransition`, the contexts |
| `CallSitesFixpoint` | - | - | the result without any order |
| `Summaries` | the nested mode of `PostStar`, the nested automata of `WeightedPAutomaton`, `createCallSummaries` of `WeightedBoomerang` | transitions, nested automata and listeners, each of an automaton | `AddTransition`, the three registrations with their `HandOn`, `AddNestedAutomaton`, `GiveListeners`; one action for each listener class, with `OnSummary`, `OnEntered`, `OnReturned` for the anonymous ones |
| `FinalWeights` | `getTransitionsToFinalWeights`, `ValueComputationListener` | weights, listeners, the live map | `AddSeed`, `GetTransitionsToFinalWeights`, `AddWeightForTransition`, `RegisterListener`, `OnInTransitionAdded` |
| `TransitionFunctions`, `FinalStates` | `TransitionFunction`, `TypeStateMachineWeightFunctions` | - | operators; `FinalStates` puts them into `FinalWeights`, with additions of whatever weights extending and combining make of the rules' (`Effects`) |
| `EmptyStackWitness` | `synchedEmptyStackReachable`, `synchedReachable` of `SyncPDSSolver` | transitions, subscriptions, the two sets of candidates | `SynchedReachable`, `ListenToFields`, `ListenToCalls`, `FieldWitness`, `CallWitness` |
| `Ideal` | `IDEALSeedSolver`, `IDEALWeightFunctions` | `phase`, `nonOneFlowNodes`, `listeners`, `potentialStrongUpdates`, `weakUpdates`, `created` rules, `watch` | `RunPhase`, `Solve`, `NonOneFlow`, `AskSolvers`, `AddOtherThanOneWeight`, `CreateRule`, `Connect`, a `Timeout` at any point of a query |
| `IdealInvariant` | - | - | the inductive invariant of `Ideal` |
| `Seeds` | `SeedFactory` | automaton, rules, processed methods, seeds, closures, scopes | `ProcessTransition`, `AddRule`, `OutAdded`, `AnalyseClassInitializers`, `GetMethodScope`, `CloseTransitively` |

The MC modules give the constants their values. `MCPostStar`, `MCSummaries` and
`MCWholeProgram` hold several programs and let the client choose one (`MCNext` adds that
to `Next`); they restrict the client only, so what the code does is unchanged. `MCPrograms` has
the notation for analysed methods.

How they compose: `PostStar` implements `Saturation` (`MCPostStar`, checked by its
run). `SyncPDS` and `WholeProgram` then stand on that promise: their automata add
*some* entailed transition with each step, announce each, and let only the outermost
call on an automaton promise all of them. This is weaker than what the code does,
so what holds of them holds of any automaton that keeps the promise.
`WholeProgram` contains the control of `SyncPDS` once per solver; in a method without
calls the call automaton is only the set of nodes its rules reach, which is
`callingContextReachable`. `Ideal` extends `EmptyStackWitness`: the second decides when
an allocation site is a witness, the first what that does to the two phases.
`FinalStates` is `FinalWeights` with the typestate weights of `TransitionFunctions`.

Abstractions: a statement, local, field or label is a model value. A weight is a
member of a domain with `Extend` and `Combine`; `SyncPDS` and `WholeProgram` have one
weight; so have `CallSites` and `Summaries`. An exclusion wildcard is a name with a set of excluded labels. Listeners that
the code makes equal are one element (the rule stands for its listener).

Choices a reader should know:

- `HandlePopListener` meets a transition with an `Empty` label by adding the pop rule
  at the transition's target (`Forward`); the weight of that transition is dropped. The
  models do the same, and `Entailment!Forwarded` is the definition of what is entailed, so no
  property tells whether the weight is missed.
- An unbalanced pop is reported without the weight of the pop rule, and a
  connected push is told its listeners with the weights known at that time
  (`ReturnSiteWithWeights`): `PushesConnected` states exactly the part that does settle.
- `processPush` asks whether `fieldContextReachable` contains a `PushNode`. The set
  holds `Node`s, and `equals` compares classes, so the test never holds;
  the models add the rule always.
- `AllocVal` and `Val` are equal when the local is, so `TriggerBaseAllocationAtFieldWrite`
  compares locals.
- Left out: `canBeApplied` of a rule, which always answers yes (for casts it asks
  `canCastBeApplied`, which nothing overrides); the exception of `PreStar.update` for wildcard
  labels, which its instance does not have; in `FinalWeights` the test for a loop with an
  `Empty` label (`PostStar` has it).
- In `WholeProgram` the points of indirection of field reads have no effect:
  `FieldReadPOI.execute` throws in a whole-program analysis, and only backward queries
  register flow allocations there.

- `CallSites` takes what a flow function finds at a node as the parameter `Found`, and leaves out
  the target of an imported field transition, which `WholeProgram` follows. Its solvers have no
  update listeners that register others; `SyncPDS` has them. What a node finds comes after its
  listeners have been told (in `WeightedBoomerang` the forward queries of a node are started a few lines
  before its call sites are looked at; the findings are the same). Of `unbalancedReturnFlow` the
  waiting for a reachable method (`submit`, see `ReachableQueue`) and static initializers
  are left out, and the two calls at its end are one step.
- A state listener that an update listener registers while `addReachableState` tells the update
  listeners is called twice: by `registerListener`, for which the node is reached already, and by the
  loop after it, which copies the state listeners only then. `ToldAsDue` counts this in.
- `callSummaries` is off by default and in all tests (`nested()` returns false). The
  listeners of `PostStar` are equal for two solvers, so in a shared summary only the solver whose
  listener came first is told of connected pushes (`ReturnsReported` says what each is told).
  `createCallSummaries` gives a solver its own call automaton for every generated state whose fact
  is the variable of the query (`SummaryOf`); `getOrCreateSummaryAutomaton` then nests that automaton
  in itself. `Summaries` has this, within the bound `LookAlike`: solvers of one run look for the
  transitions into a generated state in the same automata, so a solver that has calls in its own
  automaton is alone. Where they do not, the first of two equal listeners puts a transition
  in its solver's own automaton only, and `update` may find no automaton in another's name. (The code
  then throws; nothing in the repository says what should happen, and the option is off.)
  `registerNestedAutomatonListener` does not go down into nested automata;
  `addNestedAutomaton` hands DFS listeners on, twice, while a later `registerDFSListener` does not.
- In `Ideal` the first phase's listener stays registered and goes on starting backward queries
  in the second phase, with the first phase's Boomerang and the second phase's weight functions.
  A rule keeps the update it was created with. What is guaranteed therefore speaks of the
  forward solvers that exist when the backward query of a node has been solved
  (`IDEALSeedSolver:158` loops over them once).
- The scope of a method that is an entry point and is called as well depends on which of its two
  transitions comes first. Class initializers are added in one pass over a snapshot of the
  processed methods; an initializer that this pass reaches first does not bring in its
  class's initializer. `SeedsExact` and `ScopeExact` state what holds in every order.

## 4. What each run checks

| Run | Question | Instance and bounds |
|---|---|---|
| `post_star` | Is the automaton saturated, are returns and pops reported, do weights only improve, does the nesting end, whatever the order? | Four programs. `Recursion`: two recursive pushes into one callee, two pops. `Weights`: two normal rules of different weight into one push, a seed that makes a pop leave the bottom. `Fields`: two fields, a store of each, an exclusion, a load, a loop of assignments. `Callbacks`: rules and seeds from inside the client's callbacks, the second weight of a push may arrive late. Weights are sets of first events over two events, which do not commute. |
| `reachability` | Is a listener told of exactly the reachable transitions? | A cycle of three empty transitions with two proper ones, two listeners, everything from inside callbacks too. |
| `prestar_simple` | (violation) the chain of `PDSPrestarTests.simple` | Two normal rules. |
| `sync` | Is a node processed when both automata reach it, once? Is each listener told as often as it should be? Is the result order-free? | A loop with a call, a return, a push and two pops of fields, two start nodes, two state listeners; the client registers and asks from inside update listeners and state listeners. |
| `whole_program` | Are aliases of a stored-to object found, and none invented? Do imports end? | `Aliases`: ten blocks, three allocation sites, two fields; the alias is behind a field that only another solver knows. `Walk`: a self-loop in the heap and one in the control flow. |
| `two_stored` | (violation) two objects that one statement stores | Two allocations in the branches of an if. |
| `call_sites` | Does each solver import where another one returns, each pair once? | A call and an exit, two forward queries and a backward one that starts a forward one; balanced and unbalanced returns, a static field; two solvers that import from each other. |
| `reachable_queue` | Does waiting work run, once, in any order, and do forward solvers learn what backward ones know? | Two solvers, three methods, nine kinds of work that submit one another; with and without the on-the-fly call graph. |
| `summaries` | Does each solver know what an automaton of its own would contain? Are listeners handed to every nested automaton, and does that end? | Two programs: a procedure that two solvers enter in two ways, one summary with the nodes of another; a procedure whose summary is nested in itself. A third solver, alone, asks about the variable that the calls of both programs are entered with, so it takes its own automaton for them. |
| `final_weights` | Does the live map end with the combined weight of all ways, and what does that say of the object? | Two generated states on a cycle, an open and a close of a file, a weight that improves, additions with products of rules' weights and with combined ones; asked for at any time. |
| `ideal` | Which statements are updated strongly, and does no phase leak into the other? | Two calls that change the state, two allocation sites, a connected push, a time-out at any point. |
| `seeds` | Are exactly the seeds of reached methods found, with their scopes? | Nine methods: recursion, two entry points of which one is also called, an unused method, two class initializers. |

`CombineAssumption` of `PostStar` holds in its instance and TLC evaluates it; that it holds of
the typestate weights of the program is proved (section 5).

Why the bounds are enough: each instance is the smallest in which the hazard it is for
occurs, and the mutants of PROJECT.json show that it does: for every property of every
run there is a plausible mistake in the code (a dropped replay, a missing snapshot pair,
a swapped weight, a lost membership test) that makes TLC report it. The client's choices
are bounded by giving each rule, seed, listener and query once; a second addition of the
same rule or seed changes nothing in the code (`ReachableQueue` is the exception: equal work
submitted twice is two runnables, and its instance does that). Queries in `WholeProgram` are solved in
every order, so the order in which the seeds come out of a hash set does not matter.
`PointsTo` executes each method; in the programs that are executed each
allocation statement runs at most once, so a site names an object.

`PointsTo` compares in two directions. `NoneMissed`: what some execution puts
into a variable is answered. `NothingInvented`: what is answered is possible according to a
flow-sensitive analysis without strong updates of the heap, which is what Boomerang's
own tests call imprecise otherwise. Answers are never withdrawn, so it is enough that
it holds whenever the solvers are at rest.

Results that must not depend on any order are compared with a fixpoint computed without
one: `OrderIndependent` (`SyncFixpoint`, `ReachableQueue`), `ImportsExact`
(`CallSitesFixpoint`), `SummariesExact`, `FinalWeightsExact`, `SeedsExact`, and
`KeepsPromise` for post*.

### Fairness

`WF_vars(Step)`: the only thread keeps running while it has something to do, and a
client's listener returns after finitely many calls (each seed and rule once). No
fairness is assumed of the client: it need not call. There is no
strong fairness and no fairness of single actions: which call of a loop is next stays open.

### Findings

- `prestar_simple`: `update` calls `addTransition`, which stores the weight One, before it
  reads the old weight. With `NoWeight` the weight is never seen to change, the transition
  is never queued and the chain of `PDSPrestarTests.simple` is not closed; the test class is
  ignored. (In the same file, line 80 looks up the
  transition of the pushed symbol from the target of `t`; no test says what should hold.)
- `two_stored`: alias listeners of one store at one base solver are equal whatever
  their flow query, so the second is dropped. In
  `if (..) x = new O; else x = new U; y = new B; z = y; y.f = x; v = z.f` one of the two
  objects is not answered for `v`. The passing instances therefore have one allocation
  flowing into each store. The same happens when one object is stored and comes
  back to the stored variable by way of another solver.

## 5. What is proved

TLAPS checks the proofs for every value of the constants that satisfies the named
assumptions. Of `PostStar`: `LabelAssumption`, `StateAssumption`, `WeightAssumption`,
`CombineAssumption` (combine is idempotent, commutative and associative),
`ExtendAssumption` (extend is monotone; it need not distribute and need not have a unit) and
`ClientAssumption`. `ExtendAssumption` is used for the least automaton only. The typestate
weights satisfy both (`CombineIsJoin`, and `ExtendDistributes`, of which monotone is the weaker
half), `NoWeight` trivially. Of the others: `ReachabilityAssumption`,
`ReachableQueueAssumption`, `SyncAssumption`, `CallSitesAssumption`, `MachineAssumption`,
`FinalWeightsAssumption`, `FinalStatesAssumption`, `SeedsAssumption`, `SummariesAssumption`,
`WitnessAssumption`, and `IdealAssumption` with `JoinAssumption`, which is again what `CombineIsJoin` proves of the
program's weights. `SeedsInOneMethod` says that no two methods have a query in common: a query is
asked at a statement, and that lies in one method.

Where a result is compared with one that is computed by recursion, what the recursion runs over is
finite: `ReachableQueueFinite`, `SyncFinite`, `CallSitesFinite`, `FinalWeightsFinite`,
`FinalStatesFinite`, `SeedsFinite`, `SummariesFinite`. A program has finitely many methods, statements, facts and
typestates. Over an infinite set the recursion need not end, and then names no value; the theorems
that speak of the least set instead (`OutcomeIsLeast`, `ResultIsLeast`, `ImportsAreLeast`,
`FinalIsLeast`, all of post*) do without.

- `PostStar_proofs`: `TypeCorrect`, with `ReplaysFind`: a listener that is replayed
  a transition finds a weight for it. Then, from three invariants, each on top of the one before:
  - `SaturationInv` gives `SaturatedWhenQuiet`, `PushesConnectedWhenQuiet` and `OnlyImproves`.
    Saturation alone is not inductive: in the middle of nested calls the automaton is not
    closed, and loops hold stale weights. The invariant says where the missing work
    is. `RulesHeeded`: every rule is registered as a listener or its registration is on the
    stack. `NoneMissed`: each listener has reacted to the *present* weight of each transition it
    hears (`Handled`: every call it would make is done or on the stack), or a call that will
    tell it is on the stack (`Told`). `Done` is stable because weights only improve, and
    "only improve" follows from combine being a join. A listener registered during a
    notification loop is covered by its replay; a weight improved during a loop is
    covered by the nested loop for the new weight. When the stack is empty nothing is
    owed, and that is saturation.
  - `ReportInv` gives `PopsReportedWhenQuiet` and `ReportsAlwaysJustified`. That a pop
    is reported with at least the final weight is owed work, as above; that it is with no
    better one needs an upper bound on every weight in flight: each call on the stack
    carries a weight that the transition has had and still absorbs (`Known`), and a listener
    for returns finds the push's transition because the push adds it before it registers the
    listener (`PushedFirst`, which speaks of the order of the loops on the stack).
  - `LeastInv` gives `ImplementsLeastSaturation` and `LeastWhenQuiet`: the result is the
    least automaton to which the rules add nothing, hence the same whatever the order. `Covered`
    says of *every* such automaton that it holds the present one, what each
    listener may still derive, and what each call on the stack is about to add; a step
    keeps that because extend is monotone, so a stale weight derives no more than the final one.
    With `SeedsHeeded` the automaton at rest is one of these automata itself. Pop rules that are
    forwarded behind `Empty` labels count as rules of the closed automaton. The refinement maps
    each step of a running call to `Work`, each call of the client to `Ask` (a rule that is added
    before `poststar` counts from the moment that is called).
- `Reachability_proofs`: `TypeCorrect`, `NothingUnreachableTold`, `EverythingReachableTold`.
  `SoundInv` asks that all pairs stored *and all pairs in the snapshots that loops on the stack
  still hold* are paths; paths stay paths as transitions are only added. Reachability is stated
  as "in every set closed under the transitions", which needs no recursion. `CompleteInv` says
  what is owed. `Propagated`: where a stored path is followed by an edge, the longer path is
  stored, or a call on the stack `Owes` it: one that still spreads that edge, one that still has
  the path in its worklist, or one that is about to try the longer pair. `insertEdge` works on
  snapshots, so which of these it is changes as loops nest. `Followed`: each transition
  has been made an edge or its notification is on the stack. `Subscribed` and `Notified`: a
  listener waits at every state its own reaches and has been told of what leaves there,
  or a pending call will see to it. `Nested` orders the four relations.

- `ReachableMethods_proofs`, of `ReachableQueue`: `RunsOnce`, `NoneLost`, `ForwardsAlwaysKnow`, for any solvers, any
  work and any way in which work makes further methods reachable. `QueueInv` has to say where
  a runnable is at any moment: it waits in the queue of a method that is not reachable, or it is
  in a loop on the stack, or it has run, and in exactly one of these (`PendingSound`, `PendingOnce`,
  `RanSound`, `QueuedSound`, `CreatedKept`). `Forwarding` does the same for reachable methods and
  listeners: the forward solver knows the method, or a call that will tell it is on the stack.
  `OutcomeIsLeast` and `OrderNeverMatters` say that no order shows in the outcome. `Made` is the
  set of calls that have taken effect. `Followed`: it lies, with all that is on the stack, within
  every set that holds the queries' calls and is closed under `Follow`. `Heeded`: what the queries
  and the work that ran ask for is made, or on the stack. At rest both together make `Made` the
  least such set. `Closure` computes that set by recursion, and `ClosureEnds` of `CallStack_proofs`
  says that the recursion ends in it.
- `ReachableMethods_proofs`, of `Seeds`: `SeedsAlwaysExact`, `ScopeAlwaysExact`, for any call graph,
  initializers and queries. (`Seeds` has names of its own, `SeedsNext` and so on, because one module
  extends both.) `SeedsInv` is the sound half: each transition and rule comes from a call of a
  reached method (`Founded`, `Allowed`), a method is processed only with a transition on top
  of it, and each call on the stack carries what may be made of it (`FoundedCall`). `Owed` is the
  other half, one conjunct for each event that obliges the factory to another: a transition and its
  `process`, a processed method and the rules of its calls, a rule and the transitions it
  makes from each transition it meets, before or after the rule came. Initializers are owed for
  what `CalledFromEntries` holds, since they are analysed when the entry points are done. At rest
  both make `processed` the least set with the entry points that is closed under calls.
  `ScopeInv` is about the later stage, in which the automaton is fixed: the states for which
  a closure was started are closed under the transitions out of them, or a call will see to it
  (`ScopeClosed`); they lie on a chain of callers (`ScopeFounded`, `ScopeSound`); and the one case in which
  the scope is the method alone is that of an entry point processed with its first
  transition (`ScopeAlone`).
- `Solvers_proofs`, of `SyncPDS`: `TypeCorrect`, `AlwaysSynchronized`, `AlwaysComputedOnce`, `AlwaysToldAsDue`,
  for any program, any successors and any entailed transition post* may add next.
  `Synchronized` speaks of idle states only, so `SyncInv` says what is owed before: every
  transition in an automaton has been announced or will be (`HeardKept`), only transitions that
  are there are announced (`HeardSound`), and a node in both contexts is processed or will be
  (`ProcessKept`). The delicate part is `solve`, which processes its node without asking the
  automata: that call is `Behind` the two that add the node's transitions, so no order of the
  nested calls lets it overtake them (`ProcessSound`). What happens once is `Counted`: it is
  due exactly when it was done once or one call on the whole stack will do it. A listener is owed
  two calls if it was registered between `reachedStates.add` and the copy of the state listeners; the
  copy of its node is then still on the stack, once, and will take it in.
  `ResultIsLeast` and `OrderNeverMatters` say what both systems hold at rest. `Heeded`: the
  transitions of a solved node, the rules of a reached one and the rest of post* in both systems
  are there, or a call on the whole stack will see to them; a nested call on an automaton may so
  return with work left, because an outer call of the same automaton has still to finish. `Followed`: the result so far, with all that is on the stack, lies within every outcome
  that holds the solved nodes and that `Round` leaves alone; it needs that post* is monotone in its
  rules and transitions (`FieldsMonotone`, `CallsMonotone`) and that what is announced is there
  (`SyncInv`). Each action's `Effect` is shown once for both. That the recursion of `Fixpoint` ends
  in the least outcome follows from `ClosureEnds`, as for the queue.
- `Solvers_proofs`, of `Summaries`: `SummariesAlwaysExact`, `AlwaysHandedOn`,
  `ReturnsAlwaysReported`, for any rules and any number of solvers. (`Summaries` has names of
  its own where `SyncPDS` has the same.) What makes this hard is that an automaton is several solvers'
  and that it is not known which: `Placed(s, a)` says that a is in every set of automata that has
  the solver's own and is closed under nesting. `SumInv`: a listener is only registered below
  its own solver's automaton (`GoodListener`), and a transition is where each solver that has its
  automaton below its own would put it (`InPlace`; by `PutBy` the calls that add one agree on that). `SumOwed` has a conjunct for each event that obliges
  the solvers to another: a start, a transition and a listener, a nested automaton and a
  listener of the outer one, whichever came first, a processed node and its rules. `SummaryOwed`:
  whoever adds the transition of a push has *some* listener wait for the summary, and one
  is enough, as what it adds is the same whoever made it. At rest the listeners of a solver's
  own automaton, or equal ones of other solvers, are then registered with all those placed below
  it, so what is there is closed under the rules. `SumFollowed` is the other half, that a shared
  automaton gives no solver what only another one derives. It is about every closed set T, and
  conditional: each transition into an automaton is in T *if* T holds what everyone has who uses
  that automaton (`Enters`: the first transition of the callee). A solver's own starts make the
  condition true of its automaton, and nesting hands it down, although none of the calls on the stack knows for which
  solvers it works. A solver that enters itself is the only one (`LookAlike`), and then the
  condition is that T holds all that was started (`AllStarts`; `Sharing` says that no solver enters
  itself). That a call stays in the automaton it is made in needs no case of its own: the closed
  sets are sets of transitions, wherever these are.
- `CallSites_proofs`: `AlwaysPairedOnce`, for whatever the flow functions find. `Handled` says of
  each pair that it is due (both sides are in their sets) exactly when `eachPair` was called with
  it or one call on the stack will do so. Both loops run over snapshots; the side that is added
  second makes the call, because it is in no set before its own addition.
  `ImportsAreLeast` and `OrderNeverMatters` say what becomes of the pairs. `Makes` lists the calls
  that each call makes, `Done` what it leaves. `Heeded` has one conjunct for each event that
  obliges the solvers to another: a transition and the listeners registered before or after it,
  a node in both contexts, a pair and its reached return node, a transition at the return
  statement; what is owed is done or on the stack. `Followed`: what is known and what is on the
  stack lies within every set of findings to which `Extended` adds nothing. At rest both make
  the findings the least such set. That the recursion of `Fixpoint` ends in the least
  set follows as for the queue.
- `Ideal_proofs`: `AlwaysPotentialComplete`, `AlwaysWeakUpdatesExact`, `AlwaysStrongOnlyIfSure`,
  `AlwaysWatchRuns`, for any rules, allocation sites and order of the solvers' events.
  `WitnessInv`: each listener of `synchedReachable` has heard of every transition at its node or
  will (`Heard`), of none that is not there (`Grounded`), and two candidates for one fact are a
  witness, whichever came first (`Matched`); so a solver is found exactly when both automata
  agree. `PotentialInv`: the first phase's listener has absorbed each announced weight or
  the call that will is on the stack, also for what was announced before it registered. `WatchInv`
  and `PhaseInv` are about the order of the loops: between a call that stops the watch and
  one that goes on working lies one that sets it again, and the second phase is the last call of
  all. The latter holds although the first phase's listener is never removed. After
  a time-out nothing more is owed, and what was recorded stays sound.
- `FinalStates_proofs`, in two parts. The laws: a weight of the typestate analysis, with ONE, ZERO and the
  transition `ID -> ID`, is a set of transitions, `extendWith` is composition and `combineWith` union
  (`StatesExact`, `EqualWhenSame`). Hence `CombineIsJoin`, which is what `PostStar` assumes of
  weights, `ExtendDistributes`, and `TypestateLaws`, which is what `FinalWeights` assumes. The map
  of final weights: `FinalIsLeast` for any weights that combine by a join and extend monotonically,
  `FinalIsCombined` (each transition has the combination of the weights of the ways to it) where
  extend distributes, `TypestatesCombined` and `FinalLeadsExactly` for typestates. What is added may be any weights of
  `Effects`: both extending and combining keep that a weight does to an object what the pairs of states
  next to it say (`EffectsExact`), so this holds of products of rules' weights and of strong and weak updates.
  `Heeded` says what is owed: each listener has combined the *present* weight of each transition
  into its state into the map, or a call on the stack will; and where a transition of the map leaves a
  generated state, a listener with its *present* final weight is there, or its registration is on the
  stack. Listeners with older weights stay registered and go on combining; `Followed` says that
  they do no harm: what they hold is the weight of some ways, and the map, the listeners
  and the calls on the stack lie within every set of weights that holds those of single ways
  and is closed under combining.
- `CallStack_proofs` has what these share: what is pending or waiting, how often, and behind what, after
  a call is taken from the innermost loop, loops are pushed, or a loop has ended; and when
  a recursion ends. `SetClosure`: a recursive function that adds to a set until nothing is new ends, if all it
  may add is finite, in the least set that is closed. The induction is on the strict subsets of what
  is left to add, which are well-founded when that is finite; it is stated for one function
  at a time, so no theorem with an operator parameter is needed.

Only model-checked: everything about liveness (fairness and ENABLED are beyond the prover);
`KeepsPromise`, for which `LeastSaturation` says the same as `Saturation` without recursion, and
that is proved (TLC checks `KeepsPromise` because it can compute the one and not quantify over the
other); and the invariants of `WholeProgram`. They compare
with executions and with a reference analysis that `PointsTo` defines by recursive operators, which
the prover does not support. `NoneMissed` holds for the programs of its run and is false for others (see
`two_stored`), so it is not a theorem.

## 6. Not modelled

See "components" in PROJECT.json.

- Within Boomerang: the flow functions of backward queries and their field and array reads, the target of an
  imported field transition at a call site, multi-arrays, string constants, static fields (but for
  the test at call sites), the type check (which suppresses transitions by static
  types only), the analysis time-out of a query (IDEal's is modelled) and `fastForwardFlows`, which is off by
  default. The backward flow functions are case distinctions over Jimple statements; what is
  re-entrant about backward queries is in `CallSites` and `ReachableQueue`.
- Field summaries: the nested mode on the field automaton. It is the same code as `Summaries`
  models for the call automaton, with wildcards; the option is off by default.
- Path expressions: `extractLanguage` is the only user of `PathExpressionComputer`, and
  nobody calls it.
- The concrete typestate machines: tables of method-name patterns; `TransitionFunctions` takes
  any machine. `SetDomain` has no user; `NoWeight` has one element.
- The loop over seeds in `IDEALAnalysis`, which shares nothing between the seeds.
- Soot's control-flow graph, call graph and type hierarchy; statistics, options, the debugger, the experiment and
  test scaffolding.
- All JavaScript below `boomerangPDS/visualization` (webix, its i18n files, excanvas and swfobject,
  cytoscape and its dagre adapter) is third-party code shipped with a page that displays results. The
  program's own logic is the Java code; none of those files is part of it.
