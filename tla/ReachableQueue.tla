--------------------------- MODULE ReachableQueue ---------------------------
(***************************************************************************)
(* AbstractBoomerangSolver.addReachable, submit and                        *)
(* registerReachableMethodListener, over the solvers of WeightedBoomerang: *)
(* what a solver has to do in a method waits until the method is reachable *)
(* for that solver, and a backward solver passes the methods it reaches on *)
(* to the forward solvers it started.                                      *)
(*                                                                         *)
(* The work itself (adding a rule, processing a witness, an unbalanced     *)
(* return) is abstracted to the calls it makes here.                       *)
(***************************************************************************)
EXTENDS CallStack, Integers, FiniteSets

CONSTANTS
    Solver, Method, Work,
    MethodOf(_),     \* the method a piece of work is submitted for
    Performs(_, _),  \* the loops of calls a solver's work makes
    Queries,         \* the calls by which solve starts
    Options          \* the values of onTheFlyCallGraph to consider

Nodes == Work        \* a witness is named by the work that processes it

\* A ReachableMethodListener is anonymous: one for each witness of an allocation.
Listener == [forward : Solver, node : Nodes]

ReachCall == [op : {"addReachable"}, s : Solver, m : Method]
SubmitCall == [op : {"submit"}, s : Solver, w : Work]
RegisterCall == [op : {"register"}, s : Solver, l : Listener]
UserCall == ReachCall \cup SubmitCall \cup RegisterCall

\* The second loop of addReachable.
NotifyCall == [op : {"notify"}, s : Solver, m : Method]

\* A Runnable is an object: equal work submitted again is another one.
Runnable == [s : Solver, w : Work, n : Nat \ {0}]
RunCall == [op : {"run"}, r : Runnable]
HearCall == [op : {"reachable"}, l : Listener, m : Method]
Call == UserCall \cup NotifyCall \cup RunCall \cup HearCall

ASSUME ReachableQueueAssumption ==
    /\ \A w \in Work : MethodOf(w) \in Method
    /\ \A s \in Solver, w \in Work : Performs(s, w) \in Seq(SUBSET UserCall)
    /\ Queries \subseteq UserCall
    /\ Options \subseteq BOOLEAN

\* There are finitely many calls (needed only where their closure is computed).
ASSUME ReachableQueueFinite ==
    IsFiniteSet(Solver) /\ IsFiniteSet(Method) /\ IsFiniteSet(Work)

VARIABLES
    onTheFlyCallGraph,
    solved,      \* the queries' calls made so far
    submits,     \* how many runnables have been created for <<s, w>>
    reachable,   \* reachableMethods, for each solver
    queued,      \* queuedReachableMethod of all solvers
    listeners,   \* reachableMethodListeners, for each solver
    ran          \* the runnables that have been run

data == <<onTheFlyCallGraph, solved, submits, reachable, queued, listeners, ran>>
vars == <<data, agenda>>

Init ==
    /\ onTheFlyCallGraph \in Options
    /\ solved = {}
    /\ submits = [j \in Solver \X Work |-> 0]
    /\ reachable = [s \in Solver |-> {}]
    /\ queued = {}
    /\ listeners = [s \in Solver |-> {}]
    /\ ran = {}
    /\ agenda = <<>>

\* Bound: each call of a query is made once.
Solve(q) ==
    /\ Idle /\ q \notin solved
    /\ solved' = solved \cup {q}
    /\ agenda' = <<{q}>>
    /\ UNCHANGED <<onTheFlyCallGraph, submits, reachable, queued, listeners, ran>>

EndLoop == LoopEnds /\ UNCHANGED data

Run(r) == [op |-> "run", r |-> r]
Hear(l, m) == [op |-> "reachable", l |-> l, m |-> m]

(***************************************************************************)
(* addReachable.  Its first loop runs over the live collection of the      *)
(* method's queue, to which nothing is added any more: the method is in    *)
(* reachableMethods, so submit runs at once.  Nothing is ever taken out.   *)
(***************************************************************************)
\* Mutant: the queue is run whenever the method is said to be reachable.
AddReachableAgain(c) ==
    /\ c.op = "addReachable"
    /\ reachable' = [reachable EXCEPT ![c.s] = @ \cup {c.m}]
    /\ Return(c, <<{Run(r) : r \in {q \in queued : q.s = c.s /\ MethodOf(q.w) = c.m}},
                   IF c.m \in reachable[c.s] THEN {}
                   ELSE {[op |-> "notify", s |-> c.s, m |-> c.m]}>>)
    /\ UNCHANGED <<onTheFlyCallGraph, solved, submits, queued, listeners, ran>>

AddReachable(c) ==
    /\ c.op = "addReachable"
    /\ reachable' = [reachable EXCEPT ![c.s] = @ \cup {c.m}]
    /\ Return(c, IF c.m \in reachable[c.s] THEN <<>>
                 ELSE <<{Run(r) : r \in {q \in queued : q.s = c.s /\ MethodOf(q.w) = c.m}},
                        {[op |-> "notify", s |-> c.s, m |-> c.m]}>>)
    /\ UNCHANGED <<onTheFlyCallGraph, solved, submits, queued, listeners, ran>>

\* The second loop, over the listeners registered by then.
NotifyListeners(c) ==
    /\ c.op = "notify"
    /\ Return(c, <<{Hear(l, c.m) : l \in listeners[c.s]}>>)
    /\ UNCHANGED data

\* The listener of a backward solver passes the method on.
Reachable(c) ==
    /\ c.op = "reachable"
    /\ Return(c, <<{[op |-> "addReachable", s |-> c.l.forward, m |-> c.m]}>>)
    /\ UNCHANGED data

\* Mutant: only methods reached later are passed on.
RegisterWithoutReplay(c) ==
    /\ c.op = "register"
    /\ listeners' = [listeners EXCEPT ![c.s] = @ \cup {c.l}]
    /\ Return(c, <<>>)
    /\ UNCHANGED <<onTheFlyCallGraph, solved, submits, reachable, queued, ran>>

RegisterReachableMethodListener(c) ==
    /\ c.op = "register"
    /\ listeners' = [listeners EXCEPT ![c.s] = @ \cup {c.l}]
    /\ Return(c, IF c.l \in listeners[c.s] THEN <<>>
                 ELSE <<{Hear(c.l, m) : m \in reachable[c.s]}>>)
    /\ UNCHANGED <<onTheFlyCallGraph, solved, submits, reachable, queued, ran>>

(***************************************************************************)
(* submit, and what is submitted.                                          *)
(***************************************************************************)
New(c) == [s |-> c.s, w |-> c.w, n |-> submits[<<c.s, c.w>>] + 1]

MayRun(r) == MethodOf(r.w) \in reachable[r.s] \/ ~onTheFlyCallGraph

\* Mutant: one runnable is kept for a method.
SubmitReplaces(c) ==
    /\ c.op = "submit"
    /\ submits' = [submits EXCEPT ![<<c.s, c.w>>] = @ + 1]
    /\ IF MayRun(New(c))
       THEN Return(c, <<{Run(New(c))}>>) /\ UNCHANGED queued
       ELSE /\ Return(c, <<>>)
            /\ queued' = {New(c)} \cup
                 {r \in queued : r.s # c.s \/ MethodOf(r.w) # MethodOf(c.w)}
    /\ UNCHANGED <<onTheFlyCallGraph, solved, reachable, listeners, ran>>

\* Mutant: work is queued behind work of the same method that is still queued.
SubmitBehind(c) ==
    /\ c.op = "submit"
    /\ submits' = [submits EXCEPT ![<<c.s, c.w>>] = @ + 1]
    /\ IF MayRun(New(c)) /\ ~\E r \in queued : r.s = c.s /\ MethodOf(r.w) = MethodOf(c.w)
       THEN Return(c, <<{Run(New(c))}>>) /\ UNCHANGED queued
       ELSE Return(c, <<>>) /\ queued' = queued \cup {New(c)}
    /\ UNCHANGED <<onTheFlyCallGraph, solved, reachable, listeners, ran>>

Submit(c) ==
    /\ c.op = "submit"
    /\ submits' = [submits EXCEPT ![<<c.s, c.w>>] = @ + 1]
    /\ IF MayRun(New(c))
       THEN Return(c, <<{Run(New(c))}>>) /\ UNCHANGED queued
       ELSE Return(c, <<>>) /\ queued' = queued \cup {New(c)}
    /\ UNCHANGED <<onTheFlyCallGraph, solved, reachable, listeners, ran>>

Performed(s, w) == \E r \in ran : r.s = s /\ r.w = w

\* Mutant: the loop comes to the same runnable again.
RunAgain(c) ==
    /\ c.op = "run"
    /\ ran' = ran \cup {c.r}
    /\ Resume(c, IF Performed(c.r.s, c.r.w) THEN <<>> ELSE Performs(c.r.s, c.r.w), c)
    /\ UNCHANGED <<onTheFlyCallGraph, solved, submits, reachable, queued, listeners>>

\* The sets behind it (rules, contexts) ignore what they hold already.
RunRunnable(c) ==
    /\ c.op = "run"
    /\ ran' = ran \cup {c.r}
    /\ Return(c, IF Performed(c.r.s, c.r.w) THEN <<>> ELSE Performs(c.r.s, c.r.w))
    /\ UNCHANGED <<onTheFlyCallGraph, solved, submits, reachable, queued, listeners>>

Step ==
    \/ EndLoop
    \/ \E c \in Innermost :
         \/ AddReachable(c)
         \/ NotifyListeners(c)
         \/ Reachable(c)
         \/ RegisterReachableMethodListener(c)
         \/ Submit(c)
         \/ RunRunnable(c)

Next == Step \/ \E q \in Queries : Solve(q)

Spec == Init /\ [][Next]_vars
FairSpec == Spec /\ WF_vars(Step)

-----------------------------------------------------------------------------
(***************************************************************************)
(* Properties.                                                             *)
(***************************************************************************)
Created == {r \in Runnable : r.n <= submits[<<r.s, r.w>>]}

TypeOK ==
    /\ onTheFlyCallGraph \in BOOLEAN
    /\ solved \subseteq Queries
    /\ submits \in [Solver \X Work -> Nat]
    /\ reachable \in [Solver -> SUBSET Method]
    /\ queued \subseteq Runnable
    /\ listeners \in [Solver -> SUBSET Listener]
    /\ ran \subseteq Runnable
    /\ agenda \in Seq(SUBSET Call)

\* No runnable is run a second time: not by a second addReachable of its method,
\* nor by one that is nested in a loop that is running it.  (addReachable, submit)
RunOnce ==
    \A i \in DOMAIN agenda : \A r \in ran : Run(r) \notin agenda[i]

\* When the solvers are at rest, what was submitted has been run if and only if
\* its method is reachable or nobody waits for that; before, it is at least
\* still going to be run.  (addReachable, submit)
NothingLost ==
    \A j \in Solver \X Work : \A n \in 1..submits[j] :
      LET r == [s |-> j[1], w |-> j[2], n |-> n]
      IN  /\ MayRun(r) => r \in ran \/ Pending(Run(r))
          /\ ~MayRun(r) => r \in queued \ ran

\* When the solvers are at rest, a forward solver knows every method that is
\* reachable for a backward solver that started it: the registration replays
\* what the notification has missed.  (registerReachableMethodListener)
ForwardsKnow ==
    Idle => \A s \in Solver : \A l \in listeners[s] :
              reachable[s] \subseteq reachable[l.forward]

\* The work that may run after these calls.
Runnables(calls) ==
    {c \in calls : /\ c.op = "submit"
                   /\ onTheFlyCallGraph =>
                        [op |-> "addReachable", s |-> c.s, m |-> MethodOf(c.w)] \in calls}

\* What the listeners pass on to the forward solvers.
PassedOn(calls) ==
    {[op |-> "addReachable", s |-> p[1].l.forward, m |-> p[2].m] :
       p \in {q \in calls \X calls :
                q[1].op = "register" /\ q[2].op = "addReachable" /\ q[1].s = q[2].s}}

\* The calls that follow from those of the queries, in no order: the least
\* set that contains what runnable work performs and what listeners pass on.
Follow(calls) ==
    PassedOn(calls) \cup
    UNION {UNION {Performs(c.s, c.w)[i] : i \in DOMAIN Performs(c.s, c.w)} :
             c \in Runnables(calls)}

Closure[calls \in SUBSET UserCall] ==
    IF Follow(calls) \subseteq calls THEN calls
    ELSE Closure[calls \cup Follow(calls)]

AllCalls == Closure[solved]

\* The outcome is that the calls given have been made.
OutcomeOf(calls) ==
    /\ \A s \in Solver : reachable[s] =
         {c.m : c \in {d \in calls : d.op = "addReachable" /\ d.s = s}}
    /\ \A s \in Solver, w \in Work : Performed(s, w) <=>
         /\ [op |-> "submit", s |-> s, w |-> w] \in calls
         /\ MethodOf(w) \in reachable[s] \/ ~onTheFlyCallGraph

\* When the solvers are at rest, what is reachable and what has been performed
\* does not depend on the order in which methods became reachable, work was
\* submitted and listeners were registered.  (all of it)
OrderIndependent == Idle => OutcomeOf(AllCalls)

\* The nested calls of a query return.  (work that submits work, in a cycle too)
SolvesReturn == []<>Idle
=============================================================================
