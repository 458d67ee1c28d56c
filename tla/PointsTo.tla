------------------------------ MODULE PointsTo ------------------------------
(***************************************************************************)
(* What WholeProgram should answer: an execution of the method says what   *)
(* must be found, a flow-sensitive points-to analysis without strong       *)
(* updates of the heap what may be.                                        *)
(***************************************************************************)
EXTENDS WholeProgram, Functions

CONSTANT Entry       \* the statements the method may start with

Null == "null"
Objects == Query \cup {Null}

(***************************************************************************)
(* Executions.  An object is named by the statement that allocates it:     *)
(* each is executed at most once if SuccsOf has no cycle.                  *)
(***************************************************************************)
Start(s) == [at |-> s, locals |-> [v \in Val |-> Null],
             heap |-> [of \in Query \X Field |-> Null]]

\* The states that may follow x.
After(x) ==
    LET i == Instr[x.at]
        l == x.locals
        done ==
          CASE i.op = "alloc" -> {[x EXCEPT !.locals[i.to] = x.at]}
            [] i.op = "assign" -> {[x EXCEPT !.locals[i.to] = l[i.from]]}
            [] i.op = "load" /\ l[i.base] # Null ->
                 {[x EXCEPT !.locals[i.to] = x.heap[l[i.base], i.field]]}
            [] i.op = "store" /\ l[i.base] # Null ->
                 {[x EXCEPT !.heap[l[i.base], i.field] = l[i.from]]}
            [] i.op = "nop" -> {x}
            [] OTHER -> {}                          \* NullPointerException
    IN {[y EXCEPT !.at = s] : <<y, s>> \in done \X SuccsOf[x.at]}

RECURSIVE Executed(_)
Executed(X) ==
    LET Y == X \cup UNION {After(x) : x \in X}
    IN IF Y = X THEN X ELSE Executed(Y)

\* The allocations that executions from an entry make, and the nodes with the
\* object each holds in them.
Executions == [e \in Entry |-> Executed({Start(e)})]
AllocatedFrom(e) == {x.at : x \in Executions[e]} \cap Query
ObservedFrom ==
    [e \in Entry |-> {<<<<x.at, v>>, x.locals[v]>> : x \in Executions[e], v \in Val}]

(***************************************************************************)
(* May: sets of facts <<"local", s, v, o>> and <<"field", s, o, f, p>>.    *)
(***************************************************************************)
Local(s, v, o) == [s |-> s, in |-> <<v>>, obj |-> o]
Heap(s, p, f, o) == [s |-> s, in |-> <<p, f>>, obj |-> o]

MayAfter(F, s) ==
    LET i == Instr[s]
        H == {x \in F : x.s = s}
        Held(v) == {x.obj : x \in {y \in H : y.in = <<v>>}}
        Stored(p, f) == {x.obj : x \in {y \in H : y.in = <<p, f>>}}
        assigns == i.op \in {"alloc", "assign", "load"}
        new == CASE i.op = "alloc" -> {s}
                 [] i.op = "assign" -> Held(i.from)
                 [] i.op = "load" -> UNION {Stored(p, i.field) : p \in Held(i.base)}
                 [] OTHER -> {}
    IN {[x EXCEPT !.s = t] : <<x, t>> \in {y \in H : ~(assigns /\ y.in = <<i.to>>)} \X SuccsOf[s]}
         \cup {Local(t, i.to, o) : <<t, o>> \in SuccsOf[s] \X new}
         \cup (IF i.op # "store" THEN {}
               ELSE {Heap(t, p, i.field, o) :
                       <<t, p, o>> \in SuccsOf[s] \X Held(i.base) \X Held(i.from)})

RECURSIVE May(_)
May(F) ==
    LET G == F \cup UNION {MayAfter(F, s) : s \in Stmt}
    IN IF G = F THEN F ELSE May(G)

Possible == {<<<<x.s, x.in[1]>>, x.obj>> : x \in {y \in May({}) : Len(y.in) = 1}}

(***************************************************************************)
(* Properties.                                                             *)
(***************************************************************************)
RECURSIVE ReachableFrom(_, _)
ReachableFrom(E, D) ==
    LET R == D \cup {t.target : t \in {u \in E : u.start \in D}}
    IN IF R = D THEN D ELSE ReachableFrom(E, R)

\* Once the outermost solve has returned, whatever a solver stores at y.f = x it
\* knows under every other name that the object y has there, and it has all that
\* the object's solver knows behind these names, also what came later.
ImportsClosed ==
    Idle => \A s \in Store : \A b \in baseAllocations[s], f \in flowAllocations[s] :
        LET aliases == {t \in fieldEdges[b] : /\ ~IsGenerated(t.start)
                                              /\ Fact(t.start)[1] = s
                                              /\ Fact(t.start)[2] # Instr[s].base}
            behind == ReachableFrom(fieldEdges[b], {t.target : t \in aliases})
        IN /\ \A t \in aliases, succ \in SuccsOf[s] :
                Edge(Single(<<succ, Fact(t.start)[2]>>), t.label, t.target) \in fieldEdges[f]
           /\ {t \in fieldEdges[b] : t.start \in behind} \subseteq fieldEdges[f]

\* When every allocation site that executions from an entry pass has been solved,
\* a variable that holds an object in one of them is answered with that object's
\* site: nothing stored through an alias is lost, in whatever order the sites are
\* solved and the callbacks of the solvers interleave.  (executeImportAliases,
\* ImportToSolver)
NoneMissed ==
    Idle => \A e \in Entry :
        AllocatedFrom(e) \subseteq solved =>
            \A p \in ObservedFrom[e] : p[2] \in Query => p[1] \in Answered(p[2])

\* No solver answers with a site the variable cannot hold: the aliases imported
\* at a store do not leak to other statements or objects.  (Answers are never
\* withdrawn, so that those of the outermost solve are all there ever were.)
NothingInvented ==
    Idle => \A q \in Query : \A n \in Answered(q) : <<n, q>> \in Possible
=============================================================================
