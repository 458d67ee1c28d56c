----------------------------- MODULE MCPrograms -----------------------------
(***************************************************************************)
(* How the small methods that WholeProgram is checked on are written.      *)
(***************************************************************************)
EXTENDS PointsTo, SequencesExt, TLC

MCAllBut(f) == "not " \o f

New(x) == [op |-> "alloc", to |-> x]
Copy(x, y) == [op |-> "assign", to |-> x, from |-> y]
Get(x, y, f) == [op |-> "load", to |-> x, base |-> y, field |-> f]
Put(y, f, x) == [op |-> "store", base |-> y, field |-> f, from |-> x]
Exit == [op |-> "nop"]

\* A program is a sequence of blocks <<statement, instruction>>: sets of
\* alternatives, each of which continues with the next block.
Blocks(p) == {b \in (DOMAIN p) \X (UNION ToSet(p)) : b[2] \in p[b[1]]}
StmtsOf(p) == {b[2][1] : b \in Blocks(p)}
InstrOf(p) == [s \in StmtsOf(p) |-> (CHOOSE b \in Blocks(p) : b[2][1] = s)[2][2]]
NextOf(p) ==
    [s \in StmtsOf(p) |->
        LET b == CHOOSE c \in Blocks(p) : c[2][1] = s
        IN IF b[1] = Len(p) THEN {} ELSE {a[1] : a \in p[b[1] + 1]}]
EntryOf(p) == {a[1] : a \in p[1]}
=============================================================================
