----------------------------- MODULE CallStack -----------------------------
(***************************************************************************)
(* The call stack of one thread running nested callbacks.  agenda is a     *)
(* sequence of loops, innermost first; a loop is the set of calls it has   *)
(* still to make.  Hash sets are iterated in no fixed order, so any call   *)
(* of the innermost loop may be next; the loops behind it are what the     *)
(* callers do once it is finished.                                         *)
(***************************************************************************)
EXTENDS Sequences

VARIABLE agenda

\* The calls the innermost loop has still to make.
Innermost == IF agenda = <<>> THEN {} ELSE Head(agenda)

\* A loop of the stack has still to make the call c.
Pending(c) == \E i \in DOMAIN agenda : c \in agenda[i]

\* The calls that the loops of the stack have still to make.
Waiting == UNION {agenda[i] : i \in DOMAIN agenda}

\* c runs; before its loop continues, the loops of `body' run in order.
Return(c, body) ==
    agenda' = body \o <<Head(agenda) \ {c}>> \o Tail(agenda)

\* The loops of `body' run in order, then c goes on as d.
Resume(c, body, d) ==
    agenda' = body \o <<(Head(agenda) \ {c}) \cup {d}>> \o Tail(agenda)

\* The innermost loop has made all its calls.
LoopEnds == agenda # <<>> /\ Head(agenda) = {} /\ agenda' = Tail(agenda)

\* The outermost call has returned.
Idle == agenda = <<>>
=============================================================================
