---------------------------- MODULE MCCallSites ----------------------------
(***************************************************************************)
(* Two objects whose solvers pass a call by and return from it, so they    *)
(* import from each other; the return site is the exit of the method,      *)
(* where the backward query enters.  The backward query finds one of the   *)
(* objects and starts its solver; the other returns, balanced and not      *)
(* (so twice with the same node), and with a static field.                 *)
(***************************************************************************)
EXTENDS CallSitesFixpoint

Call(v) == <<"call", v>>
At(v) == <<"exit", v>>
MCSuccs == [s \in Stmt |-> IF s = "call" THEN {"exit"} ELSE {}]
MCAsNode == [q \in Query |-> IF q = "back" THEN At("x") ELSE Call("x")]
MCStartsAt == [q \in Query |-> CASE q = "back" -> At("x")
                                 [] q = "a" -> Call("x")
                                 [] q = "b" -> Call("y")]

MCFound(q, n) ==
    CASE q = "a" /\ n = Call("x") ->
           {AddByPassing("call", "a"), Insert("a", At("x"), "f"), CallContext("a", At("x")),
            ReturnsFromCall("call", "a", At("y"))}
      [] q = "b" /\ n = Call("y") ->
           {AddByPassing("call", "b"), Insert("b", At("y"), "f"), CallContext("b", At("y")),
            [op |-> "unbalanced", s |-> "call", q |-> "b", v |-> "x"],
            ReturnsFromCall("call", "b", At("x")), ReturnsFromCall("call", "b", At("g"))}
      [] q = "back" /\ n = At("x") -> {SolveFor("a")}
      [] OTHER -> {}
=============================================================================
