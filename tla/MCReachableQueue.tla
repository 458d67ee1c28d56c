-------------------------- MODULE MCReachableQueue --------------------------
(***************************************************************************)
(* A backward query in "main", which calls "callee", where the allocation  *)
(* is.  The forward solver started there returns to "main" (which only the *)
(* backward solver's listener makes reachable for it), calls "callee" again *)
(* and a third method.  The rule into "callee" is added twice, and the     *)
(* work in "callee" and "main" follows from itself.                        *)
(***************************************************************************)
EXTENDS ReachableQueue

Add(s, m) == [op |-> "addReachable", s |-> s, m |-> m]
Put(s, w) == [op |-> "submit", s |-> s, w |-> w]
Start(w) == [op |-> "register", s |-> "back",
             l |-> [forward |-> "forw", node |-> w]]

MCMethodOf(w) ==
    CASE w \in {"call", "use", "return"} -> "main"
      [] w \in {"enter", "static", "alloc", "alias", "flow"} -> "callee"
      [] w = "other" -> "other"

MCPerforms(s, w) ==
    CASE w = "use" -> <<{Put(s, "call"), Put(s, "enter")}>>
      [] w = "call" -> <<{Put(s, "enter"), Put(s, "static")}, {Add(s, "callee")}>>
      [] w = "enter" -> <<{Put(s, "alloc")}>>
      [] w = "static" -> <<{Put(s, "alloc"), Put(s, "alias")}>>
      [] w \in {"alloc", "alias"} ->
           <<{Add("forw", "callee")}, {Put("forw", "flow")}, {Start(w)}>>
      [] w = "flow" -> <<{Put(s, "return"), Put(s, "flow")}>>
      [] w = "return" -> <<{Put(s, "flow"), Put(s, "other")}, {Add(s, "callee"), Add(s, "other")}>>
      [] w = "other" -> <<{Put(s, "return")}>>

MCQueries == {Add("back", "main"), Put("back", "use"), Add("forw", "other")}
=============================================================================
