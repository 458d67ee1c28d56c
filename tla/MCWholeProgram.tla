--------------------------- MODULE MCWholeProgram ---------------------------
(***************************************************************************)
(* Two methods, of which the client solves the allocation sites of one.    *)
(*                                                                         *)
(* Aliases: x = new O; p = new P; q = p; y = new B; p.g = y; y.f = x;      *)
(* v = q.f; t = q.g; v = t.f                                               *)
(* The object that is written has a name, q.g, that the solver of P knows; *)
(* q.f is read although only q.g.f is written.                             *)
(*                                                                         *)
(* Walk, a list of two objects that ends in a loop, and a loop that walks  *)
(* it: h = new H; n = new N; n.f = n; c = h; h.f = n; while (true) c = c.f *)
(***************************************************************************)
EXTENDS MCPrograms

Aliases ==
    << {<<"o", New("x")>>},
       {<<"p", New("p")>>},
       {<<"pq", Copy("q", "p")>>},
       {<<"b", New("y")>>},
       {<<"pg", Put("p", "g", "y")>>},
       {<<"yf", Put("y", "f", "x")>>},
       {<<"qf", Get("v", "q", "f")>>},
       {<<"qg", Get("t", "q", "g")>>},
       {<<"tf", Get("v", "t", "f")>>},
       {<<"e", Exit>>} >>

Walk ==
    << {<<"h", New("h")>>},
       {<<"n", New("n")>>},
       {<<"nf", Put("n", "f", "n")>>},
       {<<"c", Copy("c", "h")>>},
       {<<"hf", Put("h", "f", "n")>>},
       {<<"cf", Get("c", "c", "f")>>} >>

MCInstr == InstrOf(Aliases) @@ InstrOf(Walk)
MCSuccsOf == NextOf(Aliases) @@ [NextOf(Walk) EXCEPT !["cf"] = {"cf"}]
MCEntry == EntryOf(Aliases) \cup EntryOf(Walk)

MCNext ==
    /\ Next
    /\ \E p \in {Aliases, Walk} : solved' \subseteq StmtsOf(p)

MCSpec == Init /\ [][MCNext]_vars /\ WF_vars(Step)
=============================================================================
