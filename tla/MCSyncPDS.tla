------------------------------ MODULE MCSyncPDS ------------------------------
(***************************************************************************)
(* A loop around "if (..) x.f = u; else {u.f = v; x = u}; u = m(x)", where m *)
(* returns p.f or q, its q being p.g.  Only the calls reach what p.g flows *)
(* to, and x is reached at j with the field f and without it.              *)
(***************************************************************************)
EXTENDS SyncFixpoint

MCAllBut(f) == "not " \o f

Goes(n) == [kind |-> "normal", to |-> n]
Keeps(n, f) == [kind |-> "exclude", to |-> n, field |-> f]
Puts(n, f) == [kind |-> "pushField", to |-> n, field |-> f]
Gets(n, f) == [kind |-> "popField", to |-> n, field |-> f]
Enters(n, s) == [kind |-> "pushCall", to |-> n, site |-> s]
Leaves(f, s) == [kind |-> "popCall", fact |-> f, site |-> s]

MCFlows == {
    <<<<"s", "u">>, Keeps(<<"j", "x">>, "f")>>,
    <<<<"s", "u">>, Puts(<<"j", "x">>, "f")>>,
    <<<<"j", "x">>, Enters(<<"m", "x">>, "e")>>,
    <<<<"m", "x">>, Gets(<<"r", "u">>, "f")>>,
    <<<<"m", "x">>, Gets(<<"r", "x">>, "g")>>,
    <<<<"r", "u">>, Leaves("u", "e")>>,
    <<<<"r", "x">>, Leaves("u", "e")>>,
    <<<<"e", "u">>, Goes(<<"s", "u">>)>>}
MCSuccessors ==
    [n \in Node |-> {f[2] : f \in {g \in MCFlows : g[1] = n}}]

MCInitialNode == <<"s", "u">>
MCStarts == {<<"s", "u">>, <<"m", "x">>}
MCListensAt == [l \in StateListener |-> IF l = "j" THEN <<"j", "x">> ELSE <<"e", "u">>]
=============================================================================
