---------------------------- MODULE MCTwoStored ----------------------------
(***************************************************************************)
(* if (..) x = new O; else x = new U; y = new B; z = y; y.f = x; v = z.f   *)
(***************************************************************************)
EXTENDS MCPrograms

Program ==
    << {<<"o", New("x")>>, <<"u", New("x")>>},
       {<<"b", New("y")>>},
       {<<"zy", Copy("z", "y")>>},
       {<<"yf", Put("y", "f", "x")>>},
       {<<"zf", Get("v", "z", "f")>>},
       {<<"e", Exit>>} >>

MCInstr == InstrOf(Program)
MCSuccsOf == NextOf(Program)
MCEntry == EntryOf(Program)
=============================================================================
