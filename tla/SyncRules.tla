----------------------------- MODULE SyncRules -----------------------------
(***************************************************************************)
(* The states of the two automata of a SyncPDSSolver and the rules that    *)
(* processNormal, processPush and processPop make of a node's successor.   *)
(* There is one weight.                                                    *)
(***************************************************************************)
EXTENDS Sequences

CONSTANTS AnyField,      \* fieldWildCard()
          AllBut(_)      \* exclusionFieldWildCard(f)

\* <<n>> is wrap(n); <<n, a>> is the state generated for n and a.
Single(n) == <<n>>
GeneratedState(d, a) == <<d[1], a>>

One == "one"

NormalRule(s1, l1, s2, l2) ==
    [kind |-> "normal", s1 |-> s1, l1 |-> l1, s2 |-> s2, l2 |-> l2, w |-> One]
PushRule(s1, l1, s2, l2, site) ==
    [kind |-> "push", s1 |-> s1, l1 |-> l1, s2 |-> s2, l2 |-> l2,
     callSite |-> site, w |-> One]
PopRule(s1, l1, s2) == [kind |-> "pop", s1 |-> s1, l1 |-> l1, s2 |-> s2, w |-> One]

Target(s) == IF s.kind = "popCall" THEN <<s.site, s.fact>> ELSE s.to

FieldRule(n, s) ==
    LET m == Target(s)
    IN CASE s.kind = "exclude" ->
              NormalRule(Single(n), AnyField, Single(m), AllBut(s.field))
         [] s.kind = "pushField" ->
              PushRule(Single(n), AnyField, Single(m), s.field, AnyField)
         [] s.kind = "popField" -> PopRule(Single(n), s.field, Single(m))
         [] OTHER -> NormalRule(Single(n), AnyField, Single(m), AnyField)

CallRule(n, s) ==
    LET m == Target(s)
    IN CASE s.kind = "pushCall" ->
              PushRule(Single(n[2]), n[1], Single(m[2]), m[1], s.site)
         [] s.kind = "popCall" -> PopRule(Single(n[2]), n[1], Single(m[2]))
         [] OTHER -> NormalRule(Single(n[2]), n[1], Single(m[2]), m[1])
=============================================================================
