--------------------------- MODULE MCFinalWeights ---------------------------
(***************************************************************************)
(* A file: open is told on return, close in the caller, so that weights of *)
(* both kinds meet.  Two generated states on a cycle, a fact reached       *)
(* through both, and a transition whose weight improves.                   *)
(***************************************************************************)
EXTENDS FinalStates

Told(from, m, to, type) ==
    [from |-> from, to |-> to, param |-> "This", type |-> type, methods |-> {m}]

MCMatcher == {
    Told("init", "open", "open", "OnReturn"),
    Told("open", "close", "init", "OnCallToReturn")}

MCTransition == [start : State, target : State]
From(s, t) == [start |-> s, target |-> t]

Calls(kind, m) == [kind |-> kind, method |-> m, fact |-> "This"]
Open == Calls("pop", "open")
Close == Calls("normal", "close")
Other == Calls("normal", "open")

\* A fact is seeded, opened and perhaps closed again by a rule each, by one rule after
\* another, and by a statement that may or may not act on the object.
MCSeeds == {
    Adds(From("g", "init"), SeedEffect),
    Adds(From("h", "g"), RuleEffect(Other)),
    Adds(From("h", "g"), Then(RuleEffect(Open), Either(OneEffect, RuleEffect(Close)))),
    Adds(From("g", "h"), Then(RuleEffect(Other), RuleEffect(Close))),
    Adds(From("x", "h"), Then(RuleEffect(Close), RuleEffect(Open)))}
=============================================================================
