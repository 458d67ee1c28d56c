--------------------------- MODULE CallSites_proofs ---------------------------
(***************************************************************************)
(* Each pair of a solver that passed a call by and one that returned from  *)
(* it is handled once, whatever the solvers find and in which order, and   *)
(* what they import is the least that what they find entails.              *)
(***************************************************************************)
EXTENDS CallSitesFixpoint, CallStack_proofs

(***************************************************************************)
(* The inductive invariant.                                                *)
(***************************************************************************)
PairOf == [site : Stmt, byPassing : Query, flow : Query, n : Node]

Call ==
    FoundCall
      \cup [op : {"solve"}, q : Query]
      \cup [op : {"record", "notify"}, q : Query, n : Node, l : Label]
      \cup [op : {"fieldContext", "process", "reached", "callRules"}, q : Query, n : Node]
      \cup [op : {"import"}, q : Query, n : Node, flow : Query]
      \cup [op : {"callFlow"}, q : Query, n : Node, succ : Node]
      \cup [op : {"returnSite"}, s : Stmt, q : Query, n : Node]
      \cup [op : {"eachPair", "reachable"}, i : PairOf]
      \cup [op : {"added"}, i : PairOf, n : Node, l : Label]

DataOK ==
    /\ fieldTrans \subseteq Query \X Node \X Label
    /\ perStatement \subseteq Query \X Node \X Label
    /\ importers \subseteq Query \X Node \X Query
    /\ callRules \subseteq Query \X Node \X Node
    /\ fieldContextReachable \subseteq Query \X Node
    /\ callingContextReachable \subseteq Query \X Node
    /\ reachedStates \subseteq Query \X Node
    /\ returnsFromCall \subseteq Stmt \X Query \X Node
    /\ byPassingAllocations \subseteq Stmt \X Query
    /\ onReturn \subseteq PairOf /\ atReturn \subseteq PairOf

TypeOK == DataOK /\ agenda \in Seq(SUBSET Call)

PairCall(p) == [op |-> "eachPair", i |-> p]

\* Both sides of the pair are there.
Due(p) ==
    /\ <<p.site, p.byPassing>> \in byPassingAllocations
    /\ <<p.site, p.flow, p.n>> \in returnsFromCall

\* A pair that is due has been handled, or will be by the one pending call; whoever
\* adds the second side of a pair to its set makes that call.
Handled(p) ==
    /\ Once(PairCall(p))
    /\ Pending(PairCall(p)) => Due(p) /\ p \notin paired
    /\ Due(p) => p \in paired \/ Pending(PairCall(p))
    /\ p \in paired => Due(p)

AllHandled ==
    /\ \A p \in PairOf : Handled(p)
    /\ paired \subseteq PairOf /\ pairedAgain = {}

PairInv == TypeOK /\ AllHandled

(***************************************************************************)
(* Types.                                                                  *)
(***************************************************************************)
LEMMA CallFields ==
    ASSUME NEW c \in Call
    PROVE  /\ c.op = "solve" => c.q \in Query
           /\ c.op \in {"insert", "record", "notify"} =>
                c.q \in Query /\ c.n \in Node /\ c.l \in Label
           /\ c.op \in {"fieldContext", "callContext", "process", "reached", "callRules"} =>
                c.q \in Query /\ c.n \in Node
           /\ c.op = "import" => c.q \in Query /\ c.n \in Node /\ c.flow \in Query
           /\ c.op = "callFlow" => c.q \in Query /\ c.n \in Node /\ c.succ \in Node
           /\ c.op \in {"returns", "returnSite"} => c.s \in Stmt /\ c.q \in Query /\ c.n \in Node
           /\ c.op = "byPass" => c.s \in Stmt /\ c.q \in Query
           /\ c.op \in {"eachPair", "reachable"} => c.i \in PairOf
           /\ c.op = "eachPair" => c = PairCall(c.i)
           /\ c.op = "added" => c.i \in PairOf /\ c.n \in Node /\ c.l \in Label
           /\ c.op = "unbalanced" => c.s \in Stmt /\ c.q \in Query /\ c.v \in Val
BY CallSitesAssumption DEF Call, FoundCall, Label, PairCall

LEMMA CallTypes ==
    /\ \A q \in Query : SolveFor(q) \in Call /\ SolveFor(q).op = "solve"
    /\ \A q \in Query, n \in Node, l \in Label :
         /\ Insert(q, n, l) \in Call /\ Insert(q, n, l).op = "insert"
         /\ [op |-> "record", q |-> q, n |-> n, l |-> l] \in Call
         /\ [op |-> "notify", q |-> q, n |-> n, l |-> l] \in Call
    /\ \A q \in Query, n \in Node :
         /\ FieldContext(q, n) \in Call /\ FieldContext(q, n).op = "fieldContext"
         /\ CallContext(q, n) \in Call /\ CallContext(q, n).op = "callContext"
         /\ Process(q, n) \in Call /\ Process(q, n).op = "process"
         /\ [op |-> "reached", q |-> q, n |-> n] \in Call
         /\ [op |-> "callRules", q |-> q, n |-> n] \in Call
    /\ \A q \in Query, n \in Node, f \in Query :
         [op |-> "import", q |-> q, n |-> n, flow |-> f] \in Call
    /\ \A q \in Query, n \in Node, m \in Node :
         [op |-> "callFlow", q |-> q, n |-> n, succ |-> m] \in Call
    /\ \A s \in Stmt, q \in Query, n \in Node :
         /\ ReturnsFromCall(s, q, n) \in Call /\ ReturnsFromCall(s, q, n).op = "returns"
         /\ [op |-> "returnSite", s |-> s, q |-> q, n |-> n] \in Call
    /\ \A s \in Stmt, q \in Query :
         AddByPassing(s, q) \in Call /\ AddByPassing(s, q).op = "byPass"
    /\ \A p \in PairOf :
         /\ PairCall(p) \in Call /\ PairCall(p).op = "eachPair"
         /\ Reachable(p) \in Call /\ Reachable(p).op = "reachable"
    /\ \A p \in PairOf, n \in Node, l \in Label :
         [op |-> "added", i |-> p, n |-> n, l |-> l] \in Call
<1>1. \A q \in Query : SolveFor(q) \in Call /\ SolveFor(q).op = "solve"
  BY DEF Call, SolveFor
<1>2. \A q \in Query, n \in Node, l \in Label :
         /\ Insert(q, n, l) \in Call /\ Insert(q, n, l).op = "insert"
         /\ [op |-> "record", q |-> q, n |-> n, l |-> l] \in Call
         /\ [op |-> "notify", q |-> q, n |-> n, l |-> l] \in Call
  BY DEF Call, FoundCall, Insert, Label
<1>3. \A q \in Query, n \in Node :
         /\ FieldContext(q, n) \in Call /\ FieldContext(q, n).op = "fieldContext"
         /\ CallContext(q, n) \in Call /\ CallContext(q, n).op = "callContext"
         /\ Process(q, n) \in Call /\ Process(q, n).op = "process"
         /\ [op |-> "reached", q |-> q, n |-> n] \in Call
         /\ [op |-> "callRules", q |-> q, n |-> n] \in Call
  BY DEF Call, FoundCall, FieldContext, CallContext, Process
<1>4. /\ \A q \in Query, n \in Node, f \in Query :
           [op |-> "import", q |-> q, n |-> n, flow |-> f] \in Call
      /\ \A q \in Query, n \in Node, m \in Node :
           [op |-> "callFlow", q |-> q, n |-> n, succ |-> m] \in Call
  BY DEF Call
<1>5. /\ \A s \in Stmt, q \in Query, n \in Node :
           /\ ReturnsFromCall(s, q, n) \in Call /\ ReturnsFromCall(s, q, n).op = "returns"
           /\ [op |-> "returnSite", s |-> s, q |-> q, n |-> n] \in Call
      /\ \A s \in Stmt, q \in Query :
           AddByPassing(s, q) \in Call /\ AddByPassing(s, q).op = "byPass"
  BY DEF Call, FoundCall, ReturnsFromCall, AddByPassing
<1>6. /\ \A p \in PairOf :
           /\ PairCall(p) \in Call /\ PairCall(p).op = "eachPair"
           /\ Reachable(p) \in Call /\ Reachable(p).op = "reachable"
      /\ \A p \in PairOf, n \in Node, l \in Label :
           [op |-> "added", i |-> p, n |-> n, l |-> l] \in Call
  BY DEF Call, PairCall, Reachable
<1> QED BY <1>1, <1>2, <1>3, <1>4, <1>5, <1>6

LEMMA InsertTypes ==
    \A q \in Query, n \in Node, l \in Label :
      Insert(q, n, l) \in Call /\ Insert(q, n, l).op = "insert"
BY CallTypes

noCall == [op |-> "none"]
LEMMA NoCall == noCall \notin Call
BY DEF noCall, Call, FoundCall

(***************************************************************************)
(* Steps that neither add a side of a pair nor handle one.                 *)
(***************************************************************************)
\* Loops of calls other than eachPair.
Quiet(body) ==
    /\ body \in Seq(SUBSET Call)
    /\ \A i \in DOMAIN body : \A d \in body[i] : d.op # "eachPair"

Other(A) == A \subseteq Call /\ \A d \in A : d.op # "eachPair"

LEMMA QuietLoops ==
    /\ Quiet(<<>>)
    /\ \A A : Other(A) => Quiet(<<A>>)
    /\ \A A, B : Other(A) /\ Other(B) => Quiet(<<A, B>>)
    /\ \A A, B, D : Other(A) /\ Other(B) /\ Other(D) => Quiet(<<A, B, D>>)
    /\ \A A, B, D, E : Other(A) /\ Other(B) /\ Other(D) /\ Other(E) => Quiet(<<A, B, D, E>>)
<1>1. Quiet(<<>>)
  BY DEF Quiet
<1>2. ASSUME NEW A, Other(A) PROVE Quiet(<<A>>)
  BY <1>2 DEF Quiet, Other
<1>3. ASSUME NEW A, NEW B, Other(A), Other(B) PROVE Quiet(<<A, B>>)
  BY <1>3 DEF Quiet, Other
<1>4. ASSUME NEW A, NEW B, NEW D, Other(A), Other(B), Other(D) PROVE Quiet(<<A, B, D>>)
  BY <1>4 DEF Quiet, Other
<1>5. ASSUME NEW A, NEW B, NEW D, NEW E, Other(A), Other(B), Other(D), Other(E)
      PROVE  Quiet(<<A, B, D, E>>)
  BY <1>5 DEF Quiet, Other
<1> QED BY <1>1, <1>2, <1>3, <1>4, <1>5

LEMMA HandledFrame ==
    ASSUME AllHandled, UNCHANGED <<sites, pairs>>,
           \A p : /\ Pending(PairCall(p))' <=> Pending(PairCall(p))
                  /\ Once(PairCall(p)) => Once(PairCall(p))'
    PROVE  AllHandled'
<1> SUFFICES ASSUME NEW p \in PairOf PROVE Handled(p)'
  BY DEF AllHandled, pairs
<1>1. Due(p)' <=> Due(p)
  BY DEF Due, sites
<1> QED BY <1>1 DEF AllHandled, Handled, pairs

LEMMA InnermostCall ==
    ASSUME PairInv, NEW c \in Innermost
    PROVE  /\ agenda \in Seq(SUBSET Call) /\ c \in Call /\ 1 \in DOMAIN agenda /\ c \in agenda[1]
           /\ DataOK
<1>1. agenda \in Seq(SUBSET Call) /\ DataOK
  BY DEF PairInv, TypeOK
<1> QED BY <1>1 DEF Innermost

LEMMA QuietReturn ==
    ASSUME PairInv, NEW c \in Innermost, c.op # "eachPair", NEW body, Quiet(body),
           Return(c, body), DataOK', UNCHANGED <<sites, pairs>>
    PROVE  PairInv'
<1>1. agenda \in Seq(SUBSET Call) /\ body \in Seq(SUBSET Call)
  BY InnermostCall DEF Quiet
<1>2. agenda' \in Seq(SUBSET Call) /\ Stacked(c, body)
  BY <1>1, ReturnStack
<1>3. ASSUME NEW p
      PROVE  /\ Pending(PairCall(p))' <=> Pending(PairCall(p))
             /\ Once(PairCall(p)) => Once(PairCall(p))'
  <2>1. PairCall(p) # c /\ \A i \in DOMAIN body : PairCall(p) \notin body[i]
    BY DEF PairCall, Quiet
  <2> QED BY <1>2, <2>1, CallKept DEF PairCall
<1>4. AllHandled'
  BY <1>3, HandledFrame DEF PairInv
<1> QED BY <1>2, <1>4 DEF PairInv, TypeOK

LEMMA UnchangedData == ASSUME DataOK, UNCHANGED data PROVE DataOK' /\ UNCHANGED <<sites, pairs>>
BY DEF DataOK, data, automata, contexts, sites, listeners, pairs

LEMMA SolveInv == ASSUME PairInv, NEW c \in Innermost, Solve(c) PROVE PairInv'
<1> DEFINE A == {Insert(c.q, StartsAt[c.q], EmptyField)}
           B == {CallContext(c.q, StartsAt[c.q])}
<1>1. c.op = "solve" /\ c.q \in Query /\ Return(c, <<A, B>>) /\ DataOK
      /\ UNCHANGED <<automata, contexts, sites, listeners, pairs>>
  BY InnermostCall, CallFields DEF Solve
<1>2. StartsAt[c.q] \in Node /\ EmptyField \in Label
  BY <1>1, CallSitesAssumption DEF Label
<1>3. Other(A) /\ Other(B)
  BY <1>1, <1>2, CallTypes DEF Other
<1>4. DataOK' /\ UNCHANGED <<sites, pairs>>
  BY <1>1 DEF DataOK, automata, contexts, sites, listeners
<1> HIDE DEF A, B
<1> QED BY <1>1, <1>3, <1>4, QuietLoops, QuietReturn

LEMMA InsertTransitionInv == ASSUME PairInv, NEW c \in Innermost, InsertTransition(c) PROVE PairInv'
<1> DEFINE record == [op |-> "record", q |-> c.q, n |-> c.n, l |-> c.l]
           A == {FieldContext(c.q, c.n), record}
           B == {[op |-> "notify", q |-> c.q, n |-> c.n, l |-> c.l]}
<1>1. /\ c.op = "insert" /\ c.q \in Query /\ c.n \in Node /\ c.l \in Label /\ DataOK
      /\ fieldTrans' = fieldTrans \cup {<<c.q, c.n, c.l>>}
      /\ Return(c, <<>>) \/ Return(c, <<A, B>>)
      /\ UNCHANGED <<perStatement, importers, callRules, contexts, sites, listeners,
                     solved, pairs>>
  BY InnermostCall, CallFields DEF InsertTransition
<1>2. Other(A) /\ Other(B)
  <2>1. FieldContext(c.q, c.n) \in Call /\ FieldContext(c.q, c.n).op = "fieldContext"
    BY <1>1, CallTypes
  <2>2. record \in Call /\ record.op = "record"
    BY <1>1, CallTypes
  <2>3. Other(A)
    BY <2>1, <2>2 DEF Other
  <2>4. Other(B)
    <3>1. [op |-> "notify", q |-> c.q, n |-> c.n, l |-> c.l] \in Call
      BY <1>1, CallTypes
    <3> QED BY <3>1 DEF Other
  <2> QED BY <2>3, <2>4
<1>3. DataOK' /\ UNCHANGED <<sites, pairs>>
  BY <1>1 DEF DataOK, contexts, sites, listeners
<1> HIDE DEF A, B
<1> QED BY <1>1, <1>2, <1>3, QuietLoops, QuietReturn

LEMMA AddTransitionToStatementInv ==
    ASSUME PairInv, NEW c \in Innermost, AddTransitionToStatement(c) PROVE PairInv'
<1> DEFINE A == {[op |-> "added", i |-> i, n |-> c.n, l |-> c.l] :
                   i \in {j \in atReturn : j.byPassing = c.q /\ j.n[1] = c.n[1]}}
<1>1. /\ c.op = "record" /\ c.q \in Query /\ c.n \in Node /\ c.l \in Label /\ DataOK
      /\ perStatement' = perStatement \cup {<<c.q, c.n, c.l>>}
      /\ Return(c, <<A>>)
      /\ UNCHANGED <<fieldTrans, importers, callRules, contexts, sites, listeners,
                     solved, pairs>>
  BY InnermostCall, CallFields DEF AddTransitionToStatement
<1>2. Other(A)
  BY <1>1, CallTypes DEF Other, DataOK
<1>3. DataOK' /\ UNCHANGED <<sites, pairs>>
  BY <1>1 DEF DataOK, contexts, sites, listeners
<1> HIDE DEF A
<1> QED BY <1>1, <1>2, <1>3, QuietLoops, QuietReturn

LEMMA NotifyInv == ASSUME PairInv, NEW c \in Innermost, Notify(c) PROVE PairInv'
<1> DEFINE A == {Insert(i[3], c.n, c.l) : i \in {j \in importers : j[1] = c.q /\ j[2] = c.n}}
<1>1. /\ c.op = "notify" /\ c.n \in Node /\ c.l \in Label /\ DataOK
      /\ Return(c, <<A>>) /\ UNCHANGED data
  BY InnermostCall, CallFields DEF Notify
<1>2. Other(A)
  <2>1. \A i \in importers : i[3] \in Query
    BY <1>1 DEF DataOK
  <2>2. \A q \in Query : Insert(q, c.n, c.l) \in Call /\ Insert(q, c.n, c.l).op = "insert"
    BY <1>1, InsertTypes
  <2> QED BY <2>1, <2>2 DEF Other
<1> HIDE DEF A
<1> QED BY <1>1, <1>2, UnchangedData, QuietLoops, QuietReturn

LEMMA RegisterImporterInv == ASSUME PairInv, NEW c \in Innermost, RegisterImporter(c) PROVE PairInv'
<1> DEFINE A == {Insert(c.flow, c.n, t[3]) :
                   t \in {u \in fieldTrans : u[1] = c.q /\ u[2] = c.n}}
<1>1. /\ c.op = "import" /\ c.q \in Query /\ c.n \in Node /\ c.flow \in Query /\ DataOK
      /\ importers' = importers \cup {<<c.q, c.n, c.flow>>}
      /\ Return(c, <<>>) \/ Return(c, <<A>>)
      /\ UNCHANGED <<fieldTrans, perStatement, callRules, contexts, sites, listeners,
                     solved, pairs>>
  BY InnermostCall, CallFields DEF RegisterImporter
<1>2. Other(A)
  <2>1. \A t \in fieldTrans : t[3] \in Label
    BY <1>1 DEF DataOK
  <2>2. \A l \in Label : Insert(c.flow, c.n, l) \in Call /\ Insert(c.flow, c.n, l).op = "insert"
    BY <1>1, InsertTypes
  <2> QED BY <2>1, <2>2 DEF Other
<1>3. DataOK' /\ UNCHANGED <<sites, pairs>>
  BY <1>1 DEF DataOK, contexts, sites, listeners
<1> HIDE DEF A
<1> QED BY <1>1, <1>2, <1>3, QuietLoops, QuietReturn

LEMMA ContextsInv ==
    ASSUME PairInv, NEW c \in Innermost,
           SetFieldContextReachable(c) \/ SetCallingContextReachable(c)
    PROVE  PairInv'
<1> DEFINE P == {Process(c.q, c.n)}
           R == {[op |-> "callRules", q |-> c.q, n |-> c.n]}
           body == <<IF <<c.q, c.n>> \in fieldContextReachable THEN P ELSE {}, R>>
           fbody == <<IF <<c.q, c.n>> \in callingContextReachable \ fieldContextReachable
                      THEN P ELSE {}>>
<1>1. /\ c.op \in {"fieldContext", "callContext"} /\ c.q \in Query /\ c.n \in Node /\ DataOK
      /\ Return(c, <<>>) \/ Return(c, body) \/ Return(c, fbody)
      /\ UNCHANGED <<automata, reachedStates, sites, listeners, solved, pairs>>
      /\ fieldContextReachable' \subseteq fieldContextReachable \cup {<<c.q, c.n>>}
      /\ callingContextReachable' \subseteq callingContextReachable \cup {<<c.q, c.n>>}
  <2>1. CASE SetFieldContextReachable(c)
    BY <2>1, InnermostCall, CallFields DEF SetFieldContextReachable
  <2>2. CASE SetCallingContextReachable(c)
    BY <2>2, InnermostCall, CallFields DEF SetCallingContextReachable
  <2> QED BY <2>1, <2>2
<1>2. Other(P) /\ Other(R) /\ Other({})
  <2>1. Other(P)
    BY <1>1, CallTypes DEF Other
  <2>2. Other(R)
    <3>1. [op |-> "callRules", q |-> c.q, n |-> c.n] \in Call
      BY <1>1, CallTypes
    <3> QED BY <3>1 DEF Other
  <2> QED BY <2>1, <2>2 DEF Other
<1>3. DataOK' /\ UNCHANGED <<sites, pairs>>
  BY <1>1 DEF DataOK, automata, sites, listeners
<1> HIDE DEF P, R
<1>4. Quiet(body) /\ Quiet(fbody)
  BY <1>2, QuietLoops
<1> QED BY <1>1, <1>3, <1>4, QuietLoops, QuietReturn

LEMMA CallRulesInv ==
    ASSUME PairInv, NEW c \in Innermost, ApplyCallRules(c) \/ AddNormalCallFlow(c)
    PROVE  PairInv'
<1> DEFINE A == {CallContext(c.q, r[3]) :
                   r \in {p \in callRules : p[1] = c.q /\ p[2] = c.n}}
           B == {CallContext(c.q, c.succ)}
           body == <<IF <<c.q, c.n>> \in callingContextReachable THEN B ELSE {}>>
<1>1. c \in Call /\ DataOK
  BY InnermostCall
<1>2. CASE ApplyCallRules(c)
  <2>1. c.op = "callRules" /\ c.q \in Query /\ Return(c, <<A>>) /\ UNCHANGED data
    BY <1>1, <1>2, CallFields DEF ApplyCallRules
  <2>2. Other(A)
    <3>1. \A r \in callRules : r[3] \in Node
      BY <1>1 DEF DataOK
    <3> QED BY <2>1, <3>1, CallTypes DEF Other
  <2> HIDE DEF A
  <2> QED BY <1>1, <2>1, <2>2, UnchangedData, QuietLoops, QuietReturn
<1>3. CASE AddNormalCallFlow(c)
  <2>1. /\ c.op = "callFlow" /\ c.q \in Query /\ c.n \in Node /\ c.succ \in Node
        /\ callRules' = callRules \cup {<<c.q, c.n, c.succ>>} /\ Return(c, body)
        /\ UNCHANGED <<fieldTrans, perStatement, importers, contexts, sites, listeners,
                       solved, pairs>>
    BY <1>1, <1>3, CallFields DEF AddNormalCallFlow
  <2>2. Other(B) /\ Other({})
    BY <2>1, CallTypes DEF Other
  <2>3. DataOK' /\ UNCHANGED <<sites, pairs>>
    BY <1>1, <2>1 DEF DataOK, contexts, sites, listeners
  <2> HIDE DEF B
  <2>4. Quiet(body)
    BY <2>2, QuietLoops
  <2> QED BY <2>1, <2>3, <2>4, QuietReturn
<1> QED BY <1>2, <1>3

LEMMA ProcessNodeInv == ASSUME PairInv, NEW c \in Innermost, ProcessNode(c) PROVE PairInv'
<1> DEFINE A == EnterCall(c.q, c.n)
           B == {[op |-> "reached", q |-> c.q, n |-> c.n]}
           F == Found(c.q, c.n)
<1>1. /\ c.op = "process" /\ c.q \in Query /\ c.n \in Node /\ DataOK
      /\ reachedStates' = reachedStates \cup {<<c.q, c.n>>}
      /\ Return(c, <<>>) \/ Return(c, <<A, B, F>>)
      /\ UNCHANGED <<automata, fieldContextReachable, callingContextReachable, sites,
                     listeners, solved, pairs>>
  BY InnermostCall, CallFields DEF ProcessNode
<1>2. Other(A) /\ Other(B)
  <2>1. c.n[1] \in Stmt
    BY <1>1 DEF Node
  <2>2. /\ AddByPassing(c.n[1], c.q) \in Call /\ AddByPassing(c.n[1], c.q).op = "byPass"
        /\ ReturnsFromCall(c.n[1], c.q, c.n) \in Call
        /\ ReturnsFromCall(c.n[1], c.q, c.n).op = "returns"
    BY <1>1, <2>1, CallTypes
  <2>3. Other(A)
    BY <2>2 DEF Other, EnterCall
  <2>4. Other(B)
    <3>1. [op |-> "reached", q |-> c.q, n |-> c.n] \in Call
      BY <1>1, CallTypes
    <3> QED BY <3>1 DEF Other
  <2> QED BY <2>3, <2>4
<1>3. Other(F)
  <2>1. F \subseteq FoundCall
    BY <1>1, CallSitesAssumption
  <2>2. FoundCall \subseteq Call /\ \A d \in FoundCall : d.op # "eachPair"
    BY DEF Call, FoundCall
  <2> QED BY <2>1, <2>2 DEF Other
<1>4. DataOK' /\ UNCHANGED <<sites, pairs>>
  BY <1>1 DEF DataOK, automata, sites, listeners
<1> HIDE DEF A, B, F
<1> QED BY <1>1, <1>2, <1>3, <1>4, QuietLoops, QuietReturn

LEMMA ReturnNodeInv ==
    ASSUME PairInv, NEW c \in Innermost, NotifyReached(c) \/ OnReturnNodeReachable(c)
    PROVE  PairInv'
<1> DEFINE A == {Reachable(i) : i \in {j \in onReturn : j.byPassing = c.q /\ j.n = c.n}}
           B == {[op |-> "added", i |-> c.i, n |-> t[2], l |-> t[3]] :
                   t \in {u \in perStatement : u[1] = c.i.byPassing /\ u[2][1] = c.i.n[1]}}
<1>1. c \in Call /\ DataOK
  BY InnermostCall
<1>2. CASE NotifyReached(c)
  <2>1. c.op = "reached" /\ Return(c, <<A>>) /\ UNCHANGED data
    BY <1>2 DEF NotifyReached
  <2>2. Other(A)
    BY <1>1, CallTypes DEF Other, DataOK
  <2> HIDE DEF A
  <2> QED BY <1>1, <2>1, <2>2, UnchangedData, QuietLoops, QuietReturn
<1>3. CASE OnReturnNodeReachable(c)
  <2>1. /\ c.op = "reachable" /\ c.i \in PairOf /\ atReturn' = atReturn \cup {c.i}
        /\ Return(c, <<>>) \/ Return(c, <<B>>)
        /\ UNCHANGED <<automata, contexts, sites, onReturn, solved, pairs>>
    BY <1>1, <1>3, CallFields DEF OnReturnNodeReachable
  <2>2. Other(B)
    <3>1. \A t \in perStatement : t[2] \in Node /\ t[3] \in Label
      BY <1>1 DEF DataOK
    <3> QED BY <2>1, <3>1, CallTypes DEF Other
  <2>3. DataOK' /\ UNCHANGED <<sites, pairs>>
    BY <1>1, <2>1 DEF DataOK, automata, contexts, sites
  <2> HIDE DEF B
  <2> QED BY <2>1, <2>2, <2>3, QuietLoops, QuietReturn
<1> QED BY <1>2, <1>3

LEMMA ImportFlowAtReturnInv ==
    ASSUME PairInv, NEW c \in Innermost, ImportFlowAtReturn(c) PROVE PairInv'
<1> DEFINE b == c.i.byPassing
           f == c.i.flow
           A == {Insert(f, AsNode[b], Epsilon)}
           B == {[op |-> "import", q |-> b, n |-> c.n, flow |-> f]}
           D == {FieldContext(f, c.n)}
           E == {[op |-> "callFlow", q |-> f, n |-> c.i.n, succ |-> c.n]}
<1>1. /\ c.op = "added" /\ c.i \in PairOf /\ c.n \in Node /\ DataOK
      /\ Return(c, <<>>) \/ Return(c, <<A, B, D, E>>)
  BY InnermostCall, CallFields DEF ImportFlowAtReturn
<1>2. UNCHANGED data
  BY DEF ImportFlowAtReturn
<1>3. b \in Query /\ f \in Query /\ c.i.n \in Node /\ Epsilon \in Label
  BY <1>1 DEF PairOf, Label
<1>4. AsNode[b] \in Node
  BY <1>3, CallSitesAssumption
<1>5. Other(A) /\ Other(B) /\ Other(D) /\ Other(E)
  <2>1. Other(A)
    <3>1. Insert(f, AsNode[b], Epsilon) \in Call /\ Insert(f, AsNode[b], Epsilon).op = "insert"
      BY <1>3, <1>4, InsertTypes
    <3> QED BY <3>1 DEF Other
  <2>2. Other(B)
    <3>1. [op |-> "import", q |-> b, n |-> c.n, flow |-> f] \in Call
      BY <1>1, <1>3, CallTypes
    <3> QED BY <3>1 DEF Other
  <2>3. Other(D)
    <3>1. FieldContext(f, c.n) \in Call /\ FieldContext(f, c.n).op = "fieldContext"
      BY <1>1, <1>3, CallTypes
    <3> QED BY <3>1 DEF Other
  <2>4. Other(E)
    <3>1. [op |-> "callFlow", q |-> f, n |-> c.i.n, succ |-> c.n] \in Call
      BY <1>1, <1>3, CallTypes
    <3> QED BY <3>1 DEF Other
  <2> QED BY <2>1, <2>2, <2>3, <2>4
<1> HIDE DEF A, B, D, E
<1> QED BY <1>1, <1>2, <1>5, UnchangedData, QuietLoops, QuietReturn

LEMMA UnbalancedReturnInv ==
    ASSUME PairInv, NEW c \in Innermost, UnbalancedReturnFlow(c) \/ UnbalancedReturnSite(c)
    PROVE  PairInv'
<1> DEFINE R == {[op |-> "returnSite", s |-> c.s, q |-> c.q, n |-> <<r, c.v>>] : r \in SuccsOf[c.s]}
           A == {CallContext(c.q, c.n)}
           B == {ReturnsFromCall(c.s, c.q, c.n)}
<1>1. c \in Call /\ DataOK
  BY InnermostCall
<1>2. CASE UnbalancedReturnFlow(c)
  <2>1. /\ c.op = "unbalanced" /\ c.s \in Stmt /\ c.q \in Query /\ c.v \in Val
        /\ Return(c, <<R>>) /\ UNCHANGED data
    BY <1>1, <1>2, CallFields DEF UnbalancedReturnFlow, ReturnSites
  <2>2. Other(R)
    <3>1. \A r \in SuccsOf[c.s] : <<r, c.v>> \in Node
      BY <2>1, CallSitesAssumption DEF Node
    <3> QED BY <2>1, <3>1, CallTypes DEF Other
  <2> HIDE DEF R
  <2> QED BY <1>1, <2>1, <2>2, UnchangedData, QuietLoops, QuietReturn
<1>3. CASE UnbalancedReturnSite(c)
  <2>1. /\ c.op = "returnSite" /\ c.s \in Stmt /\ c.q \in Query /\ c.n \in Node
        /\ Return(c, <<A, B>>) /\ UNCHANGED data
    BY <1>1, <1>3, CallFields DEF UnbalancedReturnSite
  <2>2. Other(A) /\ Other(B)
    BY <2>1, CallTypes DEF Other
  <2> HIDE DEF A, B
  <2> QED BY <1>1, <2>1, <2>2, UnchangedData, QuietLoops, QuietReturn
<1> QED BY <1>2, <1>3

(***************************************************************************)
(* Steps that add a side of a pair, or handle one.                         *)
(***************************************************************************)
\* The pairs of `ps' become due, and are what the loop will handle.
LEMMA SideAdded ==
    ASSUME PairInv, NEW c \in Innermost, c.op # "eachPair",
           NEW ps, ps \subseteq PairOf, Return(c, <<EachPair(ps)>>), DataOK', UNCHANGED pairs,
           \A p \in PairOf : (Due(p)' <=> Due(p) \/ p \in ps) /\ (p \in ps => ~Due(p))
    PROVE  PairInv'
<1> DEFINE E == EachPair(ps)
           body == <<E>>
<1>1. E = {PairCall(p) : p \in ps} /\ E \in SUBSET Call
  <2>1. E = {PairCall(p) : p \in ps}
    BY DEF EachPair, PairCall
  <2>2. \A p \in ps : PairCall(p) \in Call
    BY CallTypes
  <2> QED BY <2>1, <2>2
<1>2. Return(c, body)
  OBVIOUS
<1> HIDE DEF E
<1>3. body \in Seq(SUBSET Call) /\ DOMAIN body = {1} /\ body[1] = E
  BY <1>1, LoopTypes
<1> HIDE DEF body
<1>4. agenda' \in Seq(SUBSET Call) /\ Stacked(c, body)
  BY <1>2, <1>3, InnermostCall, ReturnStack
<1>5. ASSUME NEW p \in PairOf PROVE Handled(p)'
  <2>1. Handled(p) /\ (p \in paired' <=> p \in paired)
    BY DEF PairInv, AllHandled, pairs
  <2>2. PairCall(p) # c /\ (PairCall(p) \in E <=> p \in ps)
    <3>1. PairCall(p).op = "eachPair" /\ \A x : PairCall(p) = PairCall(x) => p = x
      BY DEF PairCall
    <3>2. PairCall(p) # c
      BY <3>1
    <3> QED BY <1>1, <3>1, <3>2
  <2>3. CASE p \in ps
    <3>1. ~Due(p) /\ Due(p)'
      BY <2>3
    <3>2. ~Pending(PairCall(p)) /\ p \notin paired
      BY <2>1, <3>1 DEF Handled
    <3>3. 1 \in DOMAIN body /\ PairCall(p) \in body[1]
          /\ \A i \in DOMAIN body : PairCall(p) \in body[i] => i = 1
      BY <1>3, <2>2, <2>3
    <3>4. Pending(PairCall(p))' /\ Once(PairCall(p))'
      BY <1>4, <3>2, <3>3, CallMade DEF PairCall
    <3> QED BY <2>1, <3>1, <3>2, <3>4 DEF Handled
  <2>4. CASE p \notin ps
    <3>1. Due(p)' <=> Due(p)
      BY <2>4
    <3>2. \A i \in DOMAIN body : PairCall(p) \notin body[i]
      BY <1>3, <2>2, <2>4
    <3>3. /\ Pending(PairCall(p))' <=> Pending(PairCall(p))
          /\ Once(PairCall(p)) => Once(PairCall(p))'
      BY <1>4, <2>2, <3>2, CallKept DEF PairCall
    <3> QED BY <2>1, <3>1, <3>3 DEF Handled
  <2> QED BY <2>3, <2>4
<1>6. AllHandled'
  BY <1>5 DEF PairInv, AllHandled, pairs
<1> QED BY <1>4, <1>6 DEF PairInv, TypeOK

LEMMA AddReturnInv == ASSUME PairInv, NEW c \in Innermost, AddReturn(c) PROVE PairInv'
<1> DEFINE ps == {Pair(c.s, b[2], c.q, c.n) : b \in {p \in byPassingAllocations : p[1] = c.s}}
<1>1. /\ c.op = "returns" /\ c.s \in Stmt /\ c.q \in Query /\ c.n \in Node /\ DataOK
      /\ UNCHANGED <<automata, contexts, byPassingAllocations, listeners, solved, pairs>>
  BY InnermostCall, CallFields DEF AddReturn
<1>2. CASE c.n[2] \in StaticVal \/ <<c.s, c.q, c.n>> \in returnsFromCall
  <2>1. Return(c, <<>>) /\ UNCHANGED returnsFromCall
    BY <1>2 DEF AddReturn
  <2>2. DataOK' /\ UNCHANGED <<sites, pairs>>
    BY <1>1, <2>1 DEF DataOK, automata, contexts, sites, listeners
  <2> QED BY <1>1, <2>1, <2>2, QuietLoops, QuietReturn
<1>3. CASE ~(c.n[2] \in StaticVal \/ <<c.s, c.q, c.n>> \in returnsFromCall)
  <2>1. /\ returnsFromCall' = returnsFromCall \cup {<<c.s, c.q, c.n>>}
        /\ Return(c, <<EachPair(ps)>>)
    BY <1>3 DEF AddReturn
  <2>2. DataOK'
    BY <1>1, <2>1 DEF DataOK, automata, contexts, listeners
  <2>3. \A b \in byPassingAllocations : b[2] \in Query /\ b = <<b[1], b[2]>>
    BY <1>1 DEF DataOK
  <2>4. ps \subseteq PairOf
    BY <1>1, <2>3 DEF PairOf, Pair
  <2>5. ASSUME NEW p \in PairOf
        PROVE  p \in ps <=> /\ p.site = c.s /\ p.flow = c.q /\ p.n = c.n
                            /\ <<c.s, p.byPassing>> \in byPassingAllocations
    <3>1. p = Pair(p.site, p.byPassing, p.flow, p.n)
      BY DEF Pair, PairOf
    <3>2. ASSUME p.site = c.s, p.flow = c.q, p.n = c.n,
                 <<c.s, p.byPassing>> \in byPassingAllocations
          PROVE  p \in ps
      BY <3>1, <3>2
    <3>3. ASSUME p \in ps
          PROVE  /\ p.site = c.s /\ p.flow = c.q /\ p.n = c.n
                 /\ <<c.s, p.byPassing>> \in byPassingAllocations
      BY <2>3, <3>3 DEF Pair
    <3> QED BY <3>2, <3>3
  <2>6. ASSUME NEW p \in PairOf
        PROVE  (Due(p)' <=> Due(p) \/ p \in ps) /\ (p \in ps => ~Due(p))
    BY <1>1, <1>3, <2>1, <2>5 DEF Due
  <2> HIDE DEF ps
  <2> QED BY <1>1, <2>1, <2>2, <2>4, <2>6, SideAdded
<1> QED BY <1>2, <1>3

LEMMA AddByPassingAllocationInv ==
    ASSUME PairInv, NEW c \in Innermost, AddByPassingAllocation(c) PROVE PairInv'
<1> DEFINE ps == {Pair(c.s, c.q, r[2], r[3]) : r \in {p \in returnsFromCall : p[1] = c.s}}
<1>1. /\ c.op = "byPass" /\ c.s \in Stmt /\ c.q \in Query /\ DataOK
      /\ byPassingAllocations' = byPassingAllocations \cup {<<c.s, c.q>>}
      /\ UNCHANGED <<automata, contexts, returnsFromCall, listeners, solved, pairs>>
  BY InnermostCall, CallFields DEF AddByPassingAllocation
<1>2. DataOK'
  BY <1>1 DEF DataOK, automata, contexts, listeners
<1>3. CASE <<c.s, c.q>> \in byPassingAllocations
  <2>1. Return(c, <<>>) /\ UNCHANGED <<sites, pairs>>
    BY <1>1, <1>3 DEF AddByPassingAllocation, sites
  <2> QED BY <1>1, <1>2, <2>1, QuietLoops, QuietReturn
<1>4. CASE <<c.s, c.q>> \notin byPassingAllocations
  <2>1. Return(c, <<EachPair(ps)>>)
    BY <1>4 DEF AddByPassingAllocation
  <2>2. \A r \in returnsFromCall : r[2] \in Query /\ r[3] \in Node /\ r = <<r[1], r[2], r[3]>>
    BY <1>1 DEF DataOK
  <2>3. ps \subseteq PairOf
    BY <1>1, <2>2 DEF PairOf, Pair
  <2>4. ASSUME NEW p \in PairOf
        PROVE  p \in ps <=> /\ p.site = c.s /\ p.byPassing = c.q
                            /\ <<c.s, p.flow, p.n>> \in returnsFromCall
    <3>1. p = Pair(p.site, p.byPassing, p.flow, p.n)
      BY DEF Pair, PairOf
    <3>2. ASSUME p.site = c.s, p.byPassing = c.q, <<c.s, p.flow, p.n>> \in returnsFromCall
          PROVE  p \in ps
      BY <3>1, <3>2
    <3>3. ASSUME p \in ps
          PROVE  p.site = c.s /\ p.byPassing = c.q /\ <<c.s, p.flow, p.n>> \in returnsFromCall
      BY <2>2, <3>3 DEF Pair
    <3> QED BY <3>2, <3>3
  <2>5. ASSUME NEW p \in PairOf
        PROVE  (Due(p)' <=> Due(p) \/ p \in ps) /\ (p \in ps => ~Due(p))
    BY <1>1, <1>4, <2>4 DEF Due
  <2> HIDE DEF ps
  <2> QED BY <1>1, <1>2, <2>1, <2>3, <2>5, SideAdded
<1> QED BY <1>3, <1>4

LEMMA RegisterPairInv == ASSUME PairInv, NEW c \in Innermost, RegisterPair(c) PROVE PairInv'
<1> DEFINE R == IF <<c.i.byPassing, c.i.n>> \in reachedStates THEN {Reachable(c.i)} ELSE {}
<1>1. /\ c \in Call /\ c.op = "eachPair" /\ c.i \in PairOf /\ c = PairCall(c.i) /\ DataOK
      /\ agenda \in Seq(SUBSET Call) /\ 1 \in DOMAIN agenda /\ c \in agenda[1]
  BY InnermostCall, CallFields DEF RegisterPair
<1>2. Once(c) /\ Due(c.i) /\ c.i \notin paired
  <2>1. Pending(PairCall(c.i)) /\ Handled(c.i)
    BY <1>1 DEF Pending, PairInv, AllHandled
  <2> QED BY <1>1, <2>1 DEF Handled
<1>3. /\ paired' = paired \cup {c.i} /\ pairedAgain' = {}
      /\ UNCHANGED <<automata, contexts, sites, atReturn, solved>>
      /\ onReturn' \subseteq onReturn \cup {c.i}
      /\ Return(c, <<>>) \/ Return(c, <<R>>)
  BY <1>2 DEF RegisterPair, PairInv, AllHandled
<1>4. Other(R)
  BY <1>1, CallTypes DEF Other
<1>5. DataOK'
  BY <1>1, <1>3 DEF DataOK, automata, contexts, sites
<1> HIDE DEF R
<1>6. PICK body : Quiet(body) /\ Return(c, body)
  BY <1>3, <1>4, QuietLoops
<1>7. agenda' \in Seq(SUBSET Call) /\ Stacked(c, body)
  BY <1>1, <1>6, ReturnStack DEF Quiet
<1>8. ASSUME NEW p \in PairOf PROVE Handled(p)'
  <2>1. Handled(p) /\ (Due(p)' <=> Due(p))
    BY <1>3 DEF PairInv, AllHandled, Due, sites
  <2>2. \A i \in DOMAIN body : PairCall(p) \notin body[i]
    BY <1>6 DEF Quiet, PairCall
  <2>3. CASE p = c.i
    <3>1. \A i \in DOMAIN body : c \notin body[i]
      BY <1>1, <2>2, <2>3
    <3>2. ~Pending(c)' /\ Once(c)'
      BY <1>1, <1>2, <1>7, <3>1, CallTaken
    <3>3. ~Pending(PairCall(p))' /\ Once(PairCall(p))'
      BY <1>1, <2>3, <3>2 DEF PairCall
    <3> QED BY <1>2, <1>3, <2>1, <2>3, <3>3 DEF Handled
  <2>4. CASE p # c.i
    <3>1. PairCall(p) # c
      BY <2>4 DEF PairCall
    <3>2. /\ Pending(PairCall(p))' <=> Pending(PairCall(p))
          /\ Once(PairCall(p)) => Once(PairCall(p))'
      BY <1>7, <2>2, <3>1, CallKept DEF PairCall
    <3> QED BY <1>3, <2>1, <2>4, <3>2 DEF Handled
  <2> QED BY <2>3, <2>4
<1>9. AllHandled'
  BY <1>1, <1>3, <1>8 DEF PairInv, AllHandled
<1> QED BY <1>5, <1>7, <1>9 DEF PairInv, TypeOK

LEMMA EndLoopInv == ASSUME PairInv, EndLoop PROVE PairInv'
<1>1. agenda \in Seq(SUBSET Call) /\ DataOK /\ LoopEnds /\ UNCHANGED data
  BY DEF PairInv, TypeOK, EndLoop
<1>2. agenda' \in Seq(SUBSET Call)
  BY <1>1, EndedStack
<1>3. \A p : /\ Pending(PairCall(p))' <=> Pending(PairCall(p))
             /\ Once(PairCall(p)) => Once(PairCall(p))'
  BY <1>1, CallKeptAtEnd DEF PairCall
<1>4. DataOK' /\ UNCHANGED <<sites, pairs>>
  BY <1>1, UnchangedData
<1>5. AllHandled'
  BY <1>3, <1>4, HandledFrame DEF PairInv
<1> QED BY <1>2, <1>4, <1>5 DEF PairInv, TypeOK

LEMMA AskInv == ASSUME PairInv, NEW q \in Query, Ask(q) PROVE PairInv'
<1>1. agenda = <<>> /\ agenda' = <<{SolveFor(q)}>> /\ UNCHANGED data
  BY DEF Ask, Idle
<1>2. {SolveFor(q)} \in SUBSET Call /\ SolveFor(q).op = "solve"
  BY CallTypes
<1>3. agenda' \in Seq(SUBSET Call) /\ DOMAIN agenda' = {1} /\ agenda'[1] = {SolveFor(q)}
      /\ DOMAIN agenda = {}
  BY <1>1, <1>2, LoopTypes
<1>4. ASSUME NEW p PROVE ~Pending(PairCall(p)) /\ ~Pending(PairCall(p))' /\ Once(PairCall(p))'
  <2>1. PairCall(p) # SolveFor(q)
    BY <1>2 DEF PairCall
  <2> QED BY <1>3, <2>1 DEF Pending, Once, PairCall
<1>5. DataOK' /\ UNCHANGED <<sites, pairs>>
  BY <1>1, UnchangedData DEF PairInv, TypeOK
<1>6. AllHandled'
  BY <1>4, <1>5, HandledFrame DEF PairInv
<1> QED BY <1>3, <1>5, <1>6 DEF PairInv, TypeOK

(***************************************************************************)
(* The invariant, and what follows from it.                                *)
(***************************************************************************)
LEMMA InitInv == Init => PairInv
<1> SUFFICES ASSUME Init PROVE PairInv
  OBVIOUS
<1>1. agenda = <<>> /\ DOMAIN agenda = {} /\ <<>> \in Seq(SUBSET Call)
  BY LoopTypes DEF Init
<1>2. \A d : ~Pending(d) /\ Once(d)
  BY <1>1 DEF Pending, Once
<1>3. DataOK
  BY DEF Init, DataOK
<1>4. AllHandled
  BY <1>2 DEF Init, AllHandled, Handled, Due
<1> QED BY <1>1, <1>3, <1>4 DEF PairInv, TypeOK

LEMMA NextInv == PairInv /\ [Next]_vars => PairInv'
<1> SUFFICES ASSUME PairInv, [Next]_vars PROVE PairInv'
  OBVIOUS
<1>1. CASE Step
  <2>1. CASE EndLoop
    BY <2>1, EndLoopInv
  <2>2. ASSUME NEW c \in Innermost,
               Solve(c) \/ InsertTransition(c) \/ AddTransitionToStatement(c) \/ Notify(c)
                 \/ RegisterImporter(c)
        PROVE  PairInv'
    BY <2>2, SolveInv, InsertTransitionInv, AddTransitionToStatementInv, NotifyInv,
       RegisterImporterInv
  <2>3. ASSUME NEW c \in Innermost,
               SetFieldContextReachable(c) \/ SetCallingContextReachable(c)
                 \/ ApplyCallRules(c) \/ AddNormalCallFlow(c) \/ ProcessNode(c)
        PROVE  PairInv'
    BY <2>3, ContextsInv, CallRulesInv, ProcessNodeInv
  <2>4. ASSUME NEW c \in Innermost,
               NotifyReached(c) \/ OnReturnNodeReachable(c) \/ ImportFlowAtReturn(c)
                 \/ UnbalancedReturnFlow(c) \/ UnbalancedReturnSite(c)
        PROVE  PairInv'
    BY <2>4, ReturnNodeInv, ImportFlowAtReturnInv, UnbalancedReturnInv
  <2>5. ASSUME NEW c \in Innermost,
               AddReturn(c) \/ AddByPassingAllocation(c) \/ RegisterPair(c)
        PROVE  PairInv'
    BY <2>5, AddReturnInv, AddByPassingAllocationInv, RegisterPairInv
  <2> QED BY <1>1, <2>1, <2>2, <2>3, <2>4, <2>5 DEF Step
<1>2. CASE \E q \in Query : Ask(q)
  BY <1>2, AskInv
<1>3. CASE UNCHANGED vars
  <2>1. UNCHANGED data /\ UNCHANGED agenda
    BY <1>3 DEF vars
  <2>2. \A p : /\ Pending(PairCall(p))' <=> Pending(PairCall(p))
               /\ Once(PairCall(p)) => Once(PairCall(p))'
    BY <2>1 DEF Pending, Once, PairCall
  <2>3. DataOK' /\ UNCHANGED <<sites, pairs>>
    BY <2>1, UnchangedData DEF PairInv, TypeOK
  <2>4. AllHandled'
    BY <2>2, <2>3, HandledFrame DEF PairInv
  <2> QED BY <2>1, <2>3, <2>4 DEF PairInv, TypeOK
<1> QED BY <1>1, <1>2, <1>3 DEF Next

LEMMA InvPaired == PairInv => PairedOnce
<1> SUFFICES ASSUME PairInv PROVE PairedOnce
  OBVIOUS
<1>1. pairedAgain = {} /\ paired \subseteq PairOf /\ \A p \in PairOf : Handled(p)
  BY DEF PairInv, AllHandled
<1>2. /\ \A r \in returnsFromCall : /\ r = <<r[1], r[2], r[3]>> /\ r[1] \in Stmt
                                    /\ r[2] \in Query /\ r[3] \in Node
      /\ \A b \in byPassingAllocations : b = <<b[1], b[2]>> /\ b[2] \in Query
  BY DEF PairInv, TypeOK, DataOK
<1>3. ASSUME NEW p \in PairOf, Due(p)
      PROVE  p \in PairsOf(returnsFromCall, byPassingAllocations)
  <2> DEFINE z == <<<<p.site, p.flow, p.n>>, <<p.site, p.byPassing>>>>
  <2>1. z \in returnsFromCall \X byPassingAllocations /\ z[1][1] = z[2][1]
    BY <1>3 DEF Due
  <2>2. p = Pair(z[1][1], z[2][2], z[1][2], z[1][3])
    BY DEF Pair, PairOf
  <2> HIDE DEF z
  <2> QED BY <2>1, <2>2 DEF PairsOf
<1>4. ASSUME NEW p \in PairsOf(returnsFromCall, byPassingAllocations)
      PROVE  p \in PairOf /\ Due(p)
  <2>1. PICK r \in returnsFromCall, b \in byPassingAllocations :
           r[1] = b[1] /\ p = Pair(r[1], b[2], r[2], r[3])
    BY DEF PairsOf
  <2> QED BY <1>2, <2>1 DEF Pair, PairOf, Due
<1>5. ASSUME Idle PROVE paired = PairsOf(returnsFromCall, byPassingAllocations)
  <2>1. \A p \in PairOf : p \in paired <=> Due(p)
    BY <1>1, <1>5 DEF Idle, Pending, Handled
  <2> QED BY <1>1, <1>3, <1>4, <2>1
<1> QED BY <1>1, <1>5 DEF PairedOnce

(***************************************************************************)
(* The theorem.                                                            *)
(***************************************************************************)
\* Whatever the flow functions find and however the loops over returnsFromCall and
\* byPassingAllocations nest, each pair is handed to eachPair once, and all have
\* been when the outermost call returns (returnsFromCall, addByPassingAllocation).
THEOREM AlwaysPairedOnce == Spec => []PairedOnce
<1>1. Init => PairInv
  BY InitInv
<1>2. PairInv /\ [Next]_vars => PairInv'
  BY NextInv
<1>3. PairInv => PairedOnce
  BY InvPaired
<1> QED BY <1>1, <1>2, <1>3, PTL DEF Spec

-----------------------------------------------------------------------------
(***************************************************************************)
(* What the solvers import is the least that what they find entails, so    *)
(* it does not depend on any order.                                        *)
(***************************************************************************)
Record(q, n, l) == [op |-> "record", q |-> q, n |-> n, l |-> l]
NotifyOf(q, n, l) == [op |-> "notify", q |-> q, n |-> n, l |-> l]
Import(q, n, f) == [op |-> "import", q |-> q, n |-> n, flow |-> f]
CallRules(q, n) == [op |-> "callRules", q |-> q, n |-> n]
CallFlow(q, n, m) == [op |-> "callFlow", q |-> q, n |-> n, succ |-> m]
ReachedNode(q, n) == [op |-> "reached", q |-> q, n |-> n]
Added(p, n, l) == [op |-> "added", i |-> p, n |-> n, l |-> l]
ReturnSite(s, q, n) == [op |-> "returnSite", s |-> s, q |-> q, n |-> n]
Unbalanced(s, q, v) == [op |-> "unbalanced", s |-> s, q |-> q, v |-> v]

CallStep(c) ==
    \/ Solve(c) \/ InsertTransition(c) \/ AddTransitionToStatement(c) \/ Notify(c)
    \/ RegisterImporter(c) \/ SetFieldContextReachable(c) \/ SetCallingContextReachable(c)
    \/ ApplyCallRules(c) \/ AddNormalCallFlow(c) \/ ProcessNode(c) \/ NotifyReached(c)
    \/ AddReturn(c) \/ AddByPassingAllocation(c) \/ RegisterPair(c)
    \/ OnReturnNodeReachable(c) \/ ImportFlowAtReturn(c) \/ UnbalancedReturnFlow(c)
    \/ UnbalancedReturnSite(c)

\* The calls that c makes.
Makes(c, d) ==
    \/ c.op = "solve" /\ d \in {Insert(c.q, StartsAt[c.q], EmptyField), CallContext(c.q, StartsAt[c.q])}
    \/ /\ c.op = "insert" /\ <<c.q, c.n, c.l>> \notin fieldTrans
       /\ d \in {FieldContext(c.q, c.n), Record(c.q, c.n, c.l), NotifyOf(c.q, c.n, c.l)}
    \/ /\ c.op = "record"
       /\ \E p \in atReturn : p.byPassing = c.q /\ p.n[1] = c.n[1] /\ d = Added(p, c.n, c.l)
    \/ c.op = "notify" /\ \E i \in importers : i[1] = c.q /\ i[2] = c.n /\ d = Insert(i[3], c.n, c.l)
    \/ /\ c.op = "import" /\ <<c.q, c.n, c.flow>> \notin importers
       /\ \E t \in fieldTrans : t[1] = c.q /\ t[2] = c.n /\ d = Insert(c.flow, c.n, t[3])
    \/ /\ c.op = "fieldContext" /\ <<c.q, c.n>> \in callingContextReachable \ fieldContextReachable
       /\ d = Process(c.q, c.n)
    \/ /\ c.op = "callContext" /\ <<c.q, c.n>> \notin callingContextReachable
       /\ \/ <<c.q, c.n>> \in fieldContextReachable /\ d = Process(c.q, c.n)
          \/ d = CallRules(c.q, c.n)
    \/ /\ c.op = "callRules"
       /\ \E r \in callRules : r[1] = c.q /\ r[2] = c.n /\ d = CallContext(c.q, r[3])
    \/ /\ c.op = "callFlow" /\ <<c.q, c.n>> \in callingContextReachable
       /\ d = CallContext(c.q, c.succ)
    \/ /\ c.op = "process" /\ <<c.q, c.n>> \notin reachedStates
       /\ d \in EnterCall(c.q, c.n) \cup {ReachedNode(c.q, c.n)} \cup Found(c.q, c.n)
    \/ /\ c.op = "reached"
       /\ \E p \in onReturn : p.byPassing = c.q /\ p.n = c.n /\ d = Reachable(p)
    \/ /\ c.op = "returns" /\ ~(c.n[2] \in StaticVal \/ <<c.s, c.q, c.n>> \in returnsFromCall)
       /\ \E b \in byPassingAllocations : b[1] = c.s /\ d = PairCall(Pair(c.s, b[2], c.q, c.n))
    \/ /\ c.op = "byPass" /\ <<c.s, c.q>> \notin byPassingAllocations
       /\ \E r \in returnsFromCall : r[1] = c.s /\ d = PairCall(Pair(c.s, c.q, r[2], r[3]))
    \/ /\ c.op = "eachPair" /\ ~(c.i.byPassing = c.i.flow \/ c.i \in onReturn)
       /\ <<c.i.byPassing, c.i.n>> \in reachedStates /\ d = Reachable(c.i)
    \/ /\ c.op = "reachable" /\ c.i \notin atReturn
       /\ \E t \in perStatement : /\ t[1] = c.i.byPassing /\ t[2][1] = c.i.n[1]
                                  /\ d = Added(c.i, t[2], t[3])
    \/ /\ c.op = "added" /\ c.l # Epsilon
       /\ d \in {Insert(c.i.flow, AsNode[c.i.byPassing], Epsilon),
                 Import(c.i.byPassing, c.n, c.i.flow), FieldContext(c.i.flow, c.n),
                 CallFlow(c.i.flow, c.i.n, c.n)}
    \/ c.op = "unbalanced" /\ \E r \in SuccsOf[c.s] : d = ReturnSite(c.s, c.q, <<r, c.v>>)
    \/ c.op = "returnSite" /\ d \in {CallContext(c.q, c.n), ReturnsFromCall(c.s, c.q, c.n)}

\* What a call leaves for good.
Done(d) ==
    /\ d.op = "solve" => d.q \in solved
    /\ d.op = "insert" => <<d.q, d.n, d.l>> \in fieldTrans
    /\ d.op = "record" => <<d.q, d.n, d.l>> \in perStatement
    /\ d.op = "import" => <<d.q, d.n, d.flow>> \in importers
    /\ d.op = "fieldContext" => <<d.q, d.n>> \in fieldContextReachable
    /\ d.op = "callContext" => <<d.q, d.n>> \in callingContextReachable
    /\ d.op = "callFlow" => <<d.q, d.n, d.succ>> \in callRules
    /\ d.op = "process" => <<d.q, d.n>> \in reachedStates
    /\ d.op = "returns" => d.n[2] \in StaticVal \/ <<d.s, d.q, d.n>> \in returnsFromCall
    /\ d.op = "byPass" => <<d.s, d.q>> \in byPassingAllocations
    /\ d.op = "reachable" => d.i \in atReturn
    /\ d.op \notin {"unbalanced", "returnSite", "notify", "callRules", "reached", "added", "eachPair"}

\* It has been done, or it is to be done.
Asked(d) == Done(d) \/ Pending(d)

SiteAsked(s, q, n) ==
    \/ Pending(ReturnSite(s, q, n))
    \/ Asked(CallContext(q, n)) /\ Asked(ReturnsFromCall(s, q, n))

FoundAsked(d) ==
    IF d.op # "unbalanced" THEN Asked(d)
    ELSE Pending(d) \/ \A r \in SuccsOf[d.s] : SiteAsked(d.s, d.q, <<r, d.v>>)

ImportAsked(p, n) ==
    /\ Asked(Insert(p.flow, AsNode[p.byPassing], Epsilon))
    /\ Asked(Import(p.byPassing, n, p.flow))
    /\ Asked(CallFlow(p.flow, p.n, n))

\* What each piece of the solvers' state owes.
SolvesHeeded ==
    \A q \in solved : /\ Asked(Insert(q, StartsAt[q], EmptyField))
                      /\ Asked(CallContext(q, StartsAt[q]))
InsertsHeeded ==
    \A q \in Query, n \in Node, l \in Label :
      <<q, n, l>> \in fieldTrans => Asked(FieldContext(q, n)) /\ Asked(Record(q, n, l))
ImportersHeeded ==
    \A q \in Query, n \in Node, l \in Label, f \in Query :
      <<q, n, l>> \in fieldTrans /\ <<q, n, f>> \in importers
        => Asked(Insert(f, n, l)) \/ Pending(NotifyOf(q, n, l))
ContextsHeeded ==
    \A q \in Query, n \in Node :
      <<q, n>> \in fieldContextReachable \cap callingContextReachable => Asked(Process(q, n))
CallRulesHeeded ==
    \A q \in Query, n \in Node, m \in Node :
      <<q, n, m>> \in callRules /\ <<q, n>> \in callingContextReachable
        => Asked(CallContext(q, m)) \/ Pending(CallRules(q, n))
NodesHeeded ==
    \A q \in Query, n \in Node :
      <<q, n>> \in reachedStates => \A d \in EnterCall(q, n) \cup Found(q, n) : FoundAsked(d)
PairsHeeded ==
    \A p \in PairOf :
      /\ p \in paired /\ p.byPassing # p.flow => p \in onReturn
      /\ p \in onReturn /\ <<p.byPassing, p.n>> \in reachedStates
           => Asked(Reachable(p)) \/ Pending(ReachedNode(p.byPassing, p.n))
ReturnsHeeded ==
    \A p \in PairOf, n \in Node, l \in Field :
      p \in atReturn /\ <<p.byPassing, n, l>> \in perStatement /\ n[1] = p.n[1]
        => ImportAsked(p, n) \/ Pending(Added(p, n, l))

Heeded ==
    /\ SolvesHeeded /\ InsertsHeeded /\ ImportersHeeded /\ ContextsHeeded
    /\ CallRulesHeeded /\ NodesHeeded /\ PairsHeeded /\ ReturnsHeeded

\* What is pending after c has returned with the calls in D to be made.
After(c, D) ==
    /\ \A d : Pending(d) /\ d # c => Pending(d)'
    /\ \A d \in D : Pending(d)'
    /\ \A d : Pending(d)' => Pending(d) \/ d \in D

LEMMA AfterReturn ==
    ASSUME PairInv, NEW c \in Innermost
    PROVE  /\ Return(c, <<>>) => After(c, {})
           /\ \A A : Return(c, <<A>>) => After(c, A)
           /\ \A A, B : Return(c, <<A, B>>) => After(c, A \cup B)
           /\ \A A, B, D : Return(c, <<A, B, D>>) => After(c, A \cup B \cup D)
           /\ \A A, B, D, E : Return(c, <<A, B, D, E>>) => After(c, A \cup B \cup D \cup E)
<1>1. agenda \in Seq(SUBSET Call)
  BY DEF PairInv, TypeOK
<1>2. ASSUME NEW D, NEW body \in Seq(SUBSET (Call \cup D)), Return(c, body),
             \A i \in DOMAIN body : body[i] \subseteq D,
             \A d \in D : \E i \in DOMAIN body : d \in body[i]
      PROVE  After(c, D)
  <2>1. agenda \in Seq(SUBSET (Call \cup D))
    BY <1>1
  <2>2. Stacked(c, body)
    BY <1>2, <2>1, ReturnStack
  <2>3. \A d : Pending(d) /\ d # c => Pending(d)'
    BY <2>2, PendingAfter
  <2>4. \A d \in D : Pending(d)'
    BY <1>2, <2>2, PendingAfter
  <2>5. \A d : Pending(d)' => Pending(d) \/ d \in D
    BY <1>2, <2>2, PendingBefore
  <2> QED BY <2>3, <2>4, <2>5 DEF After
<1>3. ASSUME Return(c, <<>>) PROVE After(c, {})
  <2>1. PICK body : body = <<>>
    OBVIOUS
  <2>2. body \in Seq(SUBSET (Call \cup {})) /\ DOMAIN body = {} /\ Return(c, body)
    BY <1>3, <2>1
  <2> QED BY <1>2, <2>2
<1>4. ASSUME NEW A, Return(c, <<A>>) PROVE After(c, A)
  <2>1. PICK body : body = <<A>>
    OBVIOUS
  <2>2. /\ body \in Seq(SUBSET (Call \cup A)) /\ DOMAIN body = {1} /\ body[1] = A
        /\ Return(c, body)
    BY <1>4, <2>1
  <2> QED BY <1>2, <2>2
<1>5. ASSUME NEW A, NEW B, Return(c, <<A, B>>) PROVE After(c, A \cup B)
  <2>1. PICK body : body = <<A, B>>
    OBVIOUS
  <2>2. /\ body \in Seq(SUBSET (Call \cup (A \cup B))) /\ DOMAIN body = {1, 2}
        /\ body[1] = A /\ body[2] = B /\ Return(c, body)
    BY <1>5, <2>1
  <2> QED BY <1>2, <2>2
<1>6. ASSUME NEW A, NEW B, NEW D, Return(c, <<A, B, D>>) PROVE After(c, A \cup B \cup D)
  <2>1. PICK body : body = <<A, B, D>>
    OBVIOUS
  <2>2. /\ body \in Seq(SUBSET (Call \cup (A \cup B \cup D))) /\ DOMAIN body = {1, 2, 3}
        /\ body[1] = A /\ body[2] = B /\ body[3] = D /\ Return(c, body)
    BY <1>6, <2>1
  <2> QED BY <1>2, <2>2
<1>7. ASSUME NEW A, NEW B, NEW D, NEW E, Return(c, <<A, B, D, E>>)
      PROVE  After(c, A \cup B \cup D \cup E)
  <2>1. PICK body : body = <<A, B, D, E>>
    OBVIOUS
  <2>2. /\ body \in Seq(SUBSET (Call \cup (A \cup B \cup D \cup E))) /\ DOMAIN body = {1, 2, 3, 4}
        /\ body[1] = A /\ body[2] = B /\ body[3] = D /\ body[4] = E /\ Return(c, body)
    BY <1>7, <2>1
  <2> QED BY <1>2, <2>2
<1> QED BY <1>3, <1>4, <1>5, <1>6, <1>7

\* The loops that c pushes hold just the calls it makes.
Effect(c) ==
    /\ \A d : Pending(d) /\ d # c => Pending(d)'
    /\ \A d : Makes(c, d) => Pending(d)'
    /\ \A d : Pending(d)' => Pending(d) \/ Makes(c, d)

LEMMA EffectOf ==
    ASSUME NEW c, NEW D, After(c, D), \A d : d \in D <=> Makes(c, d)
    PROVE  Effect(c)
BY DEF After, Effect

\* A call is determined by its kind and its arguments.
LEMMA CallForm ==
    ASSUME NEW c \in Call
    PROVE  /\ c.op = "solve" => c = SolveFor(c.q)
           /\ c.op = "insert" => c = Insert(c.q, c.n, c.l)
           /\ c.op = "record" => c = Record(c.q, c.n, c.l)
           /\ c.op = "notify" => c = NotifyOf(c.q, c.n, c.l)
           /\ c.op = "import" => c = Import(c.q, c.n, c.flow)
           /\ c.op = "fieldContext" => c = FieldContext(c.q, c.n)
           /\ c.op = "callContext" => c = CallContext(c.q, c.n)
           /\ c.op = "callRules" => c = CallRules(c.q, c.n)
           /\ c.op = "callFlow" => c = CallFlow(c.q, c.n, c.succ)
           /\ c.op = "process" => c = Process(c.q, c.n)
           /\ c.op = "reached" => c = ReachedNode(c.q, c.n)
           /\ c.op = "returns" => c = ReturnsFromCall(c.s, c.q, c.n)
           /\ c.op = "byPass" => c = AddByPassing(c.s, c.q)
           /\ c.op = "reachable" => c = Reachable(c.i)
           /\ c.op = "added" => c = Added(c.i, c.n, c.l)
           /\ c.op = "unbalanced" => c = Unbalanced(c.s, c.q, c.v)
           /\ c.op = "returnSite" => c = ReturnSite(c.s, c.q, c.n)
BY DEF Call, FoundCall, SolveFor, Insert, Record, NotifyOf, Import, FieldContext, CallContext,
       CallRules, CallFlow, Process, ReachedNode, ReturnsFromCall, AddByPassing, Reachable, Added,
       Unbalanced, ReturnSite

LEMMA CallEffect ==
    ASSUME PairInv, NEW c \in Innermost, CallStep(c)
    PROVE  Effect(c)
<1>1. CASE Solve(c)
  <2> DEFINE A == {Insert(c.q, StartsAt[c.q], EmptyField)}
             B == {CallContext(c.q, StartsAt[c.q])}
  <2>1. c.op = "solve" /\ Return(c, <<A, B>>)
    BY <1>1 DEF Solve
  <2>2. \A d : d \in A \cup B <=> Makes(c, d)
    BY <2>1 DEF Makes
  <2> HIDE DEF A, B
  <2> QED BY <2>1, <2>2, AfterReturn, EffectOf
<1>2. CASE InsertTransition(c)
  <2> DEFINE A == {FieldContext(c.q, c.n), Record(c.q, c.n, c.l)}
             B == {NotifyOf(c.q, c.n, c.l)}
  <2>1. /\ c.op = "insert"
        /\ IF <<c.q, c.n, c.l>> \in fieldTrans THEN Return(c, <<>>) ELSE Return(c, <<A, B>>)
    BY <1>2 DEF InsertTransition, Record, NotifyOf
  <2>2. \A d : Makes(c, d) <=> <<c.q, c.n, c.l>> \notin fieldTrans /\ d \in A \cup B
    BY <2>1 DEF Makes
  <2> HIDE DEF A, B
  <2>3. CASE <<c.q, c.n, c.l>> \in fieldTrans
    BY <2>1, <2>2, <2>3, AfterReturn, EffectOf
  <2>4. CASE <<c.q, c.n, c.l>> \notin fieldTrans
    BY <2>1, <2>2, <2>4, AfterReturn, EffectOf
  <2> QED BY <2>3, <2>4
<1>3. CASE AddTransitionToStatement(c)
  <2> DEFINE A == {Added(i, c.n, c.l) : i \in {j \in atReturn : j.byPassing = c.q /\ j.n[1] = c.n[1]}}
  <2>1. c.op = "record" /\ Return(c, <<A>>)
    BY <1>3 DEF AddTransitionToStatement, Added
  <2>2. \A d : d \in A <=> Makes(c, d)
    BY <2>1 DEF Makes
  <2> HIDE DEF A
  <2> QED BY <2>1, <2>2, AfterReturn, EffectOf
<1>4. CASE Notify(c)
  <2> DEFINE A == {Insert(i[3], c.n, c.l) : i \in {j \in importers : j[1] = c.q /\ j[2] = c.n}}
  <2>1. c.op = "notify" /\ Return(c, <<A>>)
    BY <1>4 DEF Notify
  <2>2. \A d : d \in A <=> Makes(c, d)
    BY <2>1 DEF Makes
  <2> HIDE DEF A
  <2> QED BY <2>1, <2>2, AfterReturn, EffectOf
<1>5. CASE RegisterImporter(c)
  <2> DEFINE A == {Insert(c.flow, c.n, t[3]) : t \in {u \in fieldTrans : u[1] = c.q /\ u[2] = c.n}}
  <2>1. /\ c.op = "import"
        /\ IF <<c.q, c.n, c.flow>> \in importers THEN Return(c, <<>>) ELSE Return(c, <<A>>)
    BY <1>5 DEF RegisterImporter
  <2>2. \A d : Makes(c, d) <=> <<c.q, c.n, c.flow>> \notin importers /\ d \in A
    BY <2>1 DEF Makes
  <2> HIDE DEF A
  <2>3. CASE <<c.q, c.n, c.flow>> \in importers
    BY <2>1, <2>2, <2>3, AfterReturn, EffectOf
  <2>4. CASE <<c.q, c.n, c.flow>> \notin importers
    BY <2>1, <2>2, <2>4, AfterReturn, EffectOf
  <2> QED BY <2>3, <2>4
<1>6. CASE SetFieldContextReachable(c)
  <2> DEFINE A == IF <<c.q, c.n>> \in callingContextReachable \ fieldContextReachable
                  THEN {Process(c.q, c.n)} ELSE {}
  <2>1. c.op = "fieldContext" /\ Return(c, <<A>>)
    BY <1>6 DEF SetFieldContextReachable
  <2>2. \A d : d \in A <=> Makes(c, d)
    BY <2>1 DEF Makes
  <2> HIDE DEF A
  <2> QED BY <2>1, <2>2, AfterReturn, EffectOf
<1>7. CASE SetCallingContextReachable(c)
  <2> DEFINE A == IF <<c.q, c.n>> \in fieldContextReachable THEN {Process(c.q, c.n)} ELSE {}
             B == {CallRules(c.q, c.n)}
  <2>1. /\ c.op = "callContext"
        /\ IF <<c.q, c.n>> \in callingContextReachable THEN Return(c, <<>>) ELSE Return(c, <<A, B>>)
    BY <1>7 DEF SetCallingContextReachable, CallRules
  <2>2. \A d : Makes(c, d) <=> <<c.q, c.n>> \notin callingContextReachable /\ d \in A \cup B
    BY <2>1 DEF Makes
  <2> HIDE DEF A, B
  <2>3. CASE <<c.q, c.n>> \in callingContextReachable
    BY <2>1, <2>2, <2>3, AfterReturn, EffectOf
  <2>4. CASE <<c.q, c.n>> \notin callingContextReachable
    BY <2>1, <2>2, <2>4, AfterReturn, EffectOf
  <2> QED BY <2>3, <2>4
<1>8. CASE ApplyCallRules(c)
  <2> DEFINE A == {CallContext(c.q, r[3]) : r \in {p \in callRules : p[1] = c.q /\ p[2] = c.n}}
  <2>1. c.op = "callRules" /\ Return(c, <<A>>)
    BY <1>8 DEF ApplyCallRules
  <2>2. \A d : d \in A <=> Makes(c, d)
    BY <2>1 DEF Makes
  <2> HIDE DEF A
  <2> QED BY <2>1, <2>2, AfterReturn, EffectOf
<1>9. CASE AddNormalCallFlow(c)
  <2> DEFINE A == IF <<c.q, c.n>> \in callingContextReachable THEN {CallContext(c.q, c.succ)} ELSE {}
  <2>1. c.op = "callFlow" /\ Return(c, <<A>>)
    BY <1>9 DEF AddNormalCallFlow
  <2>2. \A d : d \in A <=> Makes(c, d)
    BY <2>1 DEF Makes
  <2> HIDE DEF A
  <2> QED BY <2>1, <2>2, AfterReturn, EffectOf
<1>10. CASE ProcessNode(c)
  <2> DEFINE A == EnterCall(c.q, c.n)
             B == {ReachedNode(c.q, c.n)}
             D == Found(c.q, c.n)
  <2>1. /\ c.op = "process"
        /\ IF <<c.q, c.n>> \in reachedStates THEN Return(c, <<>>) ELSE Return(c, <<A, B, D>>)
    BY <1>10 DEF ProcessNode, ReachedNode
  <2>2. \A d : Makes(c, d) <=> <<c.q, c.n>> \notin reachedStates /\ d \in A \cup B \cup D
    BY <2>1 DEF Makes
  <2> HIDE DEF A, B, D
  <2>3. CASE <<c.q, c.n>> \in reachedStates
    BY <2>1, <2>2, <2>3, AfterReturn, EffectOf
  <2>4. CASE <<c.q, c.n>> \notin reachedStates
    BY <2>1, <2>2, <2>4, AfterReturn, EffectOf
  <2> QED BY <2>3, <2>4
<1>11. CASE NotifyReached(c)
  <2> DEFINE A == {Reachable(i) : i \in {j \in onReturn : j.byPassing = c.q /\ j.n = c.n}}
  <2>1. c.op = "reached" /\ Return(c, <<A>>)
    BY <1>11 DEF NotifyReached
  <2>2. \A d : d \in A <=> Makes(c, d)
    BY <2>1 DEF Makes
  <2> HIDE DEF A
  <2> QED BY <2>1, <2>2, AfterReturn, EffectOf
<1>12. CASE AddReturn(c)
  <2> DEFINE again == c.n[2] \in StaticVal \/ <<c.s, c.q, c.n>> \in returnsFromCall
             A == EachPair({Pair(c.s, b[2], c.q, c.n) : b \in {p \in byPassingAllocations : p[1] = c.s}})
  <2>1. c.op = "returns" /\ IF again THEN Return(c, <<>>) ELSE Return(c, <<A>>)
    BY <1>12 DEF AddReturn
  <2>2. \A d : Makes(c, d) <=> ~again /\ d \in A
    BY <2>1 DEF Makes, EachPair, PairCall
  <2> HIDE DEF again, A
  <2>3. CASE again
    BY <2>1, <2>2, <2>3, AfterReturn, EffectOf
  <2>4. CASE ~again
    BY <2>1, <2>2, <2>4, AfterReturn, EffectOf
  <2> QED BY <2>3, <2>4
<1>13. CASE AddByPassingAllocation(c)
  <2> DEFINE A == EachPair({Pair(c.s, c.q, r[2], r[3]) : r \in {p \in returnsFromCall : p[1] = c.s}})
  <2>1. /\ c.op = "byPass"
        /\ IF <<c.s, c.q>> \in byPassingAllocations THEN Return(c, <<>>) ELSE Return(c, <<A>>)
    BY <1>13 DEF AddByPassingAllocation
  <2>2. \A d : Makes(c, d) <=> <<c.s, c.q>> \notin byPassingAllocations /\ d \in A
    BY <2>1 DEF Makes, EachPair, PairCall
  <2> HIDE DEF A
  <2>3. CASE <<c.s, c.q>> \in byPassingAllocations
    BY <2>1, <2>2, <2>3, AfterReturn, EffectOf
  <2>4. CASE <<c.s, c.q>> \notin byPassingAllocations
    BY <2>1, <2>2, <2>4, AfterReturn, EffectOf
  <2> QED BY <2>3, <2>4
<1>14. CASE RegisterPair(c)
  <2> DEFINE again == c.i.byPassing = c.i.flow \/ c.i \in onReturn
             A == IF <<c.i.byPassing, c.i.n>> \in reachedStates THEN {Reachable(c.i)} ELSE {}
  <2>1. c.op = "eachPair" /\ IF again THEN Return(c, <<>>) ELSE Return(c, <<A>>)
    BY <1>14 DEF RegisterPair
  <2>2. \A d : Makes(c, d) <=> ~again /\ d \in A
    BY <2>1 DEF Makes
  <2> HIDE DEF again, A
  <2>3. CASE again
    BY <2>1, <2>2, <2>3, AfterReturn, EffectOf
  <2>4. CASE ~again
    BY <2>1, <2>2, <2>4, AfterReturn, EffectOf
  <2> QED BY <2>3, <2>4
<1>15. CASE OnReturnNodeReachable(c)
  <2> DEFINE A == {Added(c.i, t[2], t[3]) :
                     t \in {u \in perStatement : u[1] = c.i.byPassing /\ u[2][1] = c.i.n[1]}}
  <2>1. c.op = "reachable" /\ IF c.i \in atReturn THEN Return(c, <<>>) ELSE Return(c, <<A>>)
    BY <1>15 DEF OnReturnNodeReachable, Added
  <2>2. \A d : Makes(c, d) <=> c.i \notin atReturn /\ d \in A
    BY <2>1 DEF Makes
  <2> HIDE DEF A
  <2>3. CASE c.i \in atReturn
    BY <2>1, <2>2, <2>3, AfterReturn, EffectOf
  <2>4. CASE c.i \notin atReturn
    BY <2>1, <2>2, <2>4, AfterReturn, EffectOf
  <2> QED BY <2>3, <2>4
<1>16. CASE ImportFlowAtReturn(c)
  <2> DEFINE A == {Insert(c.i.flow, AsNode[c.i.byPassing], Epsilon)}
             B == {Import(c.i.byPassing, c.n, c.i.flow)}
             D == {FieldContext(c.i.flow, c.n)}
             E == {CallFlow(c.i.flow, c.i.n, c.n)}
  <2>1. c.op = "added" /\ IF c.l = Epsilon THEN Return(c, <<>>) ELSE Return(c, <<A, B, D, E>>)
    BY <1>16 DEF ImportFlowAtReturn, Import, CallFlow
  <2>2. \A d : Makes(c, d) <=> c.l # Epsilon /\ d \in A \cup B \cup D \cup E
    BY <2>1 DEF Makes
  <2> HIDE DEF A, B, D, E
  <2>3. CASE c.l = Epsilon
    BY <2>1, <2>2, <2>3, AfterReturn, EffectOf
  <2>4. CASE c.l # Epsilon
    BY <2>1, <2>2, <2>4, AfterReturn, EffectOf
  <2> QED BY <2>3, <2>4
<1>17. CASE UnbalancedReturnFlow(c)
  <2> DEFINE A == {ReturnSite(c.s, c.q, <<r, c.v>>) : r \in SuccsOf[c.s]}
  <2>1. c.op = "unbalanced" /\ Return(c, <<A>>)
    BY <1>17 DEF UnbalancedReturnFlow, ReturnSites, ReturnSite
  <2>2. \A d : d \in A <=> Makes(c, d)
    BY <2>1 DEF Makes
  <2> HIDE DEF A
  <2> QED BY <2>1, <2>2, AfterReturn, EffectOf
<1>18. CASE UnbalancedReturnSite(c)
  <2> DEFINE A == {CallContext(c.q, c.n)}
             B == {ReturnsFromCall(c.s, c.q, c.n)}
  <2>1. c.op = "returnSite" /\ Return(c, <<A, B>>)
    BY <1>18 DEF UnbalancedReturnSite
  <2>2. \A d : d \in A \cup B <=> Makes(c, d)
    BY <2>1 DEF Makes
  <2> HIDE DEF A, B
  <2> QED BY <2>1, <2>2, AfterReturn, EffectOf
<1> QED BY <1>1, <1>2, <1>3, <1>4, <1>5, <1>6, <1>7, <1>8, <1>9, <1>10, <1>11, <1>12, <1>13, <1>14,
           <1>15, <1>16, <1>17, <1>18 DEF CallStep

\* What a call does to the solvers' state.
LEMMA CallFrame ==
    ASSUME NEW c, CallStep(c)
    PROVE  /\ solved' = IF c.op = "solve" THEN solved \cup {c.q} ELSE solved
           /\ fieldTrans' = IF c.op = "insert" THEN fieldTrans \cup {<<c.q, c.n, c.l>>} ELSE fieldTrans
           /\ perStatement' = IF c.op = "record" THEN perStatement \cup {<<c.q, c.n, c.l>>} ELSE perStatement
           /\ importers' = IF c.op = "import" THEN importers \cup {<<c.q, c.n, c.flow>>} ELSE importers
           /\ fieldContextReachable' = IF c.op = "fieldContext"
                THEN fieldContextReachable \cup {<<c.q, c.n>>} ELSE fieldContextReachable
           /\ callingContextReachable' = IF c.op = "callContext"
                THEN callingContextReachable \cup {<<c.q, c.n>>} ELSE callingContextReachable
           /\ callRules' = IF c.op = "callFlow" THEN callRules \cup {<<c.q, c.n, c.succ>>} ELSE callRules
           /\ reachedStates' = IF c.op = "process" THEN reachedStates \cup {<<c.q, c.n>>} ELSE reachedStates
           /\ returnsFromCall' = IF c.op = "returns" /\ c.n[2] \notin StaticVal
                THEN returnsFromCall \cup {<<c.s, c.q, c.n>>} ELSE returnsFromCall
           /\ byPassingAllocations' = IF c.op = "byPass"
                THEN byPassingAllocations \cup {<<c.s, c.q>>} ELSE byPassingAllocations
           /\ onReturn' = IF c.op = "eachPair" /\ c.i.byPassing # c.i.flow
                THEN onReturn \cup {c.i} ELSE onReturn
           /\ atReturn' = IF c.op = "reachable" THEN atReturn \cup {c.i} ELSE atReturn
           /\ paired' = IF c.op = "eachPair" THEN paired \cup {c.i} ELSE paired
<1> USE DEF data, automata, contexts, sites, listeners, pairs
<1>1. CASE Solve(c)
  BY <1>1 DEF Solve
<1>2. CASE InsertTransition(c)
  BY <1>2 DEF InsertTransition
<1>3. CASE AddTransitionToStatement(c)
  BY <1>3 DEF AddTransitionToStatement
<1>4. CASE Notify(c) \/ ApplyCallRules(c) \/ NotifyReached(c)
  BY <1>4 DEF Notify, ApplyCallRules, NotifyReached
<1>5. CASE RegisterImporter(c)
  BY <1>5 DEF RegisterImporter
<1>6. CASE SetFieldContextReachable(c)
  BY <1>6 DEF SetFieldContextReachable
<1>7. CASE SetCallingContextReachable(c)
  BY <1>7 DEF SetCallingContextReachable
<1>8. CASE AddNormalCallFlow(c)
  BY <1>8 DEF AddNormalCallFlow
<1>9. CASE ProcessNode(c)
  BY <1>9 DEF ProcessNode
<1>10. CASE AddReturn(c)
  BY <1>10 DEF AddReturn
<1>11. CASE AddByPassingAllocation(c)
  BY <1>11 DEF AddByPassingAllocation
<1>12. CASE RegisterPair(c)
  BY <1>12 DEF RegisterPair
<1>13. CASE OnReturnNodeReachable(c)
  BY <1>13 DEF OnReturnNodeReachable
<1>14. CASE ImportFlowAtReturn(c) \/ UnbalancedReturnFlow(c) \/ UnbalancedReturnSite(c)
  BY <1>14 DEF ImportFlowAtReturn, UnbalancedReturnFlow, UnbalancedReturnSite
<1> QED BY <1>1, <1>2, <1>3, <1>4, <1>5, <1>6, <1>7, <1>8, <1>9, <1>10, <1>11, <1>12, <1>13, <1>14
        DEF CallStep

\* Whatever is done stays done, and a call that is of that kind has done it.
LEMMA DoneStays ==
    ASSUME NEW c, CallStep(c), NEW d, Done(d)
    PROVE  Done(d)'
BY CallFrame DEF Done

Lasting == {"solve", "insert", "record", "import", "fieldContext", "callContext", "callFlow",
            "process", "returns", "byPass", "reachable"}

LEMMA DoneBy ==
    ASSUME NEW c, CallStep(c), c.op \in Lasting
    PROVE  Done(c)'
BY CallFrame DEF Done, Lasting

LEMMA AskedStays ==
    ASSUME PairInv, NEW c \in Innermost, CallStep(c), NEW d, d.op \in Lasting, Asked(d)
    PROVE  Asked(d)'
<1>1. CASE Done(d)
  BY <1>1, DoneStays DEF Asked
<1>2. CASE d = c
  BY <1>2, DoneBy DEF Asked
<1>3. CASE Pending(d) /\ d # c
  BY <1>3, CallEffect DEF Effect, Asked
<1> QED BY <1>1, <1>2, <1>3 DEF Asked

LEMMA AskedKinds ==
    /\ \A q, n, l : Insert(q, n, l).op \in Lasting /\ Record(q, n, l).op \in Lasting
    /\ \A q, n : /\ FieldContext(q, n).op \in Lasting /\ CallContext(q, n).op \in Lasting
                 /\ Process(q, n).op \in Lasting
    /\ \A q, n, m : Import(q, n, m).op \in Lasting /\ CallFlow(q, n, m).op \in Lasting
    /\ \A s, q, n : ReturnsFromCall(s, q, n).op \in Lasting
    /\ \A p : Reachable(p).op \in Lasting
BY DEF Lasting, Insert, Record, FieldContext, CallContext, Process, Import, CallFlow,
       ReturnsFromCall, Reachable

\* What Done says of each kind of call.
LEMMA DoneKinds ==
    /\ \A q, n, l : /\ Done(Insert(q, n, l)) <=> <<q, n, l>> \in fieldTrans
                    /\ Done(Record(q, n, l)) <=> <<q, n, l>> \in perStatement
    /\ \A q, n : /\ Done(FieldContext(q, n)) <=> <<q, n>> \in fieldContextReachable
                 /\ Done(CallContext(q, n)) <=> <<q, n>> \in callingContextReachable
                 /\ Done(Process(q, n)) <=> <<q, n>> \in reachedStates
    /\ \A q, n, m : /\ Done(Import(q, n, m)) <=> <<q, n, m>> \in importers
                    /\ Done(CallFlow(q, n, m)) <=> <<q, n, m>> \in callRules
    /\ \A s, q, n : Done(ReturnsFromCall(s, q, n))
                      <=> n[2] \in StaticVal \/ <<s, q, n>> \in returnsFromCall
    /\ \A s, q : Done(AddByPassing(s, q)) <=> <<s, q>> \in byPassingAllocations
    /\ \A p : Done(Reachable(p)) <=> p \in atReturn
BY DEF Done, Insert, Record, FieldContext, CallContext, Process, Import, CallFlow,
       ReturnsFromCall, AddByPassing, Reachable

LEMMA MadeAsked ==
    ASSUME PairInv, NEW c \in Innermost, CallStep(c), NEW d, Makes(c, d)
    PROVE  Pending(d)' /\ Asked(d)'
BY CallEffect DEF Effect, Asked

LEMMA StillPending ==
    ASSUME PairInv, NEW c \in Innermost, CallStep(c), NEW d, Pending(d), d # c
    PROVE  Pending(d)'
BY CallEffect DEF Effect

LEMMA SolvesHeededAfter ==
    ASSUME PairInv, SolvesHeeded, NEW c \in Innermost, CallStep(c)
    PROVE  SolvesHeeded'
<1> SUFFICES ASSUME NEW q \in solved'
             PROVE  /\ Asked(Insert(q, StartsAt[q], EmptyField))'
                    /\ Asked(CallContext(q, StartsAt[q]))'
  BY DEF SolvesHeeded
<1>1. CASE q \in solved
  <2>1. Asked(Insert(q, StartsAt[q], EmptyField)) /\ Asked(CallContext(q, StartsAt[q]))
    BY <1>1 DEF SolvesHeeded
  <2> QED BY <2>1, AskedStays, AskedKinds
<1>2. CASE q \notin solved
  <2>1. c.op = "solve" /\ c.q = q
    BY <1>2, CallFrame
  <2>2. Makes(c, Insert(q, StartsAt[q], EmptyField)) /\ Makes(c, CallContext(q, StartsAt[q]))
    BY <2>1 DEF Makes
  <2> QED BY <2>2, MadeAsked
<1> QED BY <1>1, <1>2

LEMMA InsertsHeededAfter ==
    ASSUME PairInv, InsertsHeeded, NEW c \in Innermost, CallStep(c)
    PROVE  InsertsHeeded'
<1> SUFFICES ASSUME NEW q \in Query, NEW n \in Node, NEW l \in Label, <<q, n, l>> \in fieldTrans'
             PROVE  Asked(FieldContext(q, n))' /\ Asked(Record(q, n, l))'
  BY DEF InsertsHeeded
<1>1. CASE <<q, n, l>> \in fieldTrans
  <2>1. Asked(FieldContext(q, n)) /\ Asked(Record(q, n, l))
    BY <1>1 DEF InsertsHeeded
  <2> QED BY <2>1, AskedStays, AskedKinds
<1>2. CASE <<q, n, l>> \notin fieldTrans
  <2>1. c.op = "insert" /\ c.q = q /\ c.n = n /\ c.l = l
    BY <1>2, CallFrame
  <2>2. Makes(c, FieldContext(q, n)) /\ Makes(c, Record(q, n, l))
    BY <1>2, <2>1 DEF Makes
  <2> QED BY <2>2, MadeAsked
<1> QED BY <1>1, <1>2

LEMMA ImportersHeededAfter ==
    ASSUME PairInv, ImportersHeeded, NEW c \in Innermost, CallStep(c)
    PROVE  ImportersHeeded'
<1> SUFFICES ASSUME NEW q \in Query, NEW n \in Node, NEW l \in Label, NEW f \in Query,
                    <<q, n, l>> \in fieldTrans', <<q, n, f>> \in importers'
             PROVE  Asked(Insert(f, n, l))' \/ Pending(NotifyOf(q, n, l))'
  BY DEF ImportersHeeded
<1>1. CASE <<q, n, l>> \notin fieldTrans
  <2>1. c.op = "insert" /\ c.q = q /\ c.n = n /\ c.l = l
    BY <1>1, CallFrame
  <2>2. Makes(c, NotifyOf(q, n, l))
    BY <1>1, <2>1 DEF Makes
  <2> QED BY <2>2, MadeAsked
<1>2. CASE <<q, n, l>> \in fieldTrans /\ <<q, n, f>> \notin importers
  <2>1. c.op = "import" /\ c.q = q /\ c.n = n /\ c.flow = f
    BY <1>2, CallFrame
  <2>2. PICK t \in fieldTrans : t[1] = q /\ t[2] = n /\ t[3] = l
    BY <1>2
  <2>3. Makes(c, Insert(f, n, l))
    BY <1>2, <2>1, <2>2 DEF Makes
  <2> QED BY <2>3, MadeAsked
<1>3. CASE <<q, n, l>> \in fieldTrans /\ <<q, n, f>> \in importers
  <2>1. CASE Asked(Insert(f, n, l))
    BY <2>1, AskedStays, AskedKinds
  <2>2. CASE Pending(NotifyOf(q, n, l)) /\ c # NotifyOf(q, n, l)
    BY <2>2, StillPending
  <2>3. CASE c = NotifyOf(q, n, l)
    <3>1. c.op = "notify" /\ c.q = q /\ c.n = n /\ c.l = l
      BY <2>3 DEF NotifyOf
    <3>2. PICK i \in importers : i[1] = q /\ i[2] = n /\ i[3] = f
      BY <1>3
    <3>3. Makes(c, Insert(f, n, l))
      BY <3>1, <3>2 DEF Makes
    <3> QED BY <3>3, MadeAsked
  <2> QED BY <1>3, <2>1, <2>2, <2>3 DEF ImportersHeeded
<1> QED BY <1>1, <1>2, <1>3

LEMMA ContextsHeededAfter ==
    ASSUME PairInv, ContextsHeeded, NEW c \in Innermost, CallStep(c)
    PROVE  ContextsHeeded'
<1> SUFFICES ASSUME NEW q \in Query, NEW n \in Node, <<q, n>> \in fieldContextReachable',
                    <<q, n>> \in callingContextReachable'
             PROVE  Asked(Process(q, n))'
  BY DEF ContextsHeeded
<1>1. CASE <<q, n>> \in fieldContextReachable /\ <<q, n>> \in callingContextReachable
  BY <1>1, AskedStays, AskedKinds DEF ContextsHeeded
<1>2. CASE <<q, n>> \notin fieldContextReachable
  <2>1. c.op = "fieldContext" /\ c.q = q /\ c.n = n /\ <<q, n>> \in callingContextReachable
    BY <1>2, CallFrame
  <2>2. Makes(c, Process(q, n))
    BY <1>2, <2>1 DEF Makes
  <2> QED BY <2>2, MadeAsked
<1>3. CASE <<q, n>> \notin callingContextReachable
  <2>1. c.op = "callContext" /\ c.q = q /\ c.n = n /\ <<q, n>> \in fieldContextReachable
    BY <1>3, CallFrame
  <2>2. Makes(c, Process(q, n))
    BY <1>3, <2>1 DEF Makes
  <2> QED BY <2>2, MadeAsked
<1> QED BY <1>1, <1>2, <1>3

LEMMA CallRulesHeededAfter ==
    ASSUME PairInv, CallRulesHeeded, NEW c \in Innermost, CallStep(c)
    PROVE  CallRulesHeeded'
<1> SUFFICES ASSUME NEW q \in Query, NEW n \in Node, NEW m \in Node,
                    <<q, n, m>> \in callRules', <<q, n>> \in callingContextReachable'
             PROVE  Asked(CallContext(q, m))' \/ Pending(CallRules(q, n))'
  BY DEF CallRulesHeeded
<1>1. CASE <<q, n>> \notin callingContextReachable
  <2>1. c.op = "callContext" /\ c.q = q /\ c.n = n
    BY <1>1, CallFrame
  <2>2. Makes(c, CallRules(q, n))
    BY <1>1, <2>1 DEF Makes
  <2> QED BY <2>2, MadeAsked
<1>2. CASE <<q, n>> \in callingContextReachable /\ <<q, n, m>> \notin callRules
  <2>1. c.op = "callFlow" /\ c.q = q /\ c.n = n /\ c.succ = m
    BY <1>2, CallFrame
  <2>2. Makes(c, CallContext(q, m))
    BY <1>2, <2>1 DEF Makes
  <2> QED BY <2>2, MadeAsked
<1>3. CASE <<q, n>> \in callingContextReachable /\ <<q, n, m>> \in callRules
  <2>1. CASE Asked(CallContext(q, m))
    BY <2>1, AskedStays, AskedKinds
  <2>2. CASE Pending(CallRules(q, n)) /\ c # CallRules(q, n)
    BY <2>2, StillPending
  <2>3. CASE c = CallRules(q, n)
    <3>1. c.op = "callRules" /\ c.q = q /\ c.n = n
      BY <2>3 DEF CallRules
    <3>2. PICK r \in callRules : r[1] = q /\ r[2] = n /\ r[3] = m
      BY <1>3
    <3>3. Makes(c, CallContext(q, m))
      BY <3>1, <3>2 DEF Makes
    <3> QED BY <3>3, MadeAsked
  <2> QED BY <1>3, <2>1, <2>2, <2>3 DEF CallRulesHeeded
<1> QED BY <1>1, <1>2, <1>3

LEMMA SiteAskedStays ==
    ASSUME PairInv, NEW c \in Innermost, CallStep(c), NEW s, NEW q, NEW n, SiteAsked(s, q, n)
    PROVE  SiteAsked(s, q, n)'
<1>1. CASE Asked(CallContext(q, n)) /\ Asked(ReturnsFromCall(s, q, n))
  <2>1. Asked(CallContext(q, n))' /\ Asked(ReturnsFromCall(s, q, n))'
    BY <1>1, AskedStays, AskedKinds
  <2> QED BY <2>1 DEF SiteAsked
<1>2. CASE Pending(ReturnSite(s, q, n)) /\ c # ReturnSite(s, q, n)
  BY <1>2, StillPending DEF SiteAsked
<1>3. CASE c = ReturnSite(s, q, n)
  <2>1. c.op = "returnSite" /\ c.s = s /\ c.q = q /\ c.n = n
    BY <1>3 DEF ReturnSite
  <2>2. Makes(c, CallContext(q, n)) /\ Makes(c, ReturnsFromCall(s, q, n))
    BY <2>1 DEF Makes
  <2>3. Asked(CallContext(q, n))' /\ Asked(ReturnsFromCall(s, q, n))'
    BY <2>2, MadeAsked
  <2> QED BY <2>3 DEF SiteAsked
<1> QED BY <1>1, <1>2, <1>3 DEF SiteAsked

LEMMA FoundKinds ==
    ASSUME NEW d \in FoundCall
    PROVE  d.op = "unbalanced" \/ d.op \in Lasting
BY DEF FoundCall, Lasting

LEMMA FoundAskedStays ==
    ASSUME PairInv, NEW c \in Innermost, CallStep(c), NEW d \in FoundCall, FoundAsked(d)
    PROVE  FoundAsked(d)'
<1>1. CASE d.op # "unbalanced"
  <2>1. d.op \in Lasting /\ Asked(d)
    BY <1>1, FoundKinds DEF FoundAsked
  <2>2. Asked(d)'
    BY <2>1, AskedStays
  <2> QED BY <1>1, <2>2 DEF FoundAsked
<1>2. CASE d.op = "unbalanced" /\ \A r \in SuccsOf[d.s] : SiteAsked(d.s, d.q, <<r, d.v>>)
  <2>1. \A r \in SuccsOf[d.s] : SiteAsked(d.s, d.q, <<r, d.v>>)'
    BY <1>2, SiteAskedStays
  <2> QED BY <1>2, <2>1 DEF FoundAsked
<1>3. CASE d.op = "unbalanced" /\ Pending(d) /\ d # c
  <2>1. Pending(d)'
    BY <1>3, StillPending
  <2> QED BY <1>3, <2>1 DEF FoundAsked
<1>4. CASE d.op = "unbalanced" /\ d = c
  <2>1. \A r \in SuccsOf[d.s] : Makes(c, ReturnSite(d.s, d.q, <<r, d.v>>))
    BY <1>4 DEF Makes
  <2>2. \A r \in SuccsOf[d.s] : Pending(ReturnSite(d.s, d.q, <<r, d.v>>))'
    BY <2>1, MadeAsked
  <2>3. \A r \in SuccsOf[d.s] : SiteAsked(d.s, d.q, <<r, d.v>>)'
    BY <2>2 DEF SiteAsked
  <2> QED BY <1>4, <2>3 DEF FoundAsked
<1> QED BY <1>1, <1>2, <1>3, <1>4 DEF FoundAsked

\* The calls of a processed node are of the kinds given.
LEMMA NodeCalls ==
    ASSUME NEW q \in Query, NEW n \in Node, NEW d \in EnterCall(q, n) \cup Found(q, n)
    PROVE  d \in FoundCall
<1>1. Found(q, n) \subseteq FoundCall
  BY CallSitesAssumption
<1>2. n[1] \in Stmt
  BY DEF Node
<1>3. EnterCall(q, n) \subseteq FoundCall
  BY <1>2 DEF EnterCall, FoundCall, AddByPassing, ReturnsFromCall
<1> QED BY <1>1, <1>3

LEMMA NodesHeededAfter ==
    ASSUME PairInv, NodesHeeded, NEW c \in Innermost, CallStep(c)
    PROVE  NodesHeeded'
<1> SUFFICES ASSUME NEW q \in Query, NEW n \in Node, <<q, n>> \in reachedStates',
                    NEW d \in EnterCall(q, n) \cup Found(q, n)
             PROVE  FoundAsked(d)'
  BY DEF NodesHeeded
<1>1. CASE <<q, n>> \in reachedStates
  <2>1. d \in FoundCall /\ FoundAsked(d)
    BY <1>1, NodeCalls DEF NodesHeeded
  <2> QED BY <2>1, FoundAskedStays
<1>2. CASE <<q, n>> \notin reachedStates
  <2>1. c.op = "process" /\ c.q = q /\ c.n = n
    BY <1>2, CallFrame
  <2>2. Makes(c, d)
    BY <1>2, <2>1 DEF Makes
  <2>3. Pending(d)' /\ Asked(d)'
    BY <2>2, MadeAsked
  <2> QED BY <2>3 DEF FoundAsked
<1> QED BY <1>1, <1>2

LEMMA PairsHeededAfter ==
    ASSUME PairInv, PairsHeeded, NEW c \in Innermost, CallStep(c)
    PROVE  PairsHeeded'
<1> SUFFICES ASSUME NEW p \in PairOf
             PROVE  /\ p \in paired' /\ p.byPassing # p.flow => p \in onReturn'
                    /\ p \in onReturn' /\ <<p.byPassing, p.n>> \in reachedStates'
                         => Asked(Reachable(p))' \/ Pending(ReachedNode(p.byPassing, p.n))'
  BY DEF PairsHeeded
<1>1. ASSUME p \in paired', p.byPassing # p.flow PROVE p \in onReturn'
  BY <1>1, CallFrame DEF PairsHeeded
<1>2. ASSUME p \in onReturn', <<p.byPassing, p.n>> \in reachedStates'
      PROVE  Asked(Reachable(p))' \/ Pending(ReachedNode(p.byPassing, p.n))'
  <2>1. CASE <<p.byPassing, p.n>> \notin reachedStates
    <3>1. c.op = "process" /\ c.q = p.byPassing /\ c.n = p.n
      BY <1>2, <2>1, CallFrame
    <3>2. Makes(c, ReachedNode(p.byPassing, p.n))
      BY <2>1, <3>1 DEF Makes
    <3> QED BY <3>2, MadeAsked
  <2>2. CASE <<p.byPassing, p.n>> \in reachedStates /\ p \notin onReturn
    <3>1. c.op = "eachPair" /\ c.i = p /\ p.byPassing # p.flow
      BY <1>2, <2>2, CallFrame
    <3>2. Makes(c, Reachable(p))
      BY <2>2, <3>1 DEF Makes
    <3> QED BY <3>2, MadeAsked
  <2>3. CASE <<p.byPassing, p.n>> \in reachedStates /\ p \in onReturn
    <3>1. CASE Asked(Reachable(p))
      BY <3>1, AskedStays, AskedKinds
    <3>2. CASE Pending(ReachedNode(p.byPassing, p.n)) /\ c # ReachedNode(p.byPassing, p.n)
      BY <3>2, StillPending
    <3>3. CASE c = ReachedNode(p.byPassing, p.n)
      <4>1. c.op = "reached" /\ c.q = p.byPassing /\ c.n = p.n
        BY <3>3 DEF ReachedNode
      <4>2. Makes(c, Reachable(p))
        BY <2>3, <4>1 DEF Makes
      <4> QED BY <4>2, MadeAsked
    <3> QED BY <2>3, <3>1, <3>2, <3>3 DEF PairsHeeded
  <2> QED BY <2>1, <2>2, <2>3
<1> QED BY <1>1, <1>2

LEMMA ReturnsHeededAfter ==
    ASSUME PairInv, ReturnsHeeded, NEW c \in Innermost, CallStep(c)
    PROVE  ReturnsHeeded'
<1> SUFFICES ASSUME NEW p \in PairOf, NEW n \in Node, NEW l \in Field, p \in atReturn',
                    <<p.byPassing, n, l>> \in perStatement', n[1] = p.n[1]
             PROVE  ImportAsked(p, n)' \/ Pending(Added(p, n, l))'
  BY DEF ReturnsHeeded
<1>1. CASE <<p.byPassing, n, l>> \notin perStatement
  <2>1. c.op = "record" /\ c.q = p.byPassing /\ c.n = n /\ c.l = l /\ p \in atReturn
    BY <1>1, CallFrame
  <2>2. Makes(c, Added(p, n, l))
    BY <2>1 DEF Makes
  <2> QED BY <2>2, MadeAsked
<1>2. CASE <<p.byPassing, n, l>> \in perStatement /\ p \notin atReturn
  <2>1. c.op = "reachable" /\ c.i = p
    BY <1>2, CallFrame
  <2>2. PICK t \in perStatement : t[1] = p.byPassing /\ t[2] = n /\ t[3] = l
    BY <1>2
  <2>3. Makes(c, Added(p, n, l))
    BY <1>2, <2>1, <2>2 DEF Makes
  <2> QED BY <2>3, MadeAsked
<1>3. CASE <<p.byPassing, n, l>> \in perStatement /\ p \in atReturn
  <2>1. CASE ImportAsked(p, n)
    <3>1. /\ Asked(Insert(p.flow, AsNode[p.byPassing], Epsilon))'
          /\ Asked(Import(p.byPassing, n, p.flow))'
          /\ Asked(CallFlow(p.flow, p.n, n))'
      BY <2>1, AskedStays, AskedKinds DEF ImportAsked
    <3> QED BY <3>1 DEF ImportAsked
  <2>2. CASE Pending(Added(p, n, l)) /\ c # Added(p, n, l)
    BY <2>2, StillPending
  <2>3. CASE c = Added(p, n, l)
    <3>1. c.op = "added" /\ c.i = p /\ c.n = n /\ c.l = l /\ l # Epsilon
      BY <2>3, CallSitesAssumption DEF Added
    <3>2. /\ Makes(c, Insert(p.flow, AsNode[p.byPassing], Epsilon))
          /\ Makes(c, Import(p.byPassing, n, p.flow))
          /\ Makes(c, CallFlow(p.flow, p.n, n))
      BY <3>1 DEF Makes
    <3>3. /\ Asked(Insert(p.flow, AsNode[p.byPassing], Epsilon))'
          /\ Asked(Import(p.byPassing, n, p.flow))'
          /\ Asked(CallFlow(p.flow, p.n, n))'
      BY <3>2, MadeAsked
    <3> QED BY <3>3 DEF ImportAsked
  <2> QED BY <1>3, <2>1, <2>2, <2>3 DEF ReturnsHeeded
<1> QED BY <1>1, <1>2, <1>3

LEMMA CallHeeded ==
    ASSUME PairInv, Heeded, NEW c \in Innermost, CallStep(c)
    PROVE  Heeded'
BY SolvesHeededAfter, InsertsHeededAfter, ImportersHeededAfter, ContextsHeededAfter,
   CallRulesHeededAfter, NodesHeededAfter, PairsHeededAfter, ReturnsHeededAfter DEF Heeded

\* Nothing follows from S that is not in it.
IsClosed(S) == S \in Findings /\ Extended(S) = S

IsLeast(x) ==
    /\ IsClosed(x) /\ solved \subseteq x.solved
    /\ \A S : IsClosed(S) /\ solved \subseteq S.solved =>
         /\ x.solved \subseteq S.solved /\ x.field \subseteq S.field
         /\ x.context \subseteq S.context /\ x.calls \subseteq S.calls
         /\ x.returns \subseteq S.returns /\ x.byPass \subseteq S.byPass

\* The pair is one of the pairs of S; it imports.
PairIn(S, p) == <<p.site, p.byPassing>> \in S.byPass /\ <<p.site, p.flow, p.n>> \in S.returns
ImportsIn(S, p) ==
    PairIn(S, p) /\ <<p.byPassing, p.n>> \in Reached(S) /\ p.byPassing # p.flow

\* The query f imports at n what q knows there; f comes from n to m.
Takes(S, q, n, f) == \A l \in Label : <<q, n, l>> \in S.field => <<f, n, l>> \in S.field
Leads(S, q, n, m) == <<q, n>> \in S.calls => <<q, m>> \in S.calls
Returns(S, s, q, n) == n[2] \in StaticVal \/ <<s, q, n>> \in S.returns

\* What a call does lies within S.
Implied(S, d) ==
    /\ d.op = "solve" => d.q \in S.solved
    /\ d.op \in {"insert", "record", "notify"} => <<d.q, d.n, d.l>> \in S.field
    /\ d.op = "import" => Takes(S, d.q, d.n, d.flow)
    /\ d.op = "fieldContext" => <<d.q, d.n>> \in S.context
    /\ d.op \in {"callContext", "callRules"} => <<d.q, d.n>> \in S.calls
    /\ d.op = "callFlow" => Leads(S, d.q, d.n, d.succ)
    /\ d.op \in {"process", "reached"} => <<d.q, d.n>> \in Reached(S)
    /\ d.op = "returns" => Returns(S, d.s, d.q, d.n)
    /\ d.op = "byPass" => <<d.s, d.q>> \in S.byPass
    /\ d.op = "eachPair" => PairIn(S, d.i)
    /\ d.op = "reachable" => ImportsIn(S, d.i)
    /\ d.op = "added" => /\ ImportsIn(S, d.i) /\ <<d.i.byPassing, d.n, d.l>> \in S.field
                         /\ d.n[1] = d.i.n[1]
    /\ d.op = "unbalanced" => \A r \in SuccsOf[d.s] : /\ <<d.q, <<r, d.v>>>> \in S.calls
                                                      /\ Returns(S, d.s, d.q, <<r, d.v>>)
    /\ d.op = "returnSite" => <<d.q, d.n>> \in S.calls /\ Returns(S, d.s, d.q, d.n)

\* What the solvers know lies within S.
Within(S) ==
    /\ fieldTrans \subseteq S.field /\ perStatement \subseteq S.field
    /\ fieldContextReachable \subseteq S.context /\ callingContextReachable \subseteq S.calls
    /\ reachedStates \subseteq Reached(S)
    /\ returnsFromCall \subseteq S.returns /\ byPassingAllocations \subseteq S.byPass
    /\ \A i \in importers : Takes(S, i[1], i[2], i[3])
    /\ \A r \in callRules : Leads(S, r[1], r[2], r[3])
    /\ \A p \in onReturn : PairIn(S, p) /\ p.byPassing # p.flow
    /\ \A p \in atReturn : ImportsIn(S, p)

\* S is closed, and holds the queries solved and those about to be.
Bounds(S) ==
    /\ IsClosed(S) /\ solved \subseteq S.solved
    /\ \A q \in Query : Pending(SolveFor(q)) => q \in S.solved

Followed == \A S : Bounds(S) => Within(S) /\ \A d : Pending(d) => Implied(S, d)

LEMMA Couple ==
    ASSUME NEW A, NEW B, NEW a \in A, NEW b \in B
    PROVE  \E y \in A \X B : y[1] = a /\ y[2] = b
<1>1. <<a, b>> \in A \X B /\ <<a, b>>[1] = a /\ <<a, b>>[2] = b
  OBVIOUS
<1> QED BY <1>1

\* What it means for a set of findings to be closed, one thing at a time.
LEMMA ClosedSolves ==
    ASSUME NEW S, IsClosed(S), NEW q \in S.solved
    PROVE  <<q, StartsAt[q], EmptyField>> \in S.field /\ <<q, StartsAt[q]>> \in S.calls
<1>1. NewFields(S) \subseteq S.field /\ NewCalls(S) \subseteq S.calls
  BY DEF IsClosed, Extended, Findings
<1>2. <<q, StartsAt[q], EmptyField>> \in NewFields(S)
  BY DEF NewFields
<1>3. <<q, StartsAt[q]>> \in NewCalls(S)
  BY DEF NewCalls
<1> QED BY <1>1, <1>2, <1>3

LEMMA ClosedContexts ==
    ASSUME NEW S, IsClosed(S), NEW q, NEW n, NEW l, <<q, n, l>> \in S.field
    PROVE  <<q, n>> \in S.context
<1>1. {<<t[1], t[2]>> : t \in S.field} \subseteq S.context
  BY DEF IsClosed, Extended, Findings
<1>2. PICK t \in S.field : t[1] = q /\ t[2] = n
  OBVIOUS
<1> QED BY <1>1, <1>2

LEMMA ClosedCalls ==
    ASSUME NEW S, IsClosed(S), NEW q \in Query, NEW n \in Node, <<q, n>> \in Reached(S),
           NEW d \in EnterCall(q, n) \cup Found(q, n)
    PROVE  Implied(S, d)
<1>1. /\ NewFields(S) \subseteq S.field /\ NewCalls(S) \subseteq S.calls
      /\ NewReturns(S) \subseteq S.returns /\ {c.q : c \in Of("solve", S)} \subseteq S.solved
      /\ {<<c.s, c.q>> : c \in Of("byPass", S)} \subseteq S.byPass
  BY DEF IsClosed, Extended, Findings
<1>2. d \in FoundCall /\ d \in Calls(S)
  <2>1. PICK y \in Reached(S) : y[1] = q /\ y[2] = n
    OBVIOUS
  <2>2. d \in Found(y[1], y[2]) \cup EnterCall(y[1], y[2])
    BY <2>1
  <2> QED BY <2>2, NodeCalls DEF Calls
<1>3. d \in Of(d.op, S)
  BY <1>2 DEF Of
<1>4. CASE d.op = "solve"
  BY <1>1, <1>3, <1>4 DEF Implied
<1>5. CASE d.op = "insert"
  <2>1. <<d.q, d.n, d.l>> \in NewFields(S)
    BY <1>3, <1>5 DEF NewFields
  <2> QED BY <1>1, <1>5, <2>1 DEF Implied
<1>6. CASE d.op = "callContext"
  <2>1. <<d.q, d.n>> \in NewCalls(S)
    BY <1>3, <1>6 DEF NewCalls
  <2> QED BY <1>1, <1>6, <2>1 DEF Implied
<1>7. CASE d.op = "returns"
  <2>1. Returns(S, d.s, d.q, d.n)
    <3>1. <<d.s, d.q, d.n>>[3] = d.n
      OBVIOUS
    <3>2. d.n[2] \notin StaticVal => <<d.s, d.q, d.n>> \in NewReturns(S)
      BY <1>3, <1>7, <3>1 DEF NewReturns, Nonstatic
    <3> QED BY <1>1, <3>2 DEF Returns
  <2> QED BY <1>7, <2>1 DEF Implied
<1>8. CASE d.op = "byPass"
  BY <1>1, <1>3, <1>8 DEF Implied
<1>9. CASE d.op = "unbalanced"
  <2>1. ASSUME NEW r \in SuccsOf[d.s]
        PROVE  <<d.q, <<r, d.v>>>> \in S.calls /\ Returns(S, d.s, d.q, <<r, d.v>>)
    <3> DEFINE u == <<d.s, d.q, <<r, d.v>>>>
    <3>1. d.s \in Stmt /\ r \in Stmt
      BY <1>2, <1>9, CallSitesAssumption DEF FoundCall
    <3>2. PICK y \in Of("unbalanced", S) \X Stmt : y[1] = d /\ y[2] = r
      BY <1>3, <1>9, <3>1, Couple
    <3>3. u \in UnbalancedReturns(S)
      BY <3>2 DEF UnbalancedReturns
    <3>4. u[2] = d.q /\ u[3] = <<r, d.v>>
      OBVIOUS
    <3> HIDE DEF u
    <3>5. <<u[2], u[3]>> \in NewCalls(S)
      BY <3>3 DEF NewCalls
    <3>6. u[3][2] \notin StaticVal => u \in NewReturns(S)
      BY <3>3 DEF NewReturns, Nonstatic
    <3> QED BY <1>1, <3>4, <3>5, <3>6 DEF Returns, u
  <2> QED BY <1>9, <2>1 DEF Implied
<1> QED BY <1>2, <1>4, <1>5, <1>6, <1>7, <1>8, <1>9 DEF FoundCall

LEMMA ClosedImports ==
    ASSUME NEW S, IsClosed(S), NEW p \in PairOf, ImportsIn(S, p), NEW n \in Node,
           n[1] = p.n[1], NEW k \in Field, <<p.byPassing, n, k>> \in S.field
    PROVE  /\ <<p.flow, AsNode[p.byPassing], Epsilon>> \in S.field
           /\ Takes(S, p.byPassing, n, p.flow)
           /\ Leads(S, p.flow, p.n, n)
<1>1. NewFields(S) \subseteq S.field /\ NewCalls(S) \subseteq S.calls
  BY DEF IsClosed, Extended, Findings
<1>2. p \in PairsOf(S.returns, S.byPass)
  <2>1. PICK z \in S.returns \X S.byPass :
           z[1][1] = p.site /\ z[1][2] = p.flow /\ z[1][3] = p.n /\ z[2][1] = p.site /\ z[2][2] = p.byPassing
    <3>1. PICK a \in S.returns : a = <<p.site, p.flow, p.n>>
      BY DEF ImportsIn, PairIn
    <3>2. PICK b \in S.byPass : b = <<p.site, p.byPassing>>
      BY DEF ImportsIn, PairIn
    <3>3. <<a, b>> \in S.returns \X S.byPass /\ <<a, b>>[1] = a /\ <<a, b>>[2] = b
      OBVIOUS
    <3>4. PICK z \in S.returns \X S.byPass : z[1] = a /\ z[2] = b
      BY <3>3
    <3>5. a[1] = p.site /\ a[2] = p.flow /\ a[3] = p.n /\ b[1] = p.site /\ b[2] = p.byPassing
      BY <3>1, <3>2
    <3> QED BY <3>4, <3>5
  <2>2. p = Pair(z[1][1], z[2][2], z[1][2], z[1][3])
    BY <2>1 DEF Pair, PairOf
  <2>3. z \in {y \in S.returns \X S.byPass : y[1][1] = y[2][1]}
    BY <2>1
  <2> QED BY <2>2, <2>3 DEF PairsOf
<1>3. PICK i \in PairsOf(S.returns, S.byPass) \X Node : i[1] = p /\ i[2] = n
  BY <1>2, Couple
<1>4. i \in Imports(S)
  BY <1>3 DEF Imports, ImportsIn
<1>5. <<p.flow, AsNode[p.byPassing], Epsilon>> \in NewFields(S)
  BY <1>3, <1>4 DEF NewFields
<1>6. ASSUME NEW l \in Label, <<p.byPassing, n, l>> \in S.field
      PROVE  <<p.flow, n, l>> \in NewFields(S)
  <2>1. PICK y \in Imports(S) \X S.field :
          y[1] = i /\ y[2][1] = p.byPassing /\ y[2][2] = n /\ y[2][3] = l
    <3>1. PICK t \in S.field : t = <<p.byPassing, n, l>>
      BY <1>6
    <3>2. <<i, t>> \in Imports(S) \X S.field /\ <<i, t>>[1] = i /\ <<i, t>>[2] = t
      BY <1>4
    <3>3. PICK y \in Imports(S) \X S.field : y[1] = i /\ y[2] = t
      BY <3>2
    <3>4. t[1] = p.byPassing /\ t[2] = n /\ t[3] = l
      BY <3>1
    <3> QED BY <3>3, <3>4
  <2> QED BY <1>3, <2>1 DEF NewFields
<1>7. ASSUME <<p.flow, p.n>> \in S.calls PROVE <<p.flow, n>> \in NewCalls(S)
  BY <1>3, <1>4, <1>7 DEF NewCalls
<1> QED BY <1>1, <1>5, <1>6, <1>7 DEF Takes, Leads

\* What Implied says of each kind of call.
LEMMA ImpliedKinds ==
    ASSUME NEW S
    PROVE  /\ \A q, n, l : /\ Implied(S, Insert(q, n, l)) <=> <<q, n, l>> \in S.field
                           /\ Implied(S, Record(q, n, l)) <=> <<q, n, l>> \in S.field
                           /\ Implied(S, NotifyOf(q, n, l)) <=> <<q, n, l>> \in S.field
           /\ \A q, n : /\ Implied(S, FieldContext(q, n)) <=> <<q, n>> \in S.context
                        /\ Implied(S, CallContext(q, n)) <=> <<q, n>> \in S.calls
                        /\ Implied(S, CallRules(q, n)) <=> <<q, n>> \in S.calls
                        /\ Implied(S, Process(q, n)) <=> <<q, n>> \in Reached(S)
                        /\ Implied(S, ReachedNode(q, n)) <=> <<q, n>> \in Reached(S)
           /\ \A q, n, f : Implied(S, Import(q, n, f)) <=> Takes(S, q, n, f)
           /\ \A q, n, m : Implied(S, CallFlow(q, n, m)) <=> Leads(S, q, n, m)
           /\ \A s, q, n : /\ Implied(S, ReturnsFromCall(s, q, n)) <=> Returns(S, s, q, n)
                           /\ Implied(S, ReturnSite(s, q, n))
                                <=> <<q, n>> \in S.calls /\ Returns(S, s, q, n)
           /\ \A p : /\ Implied(S, PairCall(p)) <=> PairIn(S, p)
                     /\ Implied(S, Reachable(p)) <=> ImportsIn(S, p)
           /\ \A p, n, l : Implied(S, Added(p, n, l))
                <=> /\ ImportsIn(S, p) /\ <<p.byPassing, n, l>> \in S.field
                    /\ n[1] = p.n[1]
           /\ \A q : Implied(S, SolveFor(q)) <=> q \in S.solved
<1>1. \A q, n, l : /\ Implied(S, Insert(q, n, l)) <=> <<q, n, l>> \in S.field
                   /\ Implied(S, Record(q, n, l)) <=> <<q, n, l>> \in S.field
                   /\ Implied(S, NotifyOf(q, n, l)) <=> <<q, n, l>> \in S.field
  BY DEF Implied, Insert, Record, NotifyOf
<1>2. \A q, n : /\ Implied(S, FieldContext(q, n)) <=> <<q, n>> \in S.context
                /\ Implied(S, CallContext(q, n)) <=> <<q, n>> \in S.calls
                /\ Implied(S, CallRules(q, n)) <=> <<q, n>> \in S.calls
  BY DEF Implied, FieldContext, CallContext, CallRules
<1>3. \A q, n : /\ Implied(S, Process(q, n)) <=> <<q, n>> \in Reached(S)
                /\ Implied(S, ReachedNode(q, n)) <=> <<q, n>> \in Reached(S)
  BY DEF Implied, Process, ReachedNode
<1>4. \A q, n, f : Implied(S, Import(q, n, f)) <=> Takes(S, q, n, f)
  BY DEF Implied, Import
<1>5. \A q, n, m : Implied(S, CallFlow(q, n, m)) <=> Leads(S, q, n, m)
  BY DEF Implied, CallFlow
<1>6. \A s, q, n : /\ Implied(S, ReturnsFromCall(s, q, n)) <=> Returns(S, s, q, n)
                   /\ Implied(S, ReturnSite(s, q, n))
                        <=> <<q, n>> \in S.calls /\ Returns(S, s, q, n)
  BY DEF Implied, ReturnsFromCall, ReturnSite
<1>7. \A p : /\ Implied(S, PairCall(p)) <=> PairIn(S, p)
             /\ Implied(S, Reachable(p)) <=> ImportsIn(S, p)
  BY DEF Implied, PairCall, Reachable
<1>8. \A p, n, l : Implied(S, Added(p, n, l))
        <=> /\ ImportsIn(S, p) /\ <<p.byPassing, n, l>> \in S.field
            /\ n[1] = p.n[1]
  BY DEF Implied, Added
<1>9. \A q : Implied(S, SolveFor(q)) <=> q \in S.solved
  BY DEF Implied, SolveFor
<1> QED BY <1>1, <1>2, <1>3, <1>4, <1>5, <1>6, <1>7, <1>8, <1>9

\* From within a closed set no call leads out.
LEMMA CallImplies ==
    ASSUME PairInv, NEW S, IsClosed(S), Within(S), NEW c \in Call, Implied(S, c),
           NEW d, Makes(c, d)
    PROVE  Implied(S, d)
<1>1. /\ fieldTrans \subseteq S.field /\ perStatement \subseteq S.field
      /\ fieldContextReachable \subseteq S.context /\ callingContextReachable \subseteq S.calls
      /\ reachedStates \subseteq Reached(S)
      /\ returnsFromCall \subseteq S.returns /\ byPassingAllocations \subseteq S.byPass
  BY DEF Within
<1>2. DataOK
  BY DEF PairInv, TypeOK
<1>3. CASE c.op = "solve"
  <2>1. c.q \in S.solved
    BY <1>3 DEF Implied
  <2>2. d \in {Insert(c.q, StartsAt[c.q], EmptyField), CallContext(c.q, StartsAt[c.q])}
    BY <1>3 DEF Makes
  <2>3. <<c.q, StartsAt[c.q], EmptyField>> \in S.field /\ <<c.q, StartsAt[c.q]>> \in S.calls
    BY <2>1, ClosedSolves
  <2> QED BY <2>2, <2>3, ImpliedKinds
<1>4. CASE c.op = "insert"
  <2>1. <<c.q, c.n, c.l>> \in S.field
    BY <1>4 DEF Implied
  <2>2. d \in {FieldContext(c.q, c.n), Record(c.q, c.n, c.l), NotifyOf(c.q, c.n, c.l)}
    BY <1>4 DEF Makes
  <2>3. <<c.q, c.n>> \in S.context
    BY <2>1, ClosedContexts
  <2> QED BY <2>1, <2>2, <2>3, ImpliedKinds
<1>5. CASE c.op = "record"
  <2>1. <<c.q, c.n, c.l>> \in S.field
    BY <1>5 DEF Implied
  <2>2. PICK p \in atReturn : p.byPassing = c.q /\ p.n[1] = c.n[1] /\ d = Added(p, c.n, c.l)
    BY <1>5 DEF Makes
  <2>3. ImportsIn(S, p)
    BY DEF Within
  <2> QED BY <2>1, <2>2, <2>3, ImpliedKinds
<1>6. CASE c.op = "notify"
  <2>1. <<c.q, c.n, c.l>> \in S.field /\ c.l \in Label
    BY <1>6, CallFields DEF Implied
  <2>2. PICK i \in importers : i[1] = c.q /\ i[2] = c.n /\ d = Insert(i[3], c.n, c.l)
    BY <1>6 DEF Makes
  <2>3. Takes(S, i[1], i[2], i[3])
    BY DEF Within
  <2>4. <<i[3], c.n, c.l>> \in S.field
    BY <2>1, <2>2, <2>3 DEF Takes
  <2> QED BY <2>2, <2>4, ImpliedKinds
<1>7. CASE c.op = "import"
  <2>1. Takes(S, c.q, c.n, c.flow)
    BY <1>7 DEF Implied
  <2>2. PICK t \in fieldTrans : t[1] = c.q /\ t[2] = c.n /\ d = Insert(c.flow, c.n, t[3])
    BY <1>7 DEF Makes
  <2>3. t = <<c.q, c.n, t[3]>> /\ t[3] \in Label /\ t \in S.field
    BY <1>1, <1>2, <2>2 DEF DataOK
  <2>4. <<c.flow, c.n, t[3]>> \in S.field
    BY <2>1, <2>3 DEF Takes
  <2> QED BY <2>2, <2>4, ImpliedKinds
<1>8. CASE c.op = "fieldContext"
  <2>1. <<c.q, c.n>> \in S.context
    BY <1>8 DEF Implied
  <2>2. <<c.q, c.n>> \in callingContextReachable /\ d = Process(c.q, c.n)
    BY <1>8 DEF Makes
  <2>3. <<c.q, c.n>> \in Reached(S)
    BY <1>1, <2>1, <2>2 DEF Reached
  <2> QED BY <2>2, <2>3, ImpliedKinds
<1>9. CASE c.op = "callContext"
  <2>1. <<c.q, c.n>> \in S.calls
    BY <1>9 DEF Implied
  <2>2. \/ <<c.q, c.n>> \in fieldContextReachable /\ d = Process(c.q, c.n)
        \/ d = CallRules(c.q, c.n)
    BY <1>9 DEF Makes
  <2>3. <<c.q, c.n>> \in fieldContextReachable => <<c.q, c.n>> \in Reached(S)
    BY <1>1, <2>1 DEF Reached
  <2> QED BY <2>1, <2>2, <2>3, ImpliedKinds
<1>10. CASE c.op = "callRules"
  <2>1. <<c.q, c.n>> \in S.calls
    BY <1>10 DEF Implied
  <2>2. PICK r \in callRules : r[1] = c.q /\ r[2] = c.n /\ d = CallContext(c.q, r[3])
    BY <1>10 DEF Makes
  <2>3. Leads(S, r[1], r[2], r[3])
    BY DEF Within
  <2>4. <<c.q, r[3]>> \in S.calls
    BY <2>1, <2>2, <2>3 DEF Leads
  <2> QED BY <2>2, <2>4, ImpliedKinds
<1>11. CASE c.op = "callFlow"
  <2>1. Leads(S, c.q, c.n, c.succ)
    BY <1>11 DEF Implied
  <2>2. <<c.q, c.n>> \in callingContextReachable /\ d = CallContext(c.q, c.succ)
    BY <1>11 DEF Makes
  <2>3. <<c.q, c.succ>> \in S.calls
    BY <1>1, <2>1, <2>2 DEF Leads
  <2> QED BY <2>2, <2>3, ImpliedKinds
<1>12. CASE c.op = "process"
  <2>1. <<c.q, c.n>> \in Reached(S) /\ c.q \in Query /\ c.n \in Node
    BY <1>12, CallFields DEF Implied
  <2>2. d \in EnterCall(c.q, c.n) \cup {ReachedNode(c.q, c.n)} \cup Found(c.q, c.n)
    BY <1>12 DEF Makes
  <2>3. CASE d = ReachedNode(c.q, c.n)
    BY <2>1, <2>3, ImpliedKinds
  <2>4. CASE d \in EnterCall(c.q, c.n) \cup Found(c.q, c.n)
    BY <2>1, <2>4, ClosedCalls
  <2> QED BY <2>2, <2>3, <2>4
<1>13. CASE c.op = "reached"
  <2>1. <<c.q, c.n>> \in Reached(S)
    BY <1>13 DEF Implied
  <2>2. PICK p \in onReturn : p.byPassing = c.q /\ p.n = c.n /\ d = Reachable(p)
    BY <1>13 DEF Makes
  <2>3. PairIn(S, p) /\ p.byPassing # p.flow
    BY DEF Within
  <2>4. ImportsIn(S, p)
    BY <2>1, <2>2, <2>3 DEF ImportsIn
  <2> QED BY <2>2, <2>4, ImpliedKinds
<1>14. CASE c.op = "returns"
  <2>1. Returns(S, c.s, c.q, c.n) /\ c.n[2] \notin StaticVal
    BY <1>14 DEF Implied, Makes
  <2>2. PICK b \in byPassingAllocations : b[1] = c.s /\ d = PairCall(Pair(c.s, b[2], c.q, c.n))
    BY <1>14 DEF Makes
  <2>3. b = <<c.s, b[2]>> /\ b \in S.byPass
    BY <1>1, <1>2, <2>2 DEF DataOK
  <2>4. PairIn(S, Pair(c.s, b[2], c.q, c.n))
    BY <2>1, <2>3 DEF PairIn, Pair, Returns
  <2> QED BY <2>2, <2>4, ImpliedKinds
<1>15. CASE c.op = "byPass"
  <2>1. <<c.s, c.q>> \in S.byPass
    BY <1>15 DEF Implied
  <2>2. PICK r \in returnsFromCall : r[1] = c.s /\ d = PairCall(Pair(c.s, c.q, r[2], r[3]))
    BY <1>15 DEF Makes
  <2>3. r = <<c.s, r[2], r[3]>> /\ r \in S.returns
    BY <1>1, <1>2, <2>2 DEF DataOK
  <2>4. PairIn(S, Pair(c.s, c.q, r[2], r[3]))
    BY <2>1, <2>3 DEF PairIn, Pair
  <2> QED BY <2>2, <2>4, ImpliedKinds
<1>16. CASE c.op = "eachPair"
  <2>1. PairIn(S, c.i)
    BY <1>16 DEF Implied
  <2>2. /\ c.i.byPassing # c.i.flow /\ <<c.i.byPassing, c.i.n>> \in reachedStates
        /\ d = Reachable(c.i)
    BY <1>16 DEF Makes
  <2>3. ImportsIn(S, c.i)
    BY <1>1, <2>1, <2>2 DEF ImportsIn
  <2> QED BY <2>2, <2>3, ImpliedKinds
<1>17. CASE c.op = "reachable"
  <2>1. ImportsIn(S, c.i)
    BY <1>17 DEF Implied
  <2>2. PICK t \in perStatement : /\ t[1] = c.i.byPassing /\ t[2][1] = c.i.n[1]
                                  /\ d = Added(c.i, t[2], t[3])
    BY <1>17 DEF Makes
  <2>3. t = <<c.i.byPassing, t[2], t[3]>> /\ t \in S.field
    BY <1>1, <1>2, <2>2 DEF DataOK
  <2> QED BY <2>1, <2>2, <2>3, ImpliedKinds
<1>18. CASE c.op = "added"
  <2>1. /\ ImportsIn(S, c.i) /\ <<c.i.byPassing, c.n, c.l>> \in S.field
        /\ c.n[1] = c.i.n[1]
    BY <1>18 DEF Implied
  <2>2. c.i \in PairOf /\ c.n \in Node /\ c.l \in Field /\ c.l \in Label
    BY <1>18, CallFields DEF Makes, Label
  <2>3. /\ <<c.i.flow, AsNode[c.i.byPassing], Epsilon>> \in S.field
        /\ Takes(S, c.i.byPassing, c.n, c.i.flow)
        /\ Leads(S, c.i.flow, c.i.n, c.n)
    BY <2>1, <2>2, ClosedImports
  <2>4. <<c.i.flow, c.n, c.l>> \in S.field
    BY <2>1, <2>2, <2>3 DEF Takes
  <2>5. <<c.i.flow, c.n>> \in S.context
    BY <2>4, ClosedContexts
  <2>6. d \in {Insert(c.i.flow, AsNode[c.i.byPassing], Epsilon),
               Import(c.i.byPassing, c.n, c.i.flow), FieldContext(c.i.flow, c.n),
               CallFlow(c.i.flow, c.i.n, c.n)}
    BY <1>18 DEF Makes
  <2> QED BY <2>3, <2>5, <2>6, ImpliedKinds
<1>19. CASE c.op = "unbalanced"
  <2>1. PICK r \in SuccsOf[c.s] : d = ReturnSite(c.s, c.q, <<r, c.v>>)
    BY <1>19 DEF Makes
  <2>2. <<c.q, <<r, c.v>>>> \in S.calls /\ Returns(S, c.s, c.q, <<r, c.v>>)
    BY <1>19 DEF Implied
  <2> QED BY <2>1, <2>2, ImpliedKinds
<1>20. CASE c.op = "returnSite"
  <2>1. <<c.q, c.n>> \in S.calls /\ Returns(S, c.s, c.q, c.n)
    BY <1>20 DEF Implied
  <2>2. d \in {CallContext(c.q, c.n), ReturnsFromCall(c.s, c.q, c.n)}
    BY <1>20 DEF Makes
  <2> QED BY <2>1, <2>2, ImpliedKinds
<1>21. c.op \in {"solve", "insert", "record", "notify", "import", "fieldContext", "callContext",
                 "callRules", "callFlow", "process", "reached", "returns", "byPass", "eachPair",
                 "reachable", "added", "unbalanced", "returnSite"}
  BY DEF Makes
<1> QED BY <1>3, <1>4, <1>5, <1>6, <1>7, <1>8, <1>9, <1>10, <1>11, <1>12, <1>13, <1>14, <1>15,
           <1>16, <1>17, <1>18, <1>19, <1>20, <1>21

LEMMA WithinAfter ==
    ASSUME PairInv, NEW S, Within(S), NEW c \in Innermost, CallStep(c), Implied(S, c)
    PROVE  Within(S)'
<1>1. fieldTrans' \subseteq S.field /\ perStatement' \subseteq S.field
  BY CallFrame DEF Within, Implied
<1>2. /\ fieldContextReachable' \subseteq S.context /\ callingContextReachable' \subseteq S.calls
      /\ reachedStates' \subseteq Reached(S)
  BY CallFrame DEF Within, Implied
<1>3. returnsFromCall' \subseteq S.returns /\ byPassingAllocations' \subseteq S.byPass
  BY CallFrame DEF Within, Implied, Returns
<1>4. ASSUME NEW i \in importers' PROVE Takes(S, i[1], i[2], i[3])
  <2>1. CASE i \in importers
    BY <2>1 DEF Within
  <2>2. CASE c.op = "import" /\ i = <<c.q, c.n, c.flow>>
    BY <2>2 DEF Implied
  <2> QED BY <2>1, <2>2, CallFrame
<1>5. ASSUME NEW r \in callRules' PROVE Leads(S, r[1], r[2], r[3])
  <2>1. CASE r \in callRules
    BY <2>1 DEF Within
  <2>2. CASE c.op = "callFlow" /\ r = <<c.q, c.n, c.succ>>
    BY <2>2 DEF Implied
  <2> QED BY <2>1, <2>2, CallFrame
<1>6. ASSUME NEW p \in onReturn' PROVE PairIn(S, p) /\ p.byPassing # p.flow
  BY <1>6, CallFrame DEF Within, Implied
<1>7. ASSUME NEW p \in atReturn' PROVE ImportsIn(S, p)
  BY <1>7, CallFrame DEF Within, Implied
<1> QED BY <1>1, <1>2, <1>3, <1>4, <1>5, <1>6, <1>7 DEF Within

LEMMA CallFollowed ==
    ASSUME PairInv, Followed, NEW c \in Innermost, CallStep(c)
    PROVE  Followed'
<1> SUFFICES ASSUME NEW S, Bounds(S)'
             PROVE  Within(S)' /\ \A d : Pending(d)' => Implied(S, d)'
  BY DEF Followed
<1>1. /\ IsClosed(S) /\ solved' \subseteq S.solved
      /\ \A q \in Query : Pending(SolveFor(q))' => q \in S.solved
  BY DEF Bounds, IsClosed
<1>2. c \in Call /\ Pending(c)
  BY InnermostCall DEF Pending, PairInv
<1>3. Bounds(S)
  <2>1. solved \subseteq S.solved
    BY <1>1, CallFrame
  <2>2. ASSUME NEW q \in Query, Pending(SolveFor(q)) PROVE q \in S.solved
    <3>1. CASE SolveFor(q) = c
      <4>1. c.op = "solve" /\ c.q = q
        BY <3>1 DEF SolveFor
      <4> QED BY <1>1, <4>1, CallFrame
    <3>2. CASE SolveFor(q) # c
      BY <1>1, <2>2, <3>2, StillPending
    <3> QED BY <3>1, <3>2
  <2> QED BY <1>1, <2>1, <2>2 DEF Bounds
<1>4. Within(S) /\ Implied(S, c)
  BY <1>2, <1>3 DEF Followed
<1>5. ASSUME NEW d, Pending(d)' PROVE Implied(S, d)
  <2>1. Pending(d) \/ Makes(c, d)
    BY <1>5, CallEffect DEF Effect
  <2>2. CASE Pending(d)
    BY <1>3, <2>2 DEF Followed
  <2>3. CASE Makes(c, d)
    BY <1>1, <1>2, <1>4, <2>3, CallImplies
  <2> QED BY <2>1, <2>2, <2>3
<1>6. \A d : Implied(S, d)' <=> Implied(S, d)
  BY DEF Implied, Takes, Leads, Reached, Returns, PairIn, ImportsIn
<1> QED BY <1>4, <1>5, <1>6, WithinAfter

\* What is owed stays paid, or to be paid, while nothing is forgotten.
LEMMA HeededFrame ==
    ASSUME Heeded, UNCHANGED data, \A d : Pending(d) => Pending(d)'
    PROVE  Heeded'
<1>1. /\ UNCHANGED <<fieldTrans, perStatement, importers, callRules, fieldContextReachable>>
      /\ UNCHANGED <<callingContextReachable, reachedStates, returnsFromCall>>
      /\ UNCHANGED <<byPassingAllocations, onReturn, atReturn, solved, paired>>
  BY DEF data, automata, contexts, sites, listeners, pairs
<1>2. \A d : Done(d)' <=> Done(d)
  BY <1>1 DEF Done
<1>3. \A d : Asked(d) => Asked(d)'
  BY <1>2 DEF Asked
<1>4. SolvesHeeded' /\ InsertsHeeded'
  BY <1>1, <1>3 DEF Heeded, SolvesHeeded, InsertsHeeded
<1>5. ImportersHeeded' /\ ContextsHeeded' /\ CallRulesHeeded'
  BY <1>1, <1>3 DEF Heeded, ImportersHeeded, ContextsHeeded, CallRulesHeeded
<1>6. NodesHeeded'
  <2>1. \A s, q, n : SiteAsked(s, q, n) => SiteAsked(s, q, n)'
    BY <1>3 DEF SiteAsked
  <2>2. ASSUME NEW d, FoundAsked(d) PROVE FoundAsked(d)'
    <3>1. CASE d.op # "unbalanced"
      <4>1. Asked(d)'
        BY <1>3, <2>2, <3>1 DEF FoundAsked
      <4> QED BY <3>1, <4>1 DEF FoundAsked
    <3>2. CASE d.op = "unbalanced" /\ Pending(d)
      BY <3>2 DEF FoundAsked
    <3>3. CASE d.op = "unbalanced" /\ \A r \in SuccsOf[d.s] : SiteAsked(d.s, d.q, <<r, d.v>>)
      <4>1. \A r \in SuccsOf[d.s] : SiteAsked(d.s, d.q, <<r, d.v>>)'
        BY <2>1, <3>3
      <4> QED BY <3>3, <4>1 DEF FoundAsked
    <3> QED BY <2>2, <3>1, <3>2, <3>3 DEF FoundAsked
  <2> QED BY <1>1, <2>2 DEF Heeded, NodesHeeded
<1>7. PairsHeeded'
  <2> SUFFICES ASSUME NEW p \in PairOf
               PROVE  /\ p \in paired' /\ p.byPassing # p.flow => p \in onReturn'
                      /\ p \in onReturn' /\ <<p.byPassing, p.n>> \in reachedStates'
                           => Asked(Reachable(p))' \/ Pending(ReachedNode(p.byPassing, p.n))'
    BY DEF PairsHeeded
  <2> QED BY <1>1, <1>3 DEF Heeded, PairsHeeded
<1>8. ReturnsHeeded'
  <2>1. \A p, n : ImportAsked(p, n) => ImportAsked(p, n)'
    BY <1>3 DEF ImportAsked
  <2> QED BY <1>1, <2>1 DEF Heeded, ReturnsHeeded
<1> QED BY <1>4, <1>5, <1>6, <1>7, <1>8 DEF Heeded

LEMMA WithinFrame ==
    ASSUME UNCHANGED data, NEW S
    PROVE  Within(S)' <=> Within(S)
<1>1. /\ UNCHANGED <<fieldTrans, perStatement, importers, callRules, fieldContextReachable>>
      /\ UNCHANGED <<callingContextReachable, reachedStates, returnsFromCall>>
      /\ UNCHANGED <<byPassingAllocations, onReturn, atReturn>>
  BY DEF data, automata, contexts, sites, listeners
<1>2. \A q, n, f : Takes(S, q, n, f)' <=> Takes(S, q, n, f)
  BY DEF Takes
<1>3. \A q, n, m : Leads(S, q, n, m)' <=> Leads(S, q, n, m)
  BY DEF Leads
<1>4. Reached(S)' = Reached(S)
  BY DEF Reached
<1>5. \A p : (PairIn(S, p)' <=> PairIn(S, p)) /\ (ImportsIn(S, p)' <=> ImportsIn(S, p))
  BY <1>4 DEF PairIn, ImportsIn
<1> QED BY <1>1, <1>2, <1>3, <1>4, <1>5 DEF Within

\* A step that leaves the solvers' state alone and makes at most the given call,
\* which follows from what S has to hold for it.
LEMMA FollowedFrame ==
    ASSUME Followed, UNCHANGED data, \A d : Pending(d) => Pending(d)',
           \A d : Pending(d)' => Pending(d) \/ \E q \in Query : d = SolveFor(q)
    PROVE  Followed'
<1> SUFFICES ASSUME NEW S, Bounds(S)'
             PROVE  Within(S)' /\ \A d : Pending(d)' => Implied(S, d)'
  BY DEF Followed
<1>1. /\ IsClosed(S) /\ solved' \subseteq S.solved
      /\ \A q \in Query : Pending(SolveFor(q))' => q \in S.solved
  BY DEF Bounds, IsClosed
<1>2. solved' = solved
  BY DEF data
<1>3. Bounds(S)
  BY <1>1, <1>2 DEF Bounds
<1>4. Within(S) /\ \A d : Pending(d) => Implied(S, d)
  BY <1>3 DEF Followed
<1>5. \A d : Implied(S, d)' <=> Implied(S, d)
  BY DEF Implied, Takes, Leads, Reached, Returns, PairIn, ImportsIn
<1>6. ASSUME NEW d, Pending(d)', ~Pending(d) PROVE Implied(S, d)
  <2>1. PICK q \in Query : d = SolveFor(q)
    BY <1>6
  <2>2. q \in S.solved
    BY <1>1, <1>6, <2>1
  <2> QED BY <2>1, <2>2, ImpliedKinds
<1>7. Within(S)'
  BY <1>4, WithinFrame
<1> QED BY <1>4, <1>5, <1>6, <1>7

SolvedOK == solved \subseteq Query

LEMMA ImportInvariant == Spec => [](PairInv /\ Followed /\ Heeded /\ SolvedOK)
<1>1. Init => Followed /\ Heeded
  <2> SUFFICES ASSUME Init PROVE Followed /\ Heeded
    OBVIOUS
  <2>1. \A d : ~Pending(d)
    BY DEF Init, Pending
  <2>2. \A S : Within(S)
    BY DEF Init, Within
  <2>3. Heeded
    BY DEF Init, Heeded, SolvesHeeded, InsertsHeeded, ImportersHeeded, ContextsHeeded,
           CallRulesHeeded, NodesHeeded, PairsHeeded, ReturnsHeeded
  <2> QED BY <2>1, <2>2, <2>3 DEF Followed
<1>2. PairInv /\ Followed /\ Heeded /\ [Next]_vars => Followed' /\ Heeded'
  <2> SUFFICES ASSUME PairInv, Followed, Heeded, [Next]_vars PROVE Followed' /\ Heeded'
    OBVIOUS
  <2>1. ASSUME EndLoop PROVE Followed' /\ Heeded'
    <3>1. agenda \in Seq(SUBSET Call) /\ LoopEnds /\ UNCHANGED data
      BY <2>1 DEF PairInv, TypeOK, EndLoop
    <3>2. \A d : Pending(d)' <=> Pending(d)
      BY <3>1, CallKeptAtEnd
    <3> QED BY <3>1, <3>2, FollowedFrame, HeededFrame
  <2>2. ASSUME NEW c \in Innermost, CallStep(c) PROVE Followed' /\ Heeded'
    BY <2>2, CallFollowed, CallHeeded
  <2>3. ASSUME NEW q \in Query, Ask(q) PROVE Followed' /\ Heeded'
    <3>1. agenda = <<>> /\ agenda' = <<{SolveFor(q)}>> /\ UNCHANGED data
      BY <2>3 DEF Ask, Idle
    <3>2. (\A d : ~Pending(d)) /\ \A d : Pending(d)' <=> d = SolveFor(q)
      BY <3>1 DEF Pending
    <3> QED BY <3>1, <3>2, FollowedFrame, HeededFrame
  <2>4. ASSUME UNCHANGED vars PROVE Followed' /\ Heeded'
    <3>1. UNCHANGED data /\ agenda' = agenda
      BY <2>4 DEF vars
    <3>2. \A d : Pending(d)' <=> Pending(d)
      BY <3>1 DEF Pending
    <3> QED BY <3>1, <3>2, FollowedFrame, HeededFrame
  <2> QED BY <2>1, <2>2, <2>3, <2>4 DEF Next, Step, CallStep
<1>3. Init => PairInv
  BY InitInv
<1>4. PairInv /\ [Next]_vars => PairInv'
  BY NextInv
<1>5. Init => SolvedOK
  BY DEF Init, SolvedOK
<1>6. PairInv /\ SolvedOK /\ [Next]_vars => SolvedOK'
  <2> SUFFICES ASSUME PairInv, SolvedOK, [Next]_vars PROVE SolvedOK'
    OBVIOUS
  <2>1. ASSUME NEW c \in Innermost, CallStep(c) PROVE SolvedOK'
    BY <2>1, InnermostCall, CallFields, CallFrame DEF SolvedOK
  <2>2. CASE EndLoop \/ (\E q \in Query : Ask(q)) \/ UNCHANGED vars
    BY <2>2 DEF EndLoop, Ask, vars, data, SolvedOK
  <2> QED BY <2>1, <2>2 DEF Next, Step, CallStep
<1> QED BY <1>1, <1>2, <1>3, <1>4, <1>5, <1>6, PTL DEF Spec

\* What the solvers have found out.
Facts ==
    [solved |-> solved, field |-> fieldTrans, context |-> fieldContextReachable,
     calls |-> callingContextReachable, returns |-> returnsFromCall,
     byPass |-> byPassingAllocations]

Settled == PairInv /\ Heeded /\ SolvedOK /\ Idle

LEMMA SettledDone ==
    ASSUME Settled
    PROVE  (\A d : ~Pending(d)) /\ \A d : Asked(d) => Done(d)
BY DEF Settled, Idle, Pending, Asked

LEMMA ReachedProcessed ==
    ASSUME Settled, NEW y \in Reached(Facts)
    PROVE  y \in reachedStates /\ y = <<y[1], y[2]>> /\ y[1] \in Query /\ y[2] \in Node
<1>1. y \in fieldContextReachable \cap callingContextReachable
  BY DEF Reached, Facts
<1>2. y = <<y[1], y[2]>> /\ y[1] \in Query /\ y[2] \in Node
  BY <1>1 DEF Settled, PairInv, TypeOK, DataOK
<1>3. Asked(Process(y[1], y[2]))
  BY <1>1, <1>2 DEF Settled, Heeded, ContextsHeeded
<1>4. Done(Process(y[1], y[2]))
  BY <1>3, SettledDone
<1>5. <<y[1], y[2]>> \in reachedStates
  BY <1>4, DoneKinds
<1> QED BY <1>2, <1>5

LEMMA CallsSettled ==
    ASSUME Settled, NEW c \in Calls(Facts)
    PROVE  /\ c \in FoundCall
           /\ c.op # "unbalanced" => Done(c)
           /\ c.op = "unbalanced" => \A r \in SuccsOf[c.s] :
                /\ <<c.q, <<r, c.v>>>> \in callingContextReachable
                /\ r \in Stmt /\ (<<r, c.v>>[2] \in StaticVal
                                    \/ <<c.s, c.q, <<r, c.v>>>> \in returnsFromCall)
<1>1. PICK y \in Reached(Facts) : c \in Found(y[1], y[2]) \cup EnterCall(y[1], y[2])
  BY DEF Calls
<1>2. <<y[1], y[2]>> \in reachedStates /\ y[1] \in Query /\ y[2] \in Node
  BY ReachedProcessed
<1>3. c \in FoundCall /\ FoundAsked(c)
  BY <1>1, <1>2, NodeCalls DEF Settled, Heeded, NodesHeeded
<1>4. c.op # "unbalanced" => Done(c)
  BY <1>3, SettledDone DEF FoundAsked
<1>5. ASSUME c.op = "unbalanced", NEW r \in SuccsOf[c.s]
      PROVE  /\ <<c.q, <<r, c.v>>>> \in callingContextReachable
             /\ r \in Stmt /\ (<<r, c.v>>[2] \in StaticVal
                                 \/ <<c.s, c.q, <<r, c.v>>>> \in returnsFromCall)
  <2>1. SiteAsked(c.s, c.q, <<r, c.v>>)
    BY <1>3, <1>5, SettledDone DEF FoundAsked
  <2>2. /\ Asked(CallContext(c.q, <<r, c.v>>))
        /\ Asked(ReturnsFromCall(c.s, c.q, <<r, c.v>>))
    BY <2>1, SettledDone DEF SiteAsked
  <2>3. /\ Done(CallContext(c.q, <<r, c.v>>))
        /\ Done(ReturnsFromCall(c.s, c.q, <<r, c.v>>))
    BY <2>2, SettledDone
  <2>4. c.s \in Stmt
    BY <1>3, <1>5 DEF FoundCall
  <2>5. r \in Stmt
    BY <2>4, CallSitesAssumption
  <2> QED BY <2>3, <2>5, DoneKinds
<1> QED BY <1>3, <1>4, <1>5

LEMMA UnbalancedSettled ==
    ASSUME Settled, NEW u \in UnbalancedReturns(Facts)
    PROVE  /\ <<u[2], u[3]>> \in callingContextReachable
           /\ u[3][2] \in StaticVal \/ u \in returnsFromCall
<1>1. PICK y \in Of("unbalanced", Facts) \X Stmt :
         y[2] \in SuccsOf[y[1].s] /\ u = <<y[1].s, y[1].q, <<y[2], y[1].v>>>>
  BY DEF UnbalancedReturns
<1>2. PICK c \in Calls(Facts) : c = y[1] /\ c.op = "unbalanced"
  BY <1>1 DEF Of
<1>3. PICK r \in SuccsOf[c.s] : r = y[2]
  BY <1>1, <1>2
<1>4. u[2] = c.q /\ u[3] = <<r, c.v>> /\ u = <<c.s, c.q, <<r, c.v>>>>
  BY <1>1, <1>2, <1>3
<1>5. /\ <<c.q, <<r, c.v>>>> \in callingContextReachable
      /\ (<<r, c.v>>[2] \in StaticVal \/ <<c.s, c.q, <<r, c.v>>>> \in returnsFromCall)
  BY <1>2, CallsSettled
<1> QED BY <1>4, <1>5

LEMMA ImportsSettled ==
    ASSUME Settled, NEW i \in Imports(Facts)
    PROVE  /\ i[1] \in PairOf /\ i[2] \in Node
           /\ <<i[1].flow, AsNode[i[1].byPassing], Epsilon>> \in fieldTrans
           /\ <<i[1].byPassing, i[2], i[1].flow>> \in importers
           /\ <<i[1].flow, i[1].n, i[2]>> \in callRules
<1>1. /\ i[1] \in PairsOf(returnsFromCall, byPassingAllocations) /\ i[2] \in Node
      /\ i[1].byPassing # i[1].flow /\ <<i[1].byPassing, i[1].n>> \in Reached(Facts)
      /\ i[2][1] = i[1].n[1]
      /\ \E l \in Field : <<i[1].byPassing, i[2], l>> \in fieldTrans
  BY DEF Imports, Facts
<1>2. PICK p : p = i[1]
  OBVIOUS
<1>3. PICK n \in Node : n = i[2]
  BY <1>1
<1>4. p \in paired /\ p \in PairOf
  <2>1. PairedOnce
    BY InvPaired DEF Settled
  <2> QED BY <1>1, <1>2, <2>1 DEF PairedOnce, Settled, PairInv, AllHandled
<1>5. p \in atReturn
  <2>1. p \in onReturn
    BY <1>1, <1>2, <1>4 DEF Settled, Heeded, PairsHeeded
  <2>2. <<p.byPassing, p.n>> \in reachedStates
    BY <1>1, <1>2, ReachedProcessed
  <2>3. Asked(Reachable(p))
    BY <1>4, <2>1, <2>2, SettledDone DEF Settled, Heeded, PairsHeeded
  <2>4. Done(Reachable(p))
    BY <2>3, SettledDone
  <2> QED BY <2>4, DoneKinds
<1>6. PICK l \in Field : <<p.byPassing, n, l>> \in fieldTrans
  BY <1>1, <1>2, <1>3
<1>7. <<p.byPassing, n, l>> \in perStatement
  <2>1. p.byPassing \in Query /\ l \in Label
    BY <1>4 DEF PairOf, Label
  <2>2. Asked(Record(p.byPassing, n, l))
    BY <1>6, <2>1 DEF Settled, Heeded, InsertsHeeded
  <2>3. Done(Record(p.byPassing, n, l))
    BY <2>2, SettledDone
  <2> QED BY <2>3, DoneKinds
<1>8. ImportAsked(p, n)
  <2>1. n[1] = p.n[1]
    BY <1>1, <1>2, <1>3
  <2>2. ImportAsked(p, n) \/ Pending(Added(p, n, l))
    BY <1>4, <1>5, <1>7, <2>1 DEF Settled, Heeded, ReturnsHeeded
  <2> QED BY <2>2, SettledDone
<1>9. /\ Done(Insert(p.flow, AsNode[p.byPassing], Epsilon))
      /\ Done(Import(p.byPassing, n, p.flow))
      /\ Done(CallFlow(p.flow, p.n, n))
  BY <1>8, SettledDone DEF ImportAsked
<1>10. /\ <<p.flow, AsNode[p.byPassing], Epsilon>> \in fieldTrans
       /\ <<p.byPassing, n, p.flow>> \in importers
       /\ <<p.flow, p.n, n>> \in callRules
  BY <1>9, DoneKinds
<1> QED BY <1>2, <1>3, <1>4, <1>10

\* At rest nothing more follows from what the solvers have found out.
LEMMA NoMoreFields == ASSUME Settled PROVE NewFields(Facts) \subseteq fieldTrans
<1>1. ASSUME NEW q \in solved PROVE <<q, StartsAt[q], EmptyField>> \in fieldTrans
  <2>1. Asked(Insert(q, StartsAt[q], EmptyField))
    BY DEF Settled, Heeded, SolvesHeeded
  <2>2. Done(Insert(q, StartsAt[q], EmptyField))
    BY <2>1, SettledDone
  <2> QED BY <2>2, DoneKinds
<1>2. ASSUME NEW c \in Of("insert", Facts) PROVE <<c.q, c.n, c.l>> \in fieldTrans
  <2>1. c \in Calls(Facts) /\ c.op = "insert"
    BY DEF Of
  <2>2. Done(c)
    BY <2>1, CallsSettled
  <2> QED BY <2>1, <2>2 DEF Done
<1>3. ASSUME NEW i \in Imports(Facts)
      PROVE  <<i[1].flow, AsNode[i[1].byPassing], Epsilon>> \in fieldTrans
  BY ImportsSettled
<1>4. ASSUME NEW i \in Imports(Facts), NEW t \in fieldTrans, t[1] = i[1].byPassing, t[2] = i[2]
      PROVE  <<i[1].flow, t[2], t[3]>> \in fieldTrans
  <2>1. /\ i[1] \in PairOf /\ i[2] \in Node
        /\ <<i[1].byPassing, i[2], i[1].flow>> \in importers
    BY ImportsSettled
  <2>2. t = <<i[1].byPassing, i[2], t[3]>> /\ t[3] \in Label
    BY <1>4 DEF Settled, PairInv, TypeOK, DataOK
  <2>3. i[1].byPassing \in Query /\ i[1].flow \in Query
    BY <2>1 DEF PairOf
  <2>4. Asked(Insert(i[1].flow, i[2], t[3]))
    BY <2>1, <2>2, <2>3, SettledDone DEF Settled, Heeded, ImportersHeeded
  <2>5. Done(Insert(i[1].flow, i[2], t[3]))
    BY <2>4, SettledDone
  <2> QED BY <1>4, <2>5, DoneKinds
<1>5. Facts.solved = solved /\ Facts.field = fieldTrans
  BY DEF Facts
<1> SUFFICES ASSUME NEW f \in NewFields(Facts) PROVE f \in fieldTrans
  OBVIOUS
<1>6. \/ \E q \in solved : f = <<q, StartsAt[q], EmptyField>>
      \/ \E c \in Of("insert", Facts) : f = <<c.q, c.n, c.l>>
      \/ \E i \in Imports(Facts) : f = <<i[1].flow, AsNode[i[1].byPassing], Epsilon>>
      \/ \E i \in Imports(Facts), t \in fieldTrans :
           t[1] = i[1].byPassing /\ t[2] = i[2] /\ f = <<i[1].flow, t[2], t[3]>>
  BY <1>5 DEF NewFields
<1> QED BY <1>1, <1>2, <1>3, <1>4, <1>6

LEMMA NoMoreCalls == ASSUME Settled PROVE NewCalls(Facts) \subseteq callingContextReachable
<1>1. ASSUME NEW q \in solved PROVE <<q, StartsAt[q]>> \in callingContextReachable
  <2>1. Asked(CallContext(q, StartsAt[q]))
    BY DEF Settled, Heeded, SolvesHeeded
  <2>2. Done(CallContext(q, StartsAt[q]))
    BY <2>1, SettledDone
  <2> QED BY <2>2, DoneKinds
<1>2. ASSUME NEW c \in Of("callContext", Facts) PROVE <<c.q, c.n>> \in callingContextReachable
  <2>1. c \in Calls(Facts) /\ c.op = "callContext"
    BY DEF Of
  <2>2. Done(c)
    BY <2>1, CallsSettled
  <2> QED BY <2>1, <2>2 DEF Done
<1>3. ASSUME NEW i \in Imports(Facts), <<i[1].flow, i[1].n>> \in callingContextReachable
      PROVE  <<i[1].flow, i[2]>> \in callingContextReachable
  <2>1. i[1] \in PairOf /\ i[2] \in Node /\ <<i[1].flow, i[1].n, i[2]>> \in callRules
    BY ImportsSettled
  <2>2. i[1].flow \in Query /\ i[1].n \in Node
    BY <2>1 DEF PairOf
  <2>3. Asked(CallContext(i[1].flow, i[2]))
    BY <1>3, <2>1, <2>2, SettledDone DEF Settled, Heeded, CallRulesHeeded
  <2>4. Done(CallContext(i[1].flow, i[2]))
    BY <2>3, SettledDone
  <2> QED BY <2>4, DoneKinds
<1>4. Facts.solved = solved /\ Facts.calls = callingContextReachable
  BY DEF Facts
<1> SUFFICES ASSUME NEW f \in NewCalls(Facts) PROVE f \in callingContextReachable
  OBVIOUS
<1>5. \/ \E q \in solved : f = <<q, StartsAt[q]>>
      \/ \E c \in Of("callContext", Facts) : f = <<c.q, c.n>>
      \/ \E u \in UnbalancedReturns(Facts) : f = <<u[2], u[3]>>
      \/ \E i \in Imports(Facts) :
           <<i[1].flow, i[1].n>> \in callingContextReachable /\ f = <<i[1].flow, i[2]>>
  BY <1>4 DEF NewCalls
<1> QED BY <1>1, <1>2, <1>3, <1>5, UnbalancedSettled

LEMMA NoMoreReturns == ASSUME Settled PROVE NewReturns(Facts) \subseteq returnsFromCall
<1> SUFFICES ASSUME NEW r \in NewReturns(Facts) PROVE r \in returnsFromCall
  OBVIOUS
<1>1. /\ r[3][2] \notin StaticVal
      /\ \/ \E c \in Of("returns", Facts) : r = <<c.s, c.q, c.n>>
         \/ r \in UnbalancedReturns(Facts)
  BY DEF NewReturns, Nonstatic
<1>2. ASSUME NEW c \in Of("returns", Facts), r = <<c.s, c.q, c.n>> PROVE r \in returnsFromCall
  <2>1. c \in Calls(Facts) /\ c.op = "returns"
    BY DEF Of
  <2>2. Done(c)
    BY <2>1, CallsSettled
  <2>3. r[3] = c.n
    BY <1>2
  <2> QED BY <1>1, <1>2, <2>1, <2>2, <2>3 DEF Done
<1> QED BY <1>1, <1>2, UnbalancedSettled

LEMMA FactsClosed == ASSUME Settled PROVE IsClosed(Facts)
<1>1. /\ Facts.solved = solved /\ Facts.field = fieldTrans
      /\ Facts.context = fieldContextReachable /\ Facts.calls = callingContextReachable
      /\ Facts.returns = returnsFromCall /\ Facts.byPass = byPassingAllocations
  BY DEF Facts
<1>2. Facts \in Findings
  BY DEF Facts, Findings, Settled, SolvedOK, PairInv, TypeOK, DataOK
<1>3. {c.q : c \in Of("solve", Facts)} \subseteq solved
  <2> SUFFICES ASSUME NEW c \in Of("solve", Facts) PROVE c.q \in solved
    OBVIOUS
  <2>1. c \in Calls(Facts) /\ c.op = "solve"
    BY DEF Of
  <2>2. Done(c)
    BY <2>1, CallsSettled
  <2> QED BY <2>1, <2>2 DEF Done
<1>4. {<<c.s, c.q>> : c \in Of("byPass", Facts)} \subseteq byPassingAllocations
  <2> SUFFICES ASSUME NEW c \in Of("byPass", Facts) PROVE <<c.s, c.q>> \in byPassingAllocations
    OBVIOUS
  <2>1. c \in Calls(Facts) /\ c.op = "byPass"
    BY DEF Of
  <2>2. Done(c)
    BY <2>1, CallsSettled
  <2> QED BY <2>1, <2>2 DEF Done
<1>5. {<<t[1], t[2]>> : t \in fieldTrans} \subseteq fieldContextReachable
  <2> SUFFICES ASSUME NEW t \in fieldTrans PROVE <<t[1], t[2]>> \in fieldContextReachable
    OBVIOUS
  <2>1. t = <<t[1], t[2], t[3]>> /\ t[1] \in Query /\ t[2] \in Node /\ t[3] \in Label
    BY DEF Settled, PairInv, TypeOK, DataOK
  <2>2. Asked(FieldContext(t[1], t[2]))
    BY <2>1 DEF Settled, Heeded, InsertsHeeded
  <2>3. Done(FieldContext(t[1], t[2]))
    BY <2>2, SettledDone
  <2> QED BY <2>3, DoneKinds
<1>6. Extended(Facts) = Facts
  <2>1. /\ solved \cup {c.q : c \in Of("solve", Facts)} = solved
        /\ fieldTrans \cup NewFields(Facts) = fieldTrans
        /\ fieldContextReachable \cup {<<t[1], t[2]>> : t \in fieldTrans} = fieldContextReachable
        /\ callingContextReachable \cup NewCalls(Facts) = callingContextReachable
        /\ returnsFromCall \cup NewReturns(Facts) = returnsFromCall
        /\ byPassingAllocations \cup {<<c.s, c.q>> : c \in Of("byPass", Facts)} = byPassingAllocations
    BY <1>3, <1>4, <1>5, NoMoreFields, NoMoreCalls, NoMoreReturns, Zenon
  <2>2. Extended(Facts) =
          [solved |-> solved, field |-> fieldTrans, context |-> fieldContextReachable,
           calls |-> callingContextReachable, returns |-> returnsFromCall,
           byPass |-> byPassingAllocations]
    BY <1>1, <2>1, Zenon DEF Extended
  <2> QED BY <2>2, Zenon DEF Facts
<1> QED BY <1>2, <1>6 DEF IsClosed

LEMMA FactsLeast ==
    ASSUME Settled, Followed
    PROVE  IsLeast(Facts) /\ OutcomeOf(Facts)
<1>1. /\ Facts.solved = solved /\ Facts.field = fieldTrans
      /\ Facts.context = fieldContextReachable /\ Facts.calls = callingContextReachable
      /\ Facts.returns = returnsFromCall /\ Facts.byPass = byPassingAllocations
  BY DEF Facts
<1>2. ASSUME NEW S, IsClosed(S), solved \subseteq S.solved PROVE Within(S)
  <2>1. Bounds(S)
    BY <1>2, SettledDone DEF Bounds
  <2> QED BY <2>1 DEF Followed
<1>3. ASSUME NEW S, IsClosed(S), solved \subseteq S.solved
      PROVE  /\ solved \subseteq S.solved /\ fieldTrans \subseteq S.field
             /\ fieldContextReachable \subseteq S.context
             /\ callingContextReachable \subseteq S.calls
             /\ returnsFromCall \subseteq S.returns /\ byPassingAllocations \subseteq S.byPass
  BY <1>2, <1>3 DEF Within
<1>4. IsLeast(Facts)
  BY <1>1, <1>3, FactsClosed DEF IsLeast
<1>5. Within(Facts)
  BY <1>1, <1>2, FactsClosed
<1>6. reachedStates = Reached(Facts)
  BY <1>5, ReachedProcessed DEF Within
<1> QED BY <1>1, <1>4, <1>6 DEF OutcomeOf

\* At rest, what the solvers know and import at the call sites is the least that
\* follows from what each finds out at the nodes it reaches: every value a solver
\* that passed a call by has at the node another returned with has been imported,
\* and nothing is known that does not follow, whatever the order of the events.
\* (returnsFromCall, addByPassingAllocation, OnReturnNodeReachle, ImportFlowAtReturn)
THEOREM ImportsAreLeast == Spec => [](Idle => \E x : IsLeast(x) /\ OutcomeOf(x))
<1>1. PairInv /\ Followed /\ Heeded /\ SolvedOK
        => (Idle => \E x : IsLeast(x) /\ OutcomeOf(x))
  <2> SUFFICES ASSUME PairInv, Followed, Heeded, SolvedOK, Idle
               PROVE  \E x : IsLeast(x) /\ OutcomeOf(x)
    OBVIOUS
  <2>1. IsLeast(Facts) /\ OutcomeOf(Facts)
    BY FactsLeast DEF Settled
  <2>2. PICK x : x = Facts
    OBVIOUS
  <2>3. IsLeast(x) /\ OutcomeOf(x)
    BY <2>1, <2>2
  <2> QED BY <2>3
<1> QED BY <1>1, ImportInvariant, PTL

\* Two least sets of findings hold the same.
LEMMA LeastUnique ==
    ASSUME NEW x, NEW y, IsLeast(x), IsLeast(y)
    PROVE  /\ x.solved = y.solved /\ x.field = y.field /\ x.context = y.context
           /\ x.calls = y.calls /\ x.returns = y.returns /\ x.byPass = y.byPass
<1>1. ASSUME NEW a, NEW b, IsLeast(a), IsLeast(b)
      PROVE  /\ a.solved \subseteq b.solved /\ a.field \subseteq b.field
             /\ a.context \subseteq b.context /\ a.calls \subseteq b.calls
             /\ a.returns \subseteq b.returns /\ a.byPass \subseteq b.byPass
  <2>1. IsClosed(b) /\ solved \subseteq b.solved
    BY <1>1 DEF IsLeast
  <2> QED BY <1>1, <2>1, Zenon DEF IsLeast
<1>2. /\ x.solved \subseteq y.solved /\ x.field \subseteq y.field
      /\ x.context \subseteq y.context /\ x.calls \subseteq y.calls
      /\ x.returns \subseteq y.returns /\ x.byPass \subseteq y.byPass
  BY <1>1
<1>3. /\ y.solved \subseteq x.solved /\ y.field \subseteq x.field
      /\ y.context \subseteq x.context /\ y.calls \subseteq x.calls
      /\ y.returns \subseteq x.returns /\ y.byPass \subseteq x.byPass
  BY <1>1
<1> QED BY <1>2, <1>3

(***************************************************************************)
(* The fixpoint that is computed by recursion.                             *)
(***************************************************************************)
AtMost(x, y) ==
    /\ x.solved \subseteq y.solved /\ x.field \subseteq y.field
    /\ x.context \subseteq y.context /\ x.calls \subseteq y.calls
    /\ x.returns \subseteq y.returns /\ x.byPass \subseteq y.byPass

LEMMA ExtendedFields ==
    ASSUME NEW x
    PROVE  /\ Extended(x).solved = x.solved \cup {c.q : c \in Of("solve", x)}
           /\ Extended(x).field = x.field \cup NewFields(x)
           /\ Extended(x).context = x.context \cup {<<t[1], t[2]>> : t \in x.field}
           /\ Extended(x).calls = x.calls \cup NewCalls(x)
           /\ Extended(x).returns = x.returns \cup NewReturns(x)
           /\ Extended(x).byPass = x.byPass \cup {<<c.s, c.q>> : c \in Of("byPass", x)}
BY DEF Extended

LEMMA InCallsOf ==
    ASSUME NEW x, NEW c
    PROVE  c \in Calls(x) <=>
             \E y \in Reached(x) : c \in Found(y[1], y[2]) \cup EnterCall(y[1], y[2])
<1> DEFINE made(y) == Found(y[1], y[2]) \cup EnterCall(y[1], y[2])
           all == UNION {made(y) : y \in Reached(x)}
<1>1. Calls(x) = all
  BY DEF Calls
<1>2. c \in all <=> \E y \in Reached(x) : c \in made(y)
  BY Zenon
<1> HIDE DEF all
<1> QED BY <1>1, <1>2

LEMMA InNewFields ==
    ASSUME NEW x, NEW f
    PROVE  f \in NewFields(x) <=>
             \/ \E q \in x.solved : f = <<q, StartsAt[q], EmptyField>>
             \/ \E c \in Of("insert", x) : f = <<c.q, c.n, c.l>>
             \/ \E i \in Imports(x) : f = <<i[1].flow, AsNode[i[1].byPassing], Epsilon>>
             \/ \E i \in Imports(x), t \in x.field :
                  t[1] = i[1].byPassing /\ t[2] = i[2] /\ f = <<i[1].flow, t[2], t[3]>>
<1> DEFINE both == {z \in Imports(x) \X x.field : z[2][1] = z[1][1].byPassing /\ z[2][2] = z[1][2]}
           taken == {<<y[1][1].flow, y[2][2], y[2][3]>> : y \in both}
<1>1. f \in taken <=> \E i \in Imports(x), t \in x.field :
        t[1] = i[1].byPassing /\ t[2] = i[2] /\ f = <<i[1].flow, t[2], t[3]>>
  <2>1. ASSUME NEW i \in Imports(x), NEW t \in x.field,
               t[1] = i[1].byPassing, t[2] = i[2], f = <<i[1].flow, t[2], t[3]>>
        PROVE  f \in taken
    <3> DEFINE I == Imports(x)
                F == x.field
    <3>1. PICK y \in I \X F : y[1] = i /\ y[2] = t
      <4>1. i \in I /\ t \in F
        OBVIOUS
      <4> HIDE DEF I, F
      <4> QED BY <4>1, Couple
    <3>2. y \in both
      BY <2>1, <3>1
    <3> QED BY <2>1, <3>1, <3>2
  <2>2. ASSUME f \in taken
        PROVE  \E i \in Imports(x), t \in x.field :
                 t[1] = i[1].byPassing /\ t[2] = i[2] /\ f = <<i[1].flow, t[2], t[3]>>
    <3>1. PICK y \in both : f = <<y[1][1].flow, y[2][2], y[2][3]>>
      BY <2>2
    <3>2. y[1] \in Imports(x) /\ y[2] \in x.field
          /\ y[2][1] = y[1][1].byPassing /\ y[2][2] = y[1][2]
      BY <3>1
    <3> QED BY <3>1, <3>2
  <2> QED BY <2>1, <2>2
<1>2. NewFields(x) = {<<q, StartsAt[q], EmptyField>> : q \in x.solved}
        \cup {<<c.q, c.n, c.l>> : c \in Of("insert", x)}
        \cup {<<i[1].flow, AsNode[i[1].byPassing], Epsilon>> : i \in Imports(x)}
        \cup taken
  BY DEF NewFields
<1> HIDE DEF taken
<1> QED BY <1>1, <1>2

LEMMA InUnbalanced ==
    ASSUME NEW x, NEW u
    PROVE  u \in UnbalancedReturns(x) <=>
             \E c \in Of("unbalanced", x), r \in Stmt :
               r \in SuccsOf[c.s] /\ u = <<c.s, c.q, <<r, c.v>>>>
<1>1. ASSUME NEW c \in Of("unbalanced", x), NEW r \in Stmt,
             r \in SuccsOf[c.s], u = <<c.s, c.q, <<r, c.v>>>>
      PROVE  u \in UnbalancedReturns(x)
  <2>1. PICK y \in Of("unbalanced", x) \X Stmt : y[1] = c /\ y[2] = r
    BY Couple
  <2> QED BY <1>1, <2>1 DEF UnbalancedReturns
<1>2. ASSUME u \in UnbalancedReturns(x)
      PROVE  \E c \in Of("unbalanced", x), r \in Stmt :
               r \in SuccsOf[c.s] /\ u = <<c.s, c.q, <<r, c.v>>>>
  <2>1. PICK y \in Of("unbalanced", x) \X Stmt :
           y[2] \in SuccsOf[y[1].s] /\ u = <<y[1].s, y[1].q, <<y[2], y[1].v>>>>
    BY <1>2 DEF UnbalancedReturns
  <2>2. y[1] \in Of("unbalanced", x) /\ y[2] \in Stmt
    BY <2>1
  <2> QED BY <2>1, <2>2
<1> QED BY <1>1, <1>2

LEMMA ExtendedMonotone ==
    ASSUME NEW x, NEW y, AtMost(x, y)
    PROVE  AtMost(Extended(x), Extended(y))
<1>1. Reached(x) \subseteq Reached(y)
  BY DEF AtMost, Reached
<1>2. \A op : Of(op, x) \subseteq Of(op, y)
  <2>1. ASSUME NEW c \in Calls(x) PROVE c \in Calls(y)
    BY <1>1, InCallsOf, Zenon
  <2> QED BY <2>1 DEF Of
<1>3. Imports(x) \subseteq Imports(y)
  <2>1. PairsOf(x.returns, x.byPass) \subseteq PairsOf(y.returns, y.byPass)
    <3>1. x.returns \X x.byPass \subseteq y.returns \X y.byPass
      BY DEF AtMost
    <3> QED BY <3>1 DEF PairsOf
  <2>2. x.field \subseteq y.field
    BY DEF AtMost
  <2> QED BY <1>1, <2>1, <2>2 DEF Imports
<1>4. UnbalancedReturns(x) \subseteq UnbalancedReturns(y)
  <2>1. ASSUME NEW u \in UnbalancedReturns(x) PROVE u \in UnbalancedReturns(y)
    <3>1. PICK c \in Of("unbalanced", x), r \in Stmt :
             r \in SuccsOf[c.s] /\ u = <<c.s, c.q, <<r, c.v>>>>
      BY InUnbalanced
    <3>2. c \in Of("unbalanced", y)
      BY <1>2, <3>1
    <3> QED BY <3>1, <3>2, InUnbalanced
  <2> QED BY <2>1
<1>5. x.solved \subseteq y.solved /\ x.field \subseteq y.field /\ x.calls \subseteq y.calls
      /\ x.context \subseteq y.context /\ x.returns \subseteq y.returns /\ x.byPass \subseteq y.byPass
  BY DEF AtMost
<1>6. NewFields(x) \subseteq NewFields(y)
  <2>1. ASSUME NEW f \in NewFields(x) PROVE f \in NewFields(y)
    <3>1. \/ \E q \in x.solved : f = <<q, StartsAt[q], EmptyField>>
          \/ \E c \in Of("insert", x) : f = <<c.q, c.n, c.l>>
          \/ \E i \in Imports(x) : f = <<i[1].flow, AsNode[i[1].byPassing], Epsilon>>
          \/ \E i \in Imports(x), t \in x.field :
               t[1] = i[1].byPassing /\ t[2] = i[2] /\ f = <<i[1].flow, t[2], t[3]>>
      BY InNewFields
    <3>2. \/ \E q \in y.solved : f = <<q, StartsAt[q], EmptyField>>
          \/ \E c \in Of("insert", y) : f = <<c.q, c.n, c.l>>
          \/ \E i \in Imports(y) : f = <<i[1].flow, AsNode[i[1].byPassing], Epsilon>>
          \/ \E i \in Imports(y), t \in y.field :
               t[1] = i[1].byPassing /\ t[2] = i[2] /\ f = <<i[1].flow, t[2], t[3]>>
      BY <1>2, <1>3, <1>5, <3>1
    <3> QED BY <3>2, InNewFields
  <2> QED BY <2>1
<1>7. NewCalls(x) \subseteq NewCalls(y)
  BY <1>2, <1>3, <1>4, <1>5 DEF NewCalls
<1>8. NewReturns(x) \subseteq NewReturns(y)
  BY <1>2, <1>4 DEF NewReturns, Nonstatic
<1>9. /\ {c.q : c \in Of("solve", x)} \subseteq {c.q : c \in Of("solve", y)}
      /\ {<<c.s, c.q>> : c \in Of("byPass", x)} \subseteq {<<c.s, c.q>> : c \in Of("byPass", y)}
      /\ {<<t[1], t[2]>> : t \in x.field} \subseteq {<<t[1], t[2]>> : t \in y.field}
  BY <1>2, <1>5
<1> QED BY <1>5, <1>6, <1>7, <1>8, <1>9, ExtendedFields DEF AtMost

LEMMA ExtendedGrows ==
    ASSUME NEW x
    PROVE  AtMost(x, Extended(x))
BY ExtendedFields DEF AtMost

LEMMA ExtendedTypes ==
    ASSUME NEW x \in Findings
    PROVE  Extended(x) \in Findings
<1>1. /\ x.solved \subseteq Query /\ x.field \subseteq Query \X Node \X Label
      /\ x.context \subseteq Query \X Node /\ x.calls \subseteq Query \X Node
      /\ x.returns \subseteq Stmt \X Query \X Node /\ x.byPass \subseteq Stmt \X Query
  BY DEF Findings
<1>2. ASSUME NEW c \in Calls(x) PROVE c \in FoundCall
  <2>1. PICK y \in Reached(x) : c \in Found(y[1], y[2]) \cup EnterCall(y[1], y[2])
    BY InCallsOf
  <2>2. y[1] \in Query /\ y[2] \in Node
    BY <1>1, <2>1 DEF Reached
  <2> QED BY <2>1, <2>2, NodeCalls
<1>3. \A op : \A c \in Of(op, x) : c \in FoundCall /\ c.op = op
  BY <1>2 DEF Of
<1>4. \A c \in Of("solve", x) : c.q \in Query
  BY <1>3, CallSitesAssumption DEF FoundCall
<1>5. \A c \in Of("insert", x) : c.q \in Query /\ c.n \in Node /\ c.l \in Label
  BY <1>3 DEF FoundCall, Label
<1>6. \A c \in Of("callContext", x) : c.q \in Query /\ c.n \in Node
  BY <1>3 DEF FoundCall
<1>7. \A c \in Of("returns", x) : c.s \in Stmt /\ c.q \in Query /\ c.n \in Node
  BY <1>3 DEF FoundCall
<1>8. \A c \in Of("byPass", x) : c.s \in Stmt /\ c.q \in Query
  BY <1>3 DEF FoundCall
<1>9. ASSUME NEW u \in UnbalancedReturns(x)
      PROVE  /\ u \in Stmt \X Query \X Node /\ u[2] \in Query /\ u[3] \in Node
  <2>1. PICK c \in Of("unbalanced", x), r \in Stmt :
           r \in SuccsOf[c.s] /\ u = <<c.s, c.q, <<r, c.v>>>>
    BY InUnbalanced
  <2>2. c.s \in Stmt /\ c.q \in Query /\ c.v \in Val
    BY <1>3 DEF FoundCall
  <2> QED BY <2>1, <2>2 DEF Node
<1>10. ASSUME NEW i \in Imports(x)
       PROVE  i[1].flow \in Query /\ i[1].byPassing \in Query /\ i[2] \in Node
  <2>1. i[1] \in PairsOf(x.returns, x.byPass) /\ i[2] \in Node
    BY DEF Imports
  <2>2. PICK z \in x.returns \X x.byPass : i[1] = Pair(z[1][1], z[2][2], z[1][2], z[1][3])
    BY <2>1 DEF PairsOf
  <2>3. z[1][2] \in Query /\ z[2][2] \in Query
    BY <1>1, <2>2
  <2> QED BY <2>1, <2>2, <2>3 DEF Pair
<1>11. NewFields(x) \subseteq Query \X Node \X Label
  <2>1. ASSUME NEW f \in NewFields(x) PROVE f \in Query \X Node \X Label
    <3>1. \A q \in x.solved : <<q, StartsAt[q], EmptyField>> \in Query \X Node \X Label
      BY <1>1, CallSitesAssumption DEF Label
    <3>2. \A i \in Imports(x) :
            <<i[1].flow, AsNode[i[1].byPassing], Epsilon>> \in Query \X Node \X Label
      BY <1>10, CallSitesAssumption DEF Label
    <3>3. \A i \in Imports(x), t \in x.field :
            <<i[1].flow, t[2], t[3]>> \in Query \X Node \X Label
      BY <1>1, <1>10
    <3>4. \A c \in Of("insert", x) : <<c.q, c.n, c.l>> \in Query \X Node \X Label
      BY <1>5
    <3> QED BY <3>1, <3>2, <3>3, <3>4, InNewFields
  <2> QED BY <2>1
<1>12. NewCalls(x) \subseteq Query \X Node
  <2>1. ASSUME NEW f \in NewCalls(x) PROVE f \in Query \X Node
    <3>1. \A q \in x.solved : <<q, StartsAt[q]>> \in Query \X Node
      BY <1>1, CallSitesAssumption
    <3>2. \A i \in Imports(x) : <<i[1].flow, i[2]>> \in Query \X Node
      BY <1>10
    <3>3. \A u \in UnbalancedReturns(x) : <<u[2], u[3]>> \in Query \X Node
      BY <1>9
    <3>4. \A c \in Of("callContext", x) : <<c.q, c.n>> \in Query \X Node
      BY <1>6
    <3>5. \/ \E q \in x.solved : f = <<q, StartsAt[q]>>
          \/ \E c \in Of("callContext", x) : f = <<c.q, c.n>>
          \/ \E u \in UnbalancedReturns(x) : f = <<u[2], u[3]>>
          \/ \E i \in Imports(x) :
               <<i[1].flow, i[1].n>> \in x.calls /\ f = <<i[1].flow, i[2]>>
      BY DEF NewCalls
    <3> QED BY <3>1, <3>2, <3>3, <3>4, <3>5
  <2> QED BY <2>1
<1>13. NewReturns(x) \subseteq Stmt \X Query \X Node
  BY <1>7, <1>9 DEF NewReturns, Nonstatic
<1>14. /\ Extended(x).solved \subseteq Query /\ Extended(x).field \subseteq Query \X Node \X Label
       /\ Extended(x).context \subseteq Query \X Node /\ Extended(x).calls \subseteq Query \X Node
       /\ Extended(x).returns \subseteq Stmt \X Query \X Node
       /\ Extended(x).byPass \subseteq Stmt \X Query
  BY <1>1, <1>4, <1>8, <1>11, <1>12, <1>13, ExtendedFields
<1>15. Extended(x) = [solved |-> Extended(x).solved, field |-> Extended(x).field,
                      context |-> Extended(x).context, calls |-> Extended(x).calls,
                      returns |-> Extended(x).returns, byPass |-> Extended(x).byPass]
  BY ExtendedFields, Zenon DEF Extended
<1> QED BY <1>14, <1>15 DEF Findings

\* All that was found, each fact with the part it is in.
Parts(x) ==
    (({"solved"} \X x.solved) \cup ({"field"} \X x.field))
      \cup (({"context"} \X x.context) \cup ({"calls"} \X x.calls))
      \cup (({"returns"} \X x.returns) \cup ({"byPass"} \X x.byPass))

LEMMA TriplesFinite ==
    ASSUME NEW A, NEW B, NEW C, IsFiniteSet(A), IsFiniteSet(B), IsFiniteSet(C)
    PROVE  IsFiniteSet(A \X B \X C)
<1> DEFINE S == A \X B \X C
           AB == A \X B
           T == AB \X C
           f == [t \in S |-> <<<<t[1], t[2]>>, t[3]>>]
<1>1. IsFiniteSet(AB)
  BY FS_Product
<1>2. IsFiniteSet(T)
  BY <1>1, FS_Product
<1>3. f \in [S -> T]
  OBVIOUS
<1>4. ASSUME NEW a \in S, NEW b \in S, f[a] = f[b] PROVE a = b
  BY <1>4
<1> HIDE DEF S, T, f
<1>5. IsFiniteSet(S)
  BY <1>2, <1>3, <1>4, NamedFinite
<1> QED BY <1>5 DEF S

LEMMA PartsFinite ==
    LET all == [solved |-> Query, field |-> Query \X Node \X Label, context |-> Query \X Node,
                calls |-> Query \X Node, returns |-> Stmt \X Query \X Node, byPass |-> Stmt \X Query]
    IN  IsFiniteSet(Parts(all)) /\ \A x \in Findings : Parts(x) \subseteq Parts(all)
<1> DEFINE all == [solved |-> Query, field |-> Query \X Node \X Label, context |-> Query \X Node,
                   calls |-> Query \X Node, returns |-> Stmt \X Query \X Node,
                   byPass |-> Stmt \X Query]
           FF == Query \X Node \X Label
           QN == Query \X Node
           RR == Stmt \X Query \X Node
           SQ == Stmt \X Query
           a == {"solved"} \X Query
           b == {"field"} \X FF
           c == {"context"} \X QN
           d == {"calls"} \X QN
           e == {"returns"} \X RR
           f == {"byPass"} \X SQ
<1>1. /\ IsFiniteSet({"solved"}) /\ IsFiniteSet({"field"}) /\ IsFiniteSet({"context"})
      /\ IsFiniteSet({"calls"}) /\ IsFiniteSet({"returns"}) /\ IsFiniteSet({"byPass"})
  BY FS_Singleton
<1>2. IsFiniteSet(Node)
  BY CallSitesFinite, FS_Product DEF Node
<1>3. IsFiniteSet(Label)
  <2>1. IsFiniteSet({Epsilon})
    BY FS_Singleton
  <2> QED BY <2>1, CallSitesFinite, FS_Union DEF Label
<1>4. IsFiniteSet(FF) /\ IsFiniteSet(RR)
  BY <1>2, <1>3, CallSitesFinite, TriplesFinite
<1>5. IsFiniteSet(QN) /\ IsFiniteSet(SQ)
  BY <1>2, CallSitesFinite, FS_Product
<1>6. Parts(all) = (a \cup b) \cup (c \cup d) \cup (e \cup f)
  BY DEF Parts
<1>7. \A x \in Findings : Parts(x) \subseteq Parts(all)
  BY DEF Parts, Findings
<1> HIDE DEF FF, QN, RR, SQ
<1>8. /\ IsFiniteSet(a) /\ IsFiniteSet(b) /\ IsFiniteSet(c) /\ IsFiniteSet(d)
      /\ IsFiniteSet(e) /\ IsFiniteSet(f)
  BY <1>1, <1>4, <1>5, CallSitesFinite, FS_Product
<1> HIDE DEF a, b, c, d, e, f
<1>9. IsFiniteSet(a \cup b) /\ IsFiniteSet(c \cup d) /\ IsFiniteSet(e \cup f)
  BY <1>8, FS_Union
<1>10. IsFiniteSet((a \cup b) \cup (c \cup d))
  BY <1>9, FS_Union
<1>11. IsFiniteSet((a \cup b) \cup (c \cup d) \cup (e \cup f))
  BY <1>9, <1>10, FS_Union
<1>12. IsFiniteSet(Parts(all))
  BY <1>6, <1>11
<1> QED BY <1>7, <1>12

LEMMA PartsGrow ==
    ASSUME NEW x \in Findings, NEW y \in Findings, AtMost(x, y)
    PROVE  /\ Parts(x) \subseteq Parts(y)
           /\ Parts(x) = Parts(y) => x = y
<1>1. Parts(x) \subseteq Parts(y)
  BY DEF Parts, AtMost
<1>2. ASSUME Parts(x) = Parts(y) PROVE x = y
  <2>1. ASSUME NEW p \in y.solved PROVE p \in x.solved
    <3>1. <<"solved", p>> \in Parts(x)
      BY <1>2 DEF Parts
    <3> QED BY <3>1 DEF Parts
  <2>2. ASSUME NEW p \in y.field PROVE p \in x.field
    <3>1. <<"field", p>> \in Parts(x)
      BY <1>2 DEF Parts
    <3> QED BY <3>1 DEF Parts
  <2>3. ASSUME NEW p \in y.context PROVE p \in x.context
    <3>1. <<"context", p>> \in Parts(x)
      BY <1>2 DEF Parts
    <3> QED BY <3>1 DEF Parts
  <2>4. ASSUME NEW p \in y.calls PROVE p \in x.calls
    <3>1. <<"calls", p>> \in Parts(x)
      BY <1>2 DEF Parts
    <3> QED BY <3>1 DEF Parts
  <2>5. ASSUME NEW p \in y.returns PROVE p \in x.returns
    <3>1. <<"returns", p>> \in Parts(x)
      BY <1>2 DEF Parts
    <3> QED BY <3>1 DEF Parts
  <2>6. ASSUME NEW p \in y.byPass PROVE p \in x.byPass
    <3>1. <<"byPass", p>> \in Parts(x)
      BY <1>2 DEF Parts
    <3> QED BY <3>1 DEF Parts
  <2>7. /\ x.solved = y.solved /\ x.field = y.field /\ x.context = y.context
        /\ x.calls = y.calls /\ x.returns = y.returns /\ x.byPass = y.byPass
    BY <2>1, <2>2, <2>3, <2>4, <2>5, <2>6 DEF AtMost
  <2> QED BY <2>7 DEF Findings
<1> QED BY <1>1, <1>2

LEMMA FixpointLeast ==
    ASSUME NEW x \in Findings
    PROVE  /\ IsClosed(Fixpoint[x]) /\ AtMost(x, Fixpoint[x])
           /\ \A S : IsClosed(S) /\ AtMost(x, S) => AtMost(Fixpoint[x], S)
<1> DEFINE all == [solved |-> Query, field |-> Query \X Node \X Label, context |-> Query \X Node,
                   calls |-> Query \X Node, returns |-> Stmt \X Query \X Node,
                   byPass |-> Stmt \X Query]
           U == Parts(all)
           next == [y \in Findings |-> Extended(y)]
           rank == [y \in Findings |-> Parts(y)]
<1>1. IsFiniteSet(U) /\ rank \in [Findings -> SUBSET U]
  BY PartsFinite
<1>2. next \in [Findings -> Findings]
  BY ExtendedTypes
<1>3. ASSUME NEW y \in Findings
      PROVE  /\ next[y] = Extended(y)
             /\ next[y] = y \/ (rank[y] \subseteq rank[next[y]] /\ rank[y] # rank[next[y]])
  <2>1. next[y] = Extended(y) /\ Extended(y) \in Findings /\ AtMost(y, Extended(y))
    BY ExtendedTypes, ExtendedGrows
  <2>2. rank[y] = Parts(y) /\ rank[next[y]] = Parts(Extended(y))
    BY <2>1
  <2>3. Parts(y) \subseteq Parts(Extended(y)) /\ (Parts(y) = Parts(Extended(y)) => y = Extended(y))
    BY <2>1, PartsGrow
  <2> QED BY <2>1, <2>2, <2>3
<1>4. \A f : Repeats(Findings, next, f) <=>
        f = [y \in Findings |-> IF Extended(y) = y THEN y ELSE f[Extended(y)]]
  <2> SUFFICES ASSUME NEW f
               PROVE  [y \in Findings |-> IF next[y] = y THEN y ELSE f[next[y]]]
                    = [y \in Findings |-> IF Extended(y) = y THEN y ELSE f[Extended(y)]]
    BY DEF Repeats
  <2> QED OBVIOUS
<1> HIDE DEF U, next, rank
<1>5. Climbs(Findings, U, next, rank)
  BY <1>1, <1>2, <1>3 DEF Climbs
<1>6. Repeats(Findings, next, Fixpoint)
  <2>1. \E f : Repeats(Findings, next, f)
    BY <1>5, ClosureExists
  <2> QED BY <1>4, <2>1, Zenon DEF Fixpoint
<1> DEFINE y == Fixpoint[x]
<1>7. /\ y \in Findings /\ next[y] = y
      /\ \A S \in SUBSET Findings : x \in S /\ (\A z \in S : next[z] \in S) => y \in S
  BY <1>5, <1>6, ClosureEnds
<1> HIDE DEF y
<1>8. IsClosed(y)
  BY <1>3, <1>7 DEF IsClosed
<1>9. AtMost(x, y)
  <2> DEFINE above == {z \in Findings : AtMost(x, z)}
  <2>1. x \in above
    BY DEF AtMost
  <2>2. ASSUME NEW z \in above PROVE next[z] \in above
    <3>1. next[z] = Extended(z) /\ Extended(z) \in Findings /\ AtMost(z, Extended(z)) /\ AtMost(x, z)
      BY <1>3, ExtendedTypes, ExtendedGrows
    <3>2. AtMost(x, Extended(z))
      BY <3>1 DEF AtMost
    <3> QED BY <3>1, <3>2
  <2>3. y \in above
    BY <1>7, <2>1, <2>2
  <2> QED BY <2>3
<1>10. ASSUME NEW S, IsClosed(S), AtMost(x, S)
       PROVE  AtMost(y, S)
  <2> DEFINE below == {z \in Findings : AtMost(z, S)}
  <2>1. x \in below
    BY <1>10
  <2>2. ASSUME NEW z \in below PROVE next[z] \in below
    <3>1. next[z] = Extended(z) /\ Extended(z) \in Findings /\ AtMost(z, S) /\ Extended(S) = S
      BY <1>3, <1>10, ExtendedTypes DEF IsClosed
    <3>2. AtMost(Extended(z), Extended(S))
      BY <3>1, ExtendedMonotone
    <3>3. AtMost(Extended(z), S)
      BY <3>1, <3>2
    <3> QED BY <3>1, <3>3
  <2>3. y \in below
    BY <1>7, <2>1, <2>2
  <2> QED BY <2>3
<1> QED BY <1>8, <1>9, <1>10 DEF y

LEMMA ExpectedLeast ==
    ASSUME solved \subseteq Query
    PROVE  IsLeast(Expected[solved])
<1> DEFINE x == [Nothing EXCEPT !.solved = solved]
<1>1. Expected[solved] = Fixpoint[x]
  BY DEF Expected
<1>2. x \in Findings
  BY DEF Findings, Nothing
<1>3. \A S : S \in Findings => (solved \subseteq S.solved <=> AtMost(x, S))
  BY DEF AtMost, Nothing, Findings
<1> HIDE DEF x
<1>4. /\ IsClosed(Fixpoint[x]) /\ AtMost(x, Fixpoint[x])
      /\ \A S : IsClosed(S) /\ AtMost(x, S) => AtMost(Fixpoint[x], S)
  BY <1>2, FixpointLeast
<1>5. solved \subseteq Fixpoint[x].solved
  BY <1>3, <1>4 DEF IsClosed
<1>6. ASSUME NEW S, IsClosed(S), solved \subseteq S.solved
      PROVE  AtMost(Fixpoint[x], S)
  BY <1>3, <1>4, <1>6 DEF IsClosed
<1>7. IsLeast(Fixpoint[x])
  BY <1>4, <1>5, <1>6 DEF IsLeast, AtMost
<1> QED BY <1>1, <1>7

\* Hence the property that is checked: when the outermost call returns, the
\* solvers have found out what the fixpoint computed in CallSitesFixpoint says,
\* in whatever order and nesting the events came.
\* (returnsFromCall, addByPassingAllocation, OnReturnNodeReachle, ImportFlowAtReturn)
THEOREM OrderNeverMatters == Spec => []ImportsExact
<1>1. PairInv /\ Followed /\ Heeded /\ SolvedOK => ImportsExact
  <2> SUFFICES ASSUME PairInv, Followed, Heeded, SolvedOK, Idle
               PROVE  OutcomeOf(Expected[solved])
    BY DEF ImportsExact
  <2>1. IsLeast(Facts) /\ OutcomeOf(Facts)
    BY FactsLeast DEF Settled
  <2>2. PICK x : x = Expected[solved]
    OBVIOUS
  <2>3. IsLeast(x)
    BY <2>2, ExpectedLeast DEF SolvedOK
  <2>4. /\ x.field = Facts.field /\ x.context = Facts.context /\ x.calls = Facts.calls
        /\ x.returns = Facts.returns /\ x.byPass = Facts.byPass
    BY <2>1, <2>3, LeastUnique
  <2>5. OutcomeOf(x)
    BY <2>1, <2>4 DEF OutcomeOf, Reached
  <2> QED BY <2>2, <2>5
<1> QED BY <1>1, ImportInvariant, PTL
=============================================================================
