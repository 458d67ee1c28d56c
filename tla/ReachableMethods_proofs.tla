----------------------- MODULE ReachableMethods_proofs -----------------------
(***************************************************************************)
(* Theorems about who knows which methods are reachable: ReachableQueue,   *)
(* for every set of solvers, methods, work and queries, and then Seeds,    *)
(* for every call graph, initializers and queries.  The names of Seeds are *)
(* chosen so that one module can extend both.                              *)
(*                                                                         *)
(* ReachableQueue: a runnable runs once, none is lost, and forward solvers *)
(* know what their backward solvers know.                                  *)
(***************************************************************************)
EXTENDS ReachableQueue, Seeds, CallStack_proofs

(***************************************************************************)
(* The inductive invariant.                                                *)
(***************************************************************************)
\* A runnable that is about to run has not run, and may.
PendingSound ==
    \A i \in DOMAIN agenda : \A r \in Runnable :
      Run(r) \in agenda[i] => r \in Created \ ran /\ MayRun(r)

\* It is in one loop only.
PendingOnce == \A r \in Runnable : Once(Run(r))

RanSound == \A r \in ran : r \in Created /\ MayRun(r)

QueuedSound == \A r \in queued : r \in Created /\ onTheFlyCallGraph

\* NothingLost, in terms of the runnables.
CreatedKept ==
    \A r \in Created :
      /\ MayRun(r) => r \in ran \/ Pending(Run(r))
      /\ ~MayRun(r) => r \in queued

\* A method that has not reached a forward solver is on its way.
OnItsWay(s, l, m) ==
    \/ m \in reachable[l.forward]
    \/ Pending([op |-> "addReachable", s |-> l.forward, m |-> m])
    \/ Pending(Hear(l, m))
    \/ Pending([op |-> "notify", s |-> s, m |-> m])

Forwarding ==
    \A s \in Solver : \A l \in listeners[s] : \A m \in reachable[s] : OnItsWay(s, l, m)

QueueInv ==
    /\ TypeOK /\ PendingSound /\ PendingOnce /\ RanSound /\ QueuedSound
    /\ CreatedKept /\ Forwarding

\* Runs that a call adds, in the first loop it makes, are new and allowed.
LEMMA RunsAfter ==
    ASSUME PendingSound, PendingOnce, agenda \in Seq(SUBSET Call),
           NEW c \in Innermost, NEW body \in Seq(SUBSET Call), Return(c, body),
           NEW R,
           \A i \in DOMAIN body : \A r \in Runnable : Run(r) \in body[i] => i = 1 /\ r \in R,
           \A r \in R : ~Pending(Run(r)) /\ r \in Created' \ ran' /\ MayRun(r)',
           \A r \in Runnable : MayRun(r) => MayRun(r)',
           Created \subseteq Created',
           \A r \in ran' \ ran : c = Run(r)
    PROVE  PendingSound' /\ PendingOnce'
<1>1. agenda' \in Seq(SUBSET Call) /\ Stacked(c, body) /\ c \in agenda[1]
      /\ 1 \in DOMAIN agenda
  BY ReturnStack
<1>2. ASSUME NEW i \in DOMAIN agenda', NEW r \in Runnable, Run(r) \in agenda'[i]
      PROVE  r \in Created' \ ran' /\ MayRun(r)'
  <2>1. CASE i \in DOMAIN body /\ agenda'[i] = body[i]
    <3>1. r \in R
      BY <2>1, <1>2
    <3> QED BY <3>1
  <2>2. CASE \E k \in DOMAIN agenda :
               /\ i = k + Len(body)
               /\ agenda'[i] \subseteq agenda[k]
               /\ k = 1 => c \notin agenda'[i]
    <3>1. PICK k \in DOMAIN agenda : /\ agenda'[i] \subseteq agenda[k]
                                     /\ k = 1 => c \notin agenda'[i]
      BY <2>2
    <3>2. r \in Created \ ran /\ MayRun(r)
      BY <3>1, <1>2 DEF PendingSound
    <3>3. c # Run(r)
      BY <3>1, <1>1, <1>2 DEF PendingOnce, Once
    <3> QED BY <3>2, <3>3
  <2>3. \/ i \in DOMAIN body /\ agenda'[i] = body[i]
        \/ \E k \in DOMAIN agenda :
             /\ i = k + Len(body)
             /\ agenda'[i] \subseteq agenda[k]
             /\ k = 1 => c \notin agenda'[i]
    BY <1>1, LoopAfter
  <2> QED BY <2>1, <2>2, <2>3
<1>3. ASSUME NEW r \in Runnable PROVE Once(Run(r))'
  <2>1. Once(Run(r))
    BY DEF PendingOnce
  <2>2. \A i \in DOMAIN body : Run(r) \in body[i] => i = 1 /\ ~Pending(Run(r))
    OBVIOUS
  <2> QED BY <1>1, <2>1, <2>2, OnceAfter
<1>4. PendingOnce'
  BY <1>3 DEF PendingOnce
<1> QED BY <1>2, <1>4 DEF PendingSound

(***************************************************************************)
(* What most actions leave as it is.                                       *)
(***************************************************************************)
LEMMA BodyTypes ==
    /\ <<>> \in Seq(SUBSET Call)
    /\ \A A \in SUBSET Call : <<A>> \in Seq(SUBSET Call)
    /\ \A A \in SUBSET Call, B \in SUBSET Call : <<A, B>> \in Seq(SUBSET Call)
OBVIOUS

LEMMA UserCallsRunNothing ==
    /\ UserCall \subseteq Call
    /\ Seq(SUBSET UserCall) \subseteq Seq(SUBSET Call)
    /\ \A r \in Runnable : Run(r) \notin UserCall
<1>1. UserCall \subseteq Call
  BY DEF Call
<1>2. SUBSET UserCall \subseteq SUBSET Call
  BY <1>1
<1>3. Seq(SUBSET UserCall) \subseteq Seq(SUBSET Call)
  BY <1>2
<1>4. \A r : Run(r) \notin UserCall
  BY DEF Run, UserCall, ReachCall, SubmitCall, RegisterCall
<1> QED BY <1>1, <1>3, <1>4

LEMMA CallFields ==
    ASSUME NEW c \in Call
    PROVE  /\ c.op \in {"addReachable", "notify"} => c.s \in Solver /\ c.m \in Method
           /\ c.op = "submit" => c.s \in Solver /\ c.w \in Work
           /\ c.op = "register" => c.s \in Solver /\ c.l \in Listener
           /\ c.op = "run" => c.r \in Runnable /\ c = Run(c.r)
           /\ c.op = "reachable" => c.l \in Listener /\ c.m \in Method /\ c = Hear(c.l, c.m)
BY DEF Call, UserCall, ReachCall, SubmitCall, RegisterCall, NotifyCall, RunCall, HearCall,
       Run, Hear

LEMMA CallsAreCalls ==
    /\ \A r \in Runnable : Run(r) \in Call
    /\ \A l \in Listener, m \in Method : Hear(l, m) \in Call
    /\ \A s \in Solver, m \in Method :
         /\ [op |-> "addReachable", s |-> s, m |-> m] \in Call
         /\ [op |-> "notify", s |-> s, m |-> m] \in Call
    /\ \A r : \A l, m : Run(r) # Hear(l, m)
    /\ \A r : \A s, m : /\ Run(r) # [op |-> "addReachable", s |-> s, m |-> m]
                        /\ Run(r) # [op |-> "notify", s |-> s, m |-> m]
BY DEF Call, UserCall, ReachCall, NotifyCall, RunCall, HearCall, Run, Hear

LEMMA SameRuns ==
    ASSUME UNCHANGED <<onTheFlyCallGraph, submits, reachable>>
    PROVE  /\ Created' = Created
           /\ \A r : MayRun(r)' <=> MayRun(r)
BY DEF Created, MayRun

\* A call that runs nothing and adds no runs changes nothing about runnables.
LEMMA QuietKept ==
    ASSUME QueueInv, NEW c \in Innermost, c.op # "run",
           NEW body \in Seq(SUBSET Call), Return(c, body),
           \A i \in DOMAIN body : \A r \in Runnable : Run(r) \notin body[i],
           UNCHANGED <<onTheFlyCallGraph, submits, reachable, queued, ran>>
    PROVE  PendingSound' /\ PendingOnce' /\ RanSound' /\ QueuedSound' /\ CreatedKept'
<1>1. Created' = Created /\ \A r : MayRun(r)' <=> MayRun(r)
  BY SameRuns
<1>2. agenda \in Seq(SUBSET Call) /\ PendingSound /\ PendingOnce
  BY DEF QueueInv, TypeOK
<1>3. PendingSound' /\ PendingOnce'
  <2> DEFINE R == {}
  <2>1. \A i \in DOMAIN body : \A r \in Runnable : Run(r) \in body[i] => i = 1 /\ r \in R
    OBVIOUS
  <2>2. \A r \in R : ~Pending(Run(r)) /\ r \in Created' \ ran' /\ MayRun(r)'
    OBVIOUS
  <2>3. \A r \in ran' \ ran : c = Run(r)
    OBVIOUS
  <2>4. \A r \in Runnable : MayRun(r) => MayRun(r)'
    BY <1>1
  <2>5. Created \subseteq Created'
    BY <1>1
  <2> HIDE DEF R
  <2> QED BY <1>2, <2>1, <2>2, <2>3, <2>4, <2>5, RunsAfter
<1>4. RanSound' /\ QueuedSound'
  BY <1>1 DEF QueueInv, RanSound, QueuedSound
<1>5. \A r : Pending(Run(r)) => Pending(Run(r))'
  <2>1. \A r : Run(r) # c
    BY DEF Run
  <2>2. Stacked(c, body)
    BY <1>2, ReturnStack
  <2> QED BY <2>1, <2>2, PendingAfter
<1>6. CreatedKept'
  BY <1>1, <1>5 DEF QueueInv, CreatedKept
<1> QED BY <1>3, <1>4, <1>6

\* What is on its way stays so until the call that carries it is made.
LEMMA OnItsWayKept ==
    ASSUME NEW c, NEW body, Stacked(c, body), NEW s, NEW l, NEW m, OnItsWay(s, l, m),
           reachable[l.forward] \subseteq reachable'[l.forward],
           c # [op |-> "addReachable", s |-> l.forward, m |-> m],
           c # Hear(l, m), c # [op |-> "notify", s |-> s, m |-> m]
    PROVE  OnItsWay(s, l, m)'
<1>1. \A d : Pending(d) /\ d # c => Pending(d)'
  BY PendingAfter
<1> QED BY <1>1 DEF OnItsWay

LEMMA InitInv == Init => QueueInv
<1> SUFFICES ASSUME Init PROVE QueueInv
  OBVIOUS
<1>1. Created = {}
  BY DEF Init, Created, Runnable
<1>2. TypeOK
  BY ReachableQueueAssumption DEF Init, TypeOK
<1>3. PendingSound /\ PendingOnce
  BY DEF Init, PendingSound, PendingOnce, Once
<1>4. RanSound /\ QueuedSound /\ CreatedKept /\ Forwarding
  BY <1>1 DEF Init, RanSound, QueuedSound, CreatedKept, Forwarding
<1> QED BY <1>2, <1>3, <1>4 DEF QueueInv

LEMMA NotifyInv == ASSUME QueueInv, NEW c \in Innermost, NotifyListeners(c) PROVE QueueInv'
<1> DEFINE body == <<{Hear(l, c.m) : l \in listeners[c.s]}>>
<1>1. agenda \in Seq(SUBSET Call) /\ c \in Call /\ c.s \in Solver /\ c.m \in Method
      /\ listeners[c.s] \subseteq Listener
  <2>1. agenda \in Seq(SUBSET Call)
    BY DEF QueueInv, TypeOK
  <2>2. c \in Call
    BY <2>1 DEF Innermost
  <2> QED BY <2>1, <2>2, CallFields DEF NotifyListeners, QueueInv, TypeOK
<1>2. body \in Seq(SUBSET Call) /\ DOMAIN body = {1}
      /\ body[1] = {Hear(l, c.m) : l \in listeners[c.s]}
  <2>1. {Hear(l, c.m) : l \in listeners[c.s]} \in SUBSET Call
    BY <1>1, CallsAreCalls
  <2> QED BY <2>1, BodyTypes
<1>3. Return(c, body) /\ c.op = "notify" /\ UNCHANGED data
  BY DEF NotifyListeners
<1>4. \A i \in DOMAIN body : \A r \in Runnable : Run(r) \notin body[i]
  BY <1>2, CallsAreCalls
<1> HIDE DEF body
<1>5. PendingSound' /\ PendingOnce' /\ RanSound' /\ QueuedSound' /\ CreatedKept'
  BY <1>2, <1>3, <1>4, QuietKept DEF data
<1>6. agenda' \in Seq(SUBSET Call) /\ Stacked(c, body)
  BY <1>1, <1>2, <1>3, ReturnStack
<1>7. TypeOK'
  BY <1>3, <1>6 DEF QueueInv, TypeOK, data
<1>8. ASSUME NEW s \in Solver, NEW l \in listeners'[s], NEW m \in reachable'[s]
      PROVE  OnItsWay(s, l, m)'
  <2>1. OnItsWay(s, l, m) /\ reachable' = reachable /\ listeners' = listeners
    BY <1>3 DEF QueueInv, Forwarding, data
  <2>2. CASE c = [op |-> "notify", s |-> s, m |-> m]
    <3>1. Hear(l, m) \in body[1]
      BY <1>2, <2>1, <2>2
    <3>2. Pending(Hear(l, m))'
      BY <1>2, <1>6, <3>1, PendingAfter
    <3> QED BY <3>2 DEF OnItsWay
  <2>3. CASE c # [op |-> "notify", s |-> s, m |-> m]
    <3>1. c # [op |-> "addReachable", s |-> l.forward, m |-> m] /\ c # Hear(l, m)
      BY <1>3 DEF Hear
    <3> QED BY <1>6, <2>1, <2>3, <3>1, OnItsWayKept
  <2> QED BY <2>2, <2>3
<1>9. Forwarding'
  BY <1>8 DEF Forwarding
<1> QED BY <1>5, <1>7, <1>9 DEF QueueInv

LEMMA InnermostCall ==
    ASSUME QueueInv, NEW c \in Innermost
    PROVE  agenda \in Seq(SUBSET Call) /\ c \in Call
<1>1. agenda \in Seq(SUBSET Call)
  BY DEF QueueInv, TypeOK
<1> QED BY <1>1 DEF Innermost

LEMMA ReachableInv == ASSUME QueueInv, NEW c \in Innermost, Reachable(c) PROVE QueueInv'
<1> DEFINE d == [op |-> "addReachable", s |-> c.l.forward, m |-> c.m]
           body == <<{d}>>
<1>1. agenda \in Seq(SUBSET Call) /\ c.l \in Listener /\ c.m \in Method /\ c = Hear(c.l, c.m)
  BY InnermostCall, CallFields DEF Reachable
<1>2. body \in Seq(SUBSET Call) /\ DOMAIN body = {1} /\ body[1] = {d}
  <2>1. {d} \in SUBSET Call
    BY <1>1, CallsAreCalls DEF Listener
  <2> QED BY <2>1, BodyTypes
<1>3. Return(c, body) /\ c.op = "reachable" /\ UNCHANGED data
  BY DEF Reachable
<1>4. \A i \in DOMAIN body : \A r \in Runnable : Run(r) \notin body[i]
  BY <1>2, CallsAreCalls
<1> HIDE DEF body
<1>5. PendingSound' /\ PendingOnce' /\ RanSound' /\ QueuedSound' /\ CreatedKept'
  BY <1>2, <1>3, <1>4, QuietKept DEF data
<1>6. agenda' \in Seq(SUBSET Call) /\ Stacked(c, body)
  BY <1>1, <1>2, <1>3, ReturnStack
<1>7. TypeOK'
  BY <1>3, <1>6 DEF QueueInv, TypeOK, data
<1>8. ASSUME NEW s \in Solver, NEW l \in listeners'[s], NEW m \in reachable'[s]
      PROVE  OnItsWay(s, l, m)'
  <2>1. OnItsWay(s, l, m) /\ reachable' = reachable /\ listeners' = listeners
    BY <1>3 DEF QueueInv, Forwarding, data
  <2>2. CASE c = Hear(l, m)
    <3>1. d = [op |-> "addReachable", s |-> l.forward, m |-> m]
      BY <2>2 DEF Hear
    <3>2. Pending(d)'
      BY <1>2, <1>6, PendingAfter
    <3> HIDE DEF d
    <3> QED BY <3>1, <3>2 DEF OnItsWay
  <2>3. CASE c # Hear(l, m)
    <3>1. /\ c # [op |-> "addReachable", s |-> l.forward, m |-> m]
          /\ c # [op |-> "notify", s |-> s, m |-> m]
      BY <1>3
    <3> QED BY <1>6, <2>1, <2>3, <3>1, OnItsWayKept
  <2> QED BY <2>2, <2>3
<1>9. Forwarding'
  BY <1>8 DEF Forwarding
<1> QED BY <1>5, <1>7, <1>9 DEF QueueInv

LEMMA RegisterInv ==
    ASSUME QueueInv, NEW c \in Innermost, RegisterReachableMethodListener(c)
    PROVE  QueueInv'
<1> DEFINE heard == {Hear(c.l, m) : m \in reachable[c.s]}
           body == IF c.l \in listeners[c.s] THEN <<>> ELSE <<heard>>
<1>1. agenda \in Seq(SUBSET Call) /\ c.s \in Solver /\ c.l \in Listener
      /\ reachable[c.s] \subseteq Method
  BY InnermostCall, CallFields DEF RegisterReachableMethodListener, QueueInv, TypeOK
<1>2. heard \in SUBSET Call
  BY <1>1, CallsAreCalls
<1>3. /\ body \in Seq(SUBSET Call)
      /\ c.l \in listeners[c.s] => DOMAIN body = {}
      /\ c.l \notin listeners[c.s] => DOMAIN body = {1} /\ body[1] = heard
  <2> HIDE DEF heard
  <2>1. CASE c.l \in listeners[c.s]
    BY <2>1, BodyTypes
  <2>2. CASE c.l \notin listeners[c.s]
    <3>1. body = <<heard>>
      BY <2>2
    <3> HIDE DEF body
    <3> QED BY <1>2, <2>2, <3>1, BodyTypes
  <2> QED BY <2>1, <2>2
<1>4. Return(c, body) /\ c.op = "register"
      /\ listeners' = [listeners EXCEPT ![c.s] = @ \cup {c.l}]
      /\ UNCHANGED <<onTheFlyCallGraph, solved, submits, reachable, queued, ran>>
  BY DEF RegisterReachableMethodListener
<1>5. \A i \in DOMAIN body : \A r \in Runnable : Run(r) \notin body[i]
  <2>1. \A r \in Runnable : Run(r) \notin heard
    BY CallsAreCalls
  <2> HIDE DEF heard, body
  <2> QED BY <1>3, <2>1
<1> HIDE DEF body
<1>6. PendingSound' /\ PendingOnce' /\ RanSound' /\ QueuedSound' /\ CreatedKept'
  BY <1>3, <1>4, <1>5, QuietKept
<1>7. agenda' \in Seq(SUBSET Call) /\ Stacked(c, body)
  BY <1>1, <1>3, <1>4, ReturnStack
<1>8. TypeOK'
  BY <1>1, <1>4, <1>7 DEF QueueInv, TypeOK
<1>9. ASSUME NEW s \in Solver, NEW l \in listeners'[s], NEW m \in reachable'[s]
      PROVE  OnItsWay(s, l, m)'
  <2>1. l \in listeners[s] \/ (s = c.s /\ l = c.l /\ c.l \notin listeners[c.s])
    BY <1>1, <1>4 DEF QueueInv, TypeOK
  <2>2. CASE l \in listeners[s]
    <3>1. OnItsWay(s, l, m) /\ reachable' = reachable
      BY <1>4, <2>2 DEF QueueInv, Forwarding
    <3>2. /\ c # [op |-> "addReachable", s |-> l.forward, m |-> m]
          /\ c # [op |-> "notify", s |-> s, m |-> m]
          /\ c # Hear(l, m)
      BY <1>4 DEF Hear
    <3> QED BY <1>7, <3>1, <3>2, OnItsWayKept
  <2>3. CASE s = c.s /\ l = c.l /\ c.l \notin listeners[c.s]
    <3>1. Hear(l, m) \in body[1] /\ 1 \in DOMAIN body
      BY <1>3, <1>4, <2>3
    <3>2. Pending(Hear(l, m))'
      BY <1>7, <3>1, PendingAfter
    <3> QED BY <3>2 DEF OnItsWay
  <2> QED BY <2>1, <2>2, <2>3
<1>10. Forwarding'
  BY <1>9 DEF Forwarding
<1> QED BY <1>6, <1>8, <1>10 DEF QueueInv

LEMMA RunInv == ASSUME QueueInv, NEW c \in Innermost, RunRunnable(c) PROVE QueueInv'
<1> DEFINE body == IF Performed(c.r.s, c.r.w) THEN <<>> ELSE Performs(c.r.s, c.r.w)
<1>1. agenda \in Seq(SUBSET Call) /\ c.r \in Runnable /\ c = Run(c.r)
  BY InnermostCall, CallFields DEF RunRunnable
<1>2. body \in Seq(SUBSET UserCall)
  BY <1>1, ReachableQueueAssumption DEF Runnable
<1>3. Return(c, body) /\ c.op = "run" /\ ran' = ran \cup {c.r}
      /\ UNCHANGED <<onTheFlyCallGraph, solved, submits, reachable, queued, listeners>>
  BY DEF RunRunnable
<1> HIDE DEF body
<1>4. body \in Seq(SUBSET Call) /\ \A i \in DOMAIN body : \A r \in Runnable : Run(r) \notin body[i]
  <2>1. \A i \in DOMAIN body : body[i] \subseteq UserCall
    BY <1>2
  <2> QED BY <1>2, <2>1, UserCallsRunNothing
<1>5. Created' = Created /\ \A r : MayRun(r)' <=> MayRun(r)
  BY <1>3, SameRuns
<1>6. agenda' \in Seq(SUBSET Call) /\ Stacked(c, body)
  BY <1>1, <1>3, <1>4, ReturnStack
<1>7. PendingSound' /\ PendingOnce'
  <2> DEFINE R == {}
  <2>1. \A i \in DOMAIN body : \A r \in Runnable : Run(r) \in body[i] => i = 1 /\ r \in R
    BY <1>4
  <2>2. \A r \in R : ~Pending(Run(r)) /\ r \in Created' \ ran' /\ MayRun(r)'
    OBVIOUS
  <2>3. \A r \in ran' \ ran : c = Run(r)
    BY <1>1, <1>3
  <2>4. \A r \in Runnable : MayRun(r) => MayRun(r)'
    BY <1>5
  <2>5. Created \subseteq Created'
    BY <1>5
  <2>6. PendingSound /\ PendingOnce
    BY DEF QueueInv
  <2> HIDE DEF R
  <2> QED BY <1>1, <1>3, <1>4, <2>1, <2>2, <2>3, <2>4, <2>5, <2>6, RunsAfter
<1>8. c.r \in Created /\ MayRun(c.r)
  <2>1. 1 \in DOMAIN agenda /\ Run(c.r) \in agenda[1]
    BY <1>1, <1>3, <1>4, ReturnStack
  <2> QED BY <1>1, <2>1 DEF QueueInv, PendingSound
<1>9. RanSound' /\ QueuedSound'
  BY <1>3, <1>5, <1>8 DEF QueueInv, RanSound, QueuedSound
<1>10. CreatedKept'
  <2>1. \A r : r # c.r /\ Pending(Run(r)) => Pending(Run(r))'
    <3>1. \A r : r # c.r => Run(r) # c
      BY DEF Run
    <3> QED BY <1>6, <3>1, PendingAfter
  <2> QED BY <1>3, <1>5, <2>1 DEF QueueInv, CreatedKept
<1>11. TypeOK'
  BY <1>1, <1>3, <1>6 DEF QueueInv, TypeOK
<1>12. ASSUME NEW s \in Solver, NEW l \in listeners'[s], NEW m \in reachable'[s]
       PROVE  OnItsWay(s, l, m)'
  <2>1. OnItsWay(s, l, m) /\ reachable' = reachable
    BY <1>3 DEF QueueInv, Forwarding
  <2>2. /\ c # [op |-> "addReachable", s |-> l.forward, m |-> m]
        /\ c # [op |-> "notify", s |-> s, m |-> m]
        /\ c # Hear(l, m)
    BY <1>3 DEF Hear
  <2> QED BY <1>6, <2>1, <2>2, OnItsWayKept
<1>13. Forwarding'
  BY <1>12 DEF Forwarding
<1> QED BY <1>7, <1>9, <1>10, <1>11, <1>13 DEF QueueInv

LEMMA SubmitInv == ASSUME QueueInv, NEW c \in Innermost, Submit(c) PROVE QueueInv'
<1>0. PICK new : new = New(c)
  OBVIOUS
<1> DEFINE body == IF MayRun(new) THEN <<{Run(new)}>> ELSE <<>>
           j == <<c.s, c.w>>
<1>1. agenda \in Seq(SUBSET Call) /\ c \in Call /\ c.s \in Solver /\ c.w \in Work
      /\ j \in Solver \X Work /\ submits[j] \in Nat
  BY InnermostCall, CallFields DEF Submit, QueueInv, TypeOK
<1>2. /\ c.op = "submit" /\ submits' = [submits EXCEPT ![j] = @ + 1]
      /\ Return(c, body)
      /\ queued' = IF MayRun(new) THEN queued ELSE queued \cup {new}
      /\ UNCHANGED <<onTheFlyCallGraph, solved, reachable, listeners, ran>>
  BY <1>0 DEF Submit
<1>3. /\ new \in Runnable /\ new.s = c.s /\ new.w = c.w /\ new.n = submits[j] + 1
      /\ \A r \in Runnable : r.s = c.s /\ r.w = c.w /\ r.n = submits[j] + 1 => r = new
  BY <1>0, <1>1 DEF New, Runnable
<1>4. new \notin Created /\ Created' = Created \cup {new}
  <2>1. new \notin Created
    BY <1>1, <1>3 DEF Created
  <2>2. ASSUME NEW r \in Runnable PROVE r \in Created' <=> r \in Created \cup {new}
    <3> DEFINE k == <<r.s, r.w>>
    <3>1. k \in Solver \X Work /\ r.n \in Nat /\ submits[k] \in Nat
      BY DEF Runnable, QueueInv, TypeOK
    <3>2. submits'[k] = IF k = j THEN submits[j] + 1 ELSE submits[k]
      BY <1>1, <1>2, <3>1 DEF QueueInv, TypeOK
    <3>3. k = j <=> r.s = c.s /\ r.w = c.w
      OBVIOUS
    <3>4. r \in Created' <=> r.n <= submits'[k]
      BY DEF Created
    <3>5. r \in Created <=> r.n <= submits[k]
      BY DEF Created
    <3> HIDE DEF k
    <3>6. CASE k = j
      BY <1>1, <1>3, <3>1, <3>2, <3>3, <3>4, <3>5, <3>6
    <3>7. CASE k # j
      BY <1>3, <3>2, <3>3, <3>4, <3>5, <3>7
    <3> QED BY <3>6, <3>7
  <2>3. Created' \subseteq Runnable /\ Created \subseteq Runnable
    BY DEF Created
  <2> QED BY <1>3, <2>1, <2>2, <2>3
<1>5. \A r : MayRun(r)' <=> MayRun(r)
  BY <1>2 DEF MayRun
<1> HIDE DEF j
<1>6. /\ body \in Seq(SUBSET Call)
      /\ \A i \in DOMAIN body : i = 1 /\ body[i] = {Run(new)} /\ MayRun(new)
      /\ MayRun(new) => 1 \in DOMAIN body /\ body[1] = {Run(new)}
  <2>1. {Run(new)} \in SUBSET Call
    BY <1>3, CallsAreCalls
  <2>2. CASE MayRun(new)
    <3>1. body = <<{Run(new)}>>
      BY <2>2
    <3> HIDE DEF body
    <3>2. body \in Seq(SUBSET Call)
      BY <2>1, <3>1, BodyTypes
    <3> QED BY <2>2, <3>1, <3>2
  <2>3. CASE ~MayRun(new)
    BY <2>3, BodyTypes
  <2> QED BY <2>2, <2>3
<1> HIDE DEF body
<1>7. agenda' \in Seq(SUBSET Call) /\ Stacked(c, body)
  BY <1>1, <1>2, <1>6, ReturnStack
<1>8. new \notin ran /\ ~Pending(Run(new))
  BY <1>3, <1>4 DEF QueueInv, RanSound, PendingSound, Pending
<1>9. PendingSound' /\ PendingOnce'
  <2> DEFINE R == IF MayRun(new) THEN {new} ELSE {}
  <2>1. \A i \in DOMAIN body : \A r \in Runnable : Run(r) \in body[i] => i = 1 /\ r \in R
    BY <1>6 DEF Run
  <2>2. \A r \in R : ~Pending(Run(r)) /\ r \in Created' \ ran' /\ MayRun(r)'
    BY <1>2, <1>4, <1>5, <1>8
  <2>3. \A r \in ran' \ ran : c = Run(r)
    BY <1>2
  <2>4. \A r \in Runnable : MayRun(r) => MayRun(r)'
    BY <1>5
  <2>5. Created \subseteq Created'
    BY <1>4
  <2>6. PendingSound /\ PendingOnce
    BY DEF QueueInv
  <2> HIDE DEF R
  <2> QED BY <1>1, <1>2, <1>6, <2>1, <2>2, <2>3, <2>4, <2>5, <2>6, RunsAfter
<1>10. RanSound'
  BY <1>2, <1>4, <1>5 DEF QueueInv, RanSound
<1>11. QueuedSound'
  <2>1. ~MayRun(new) => onTheFlyCallGraph
    BY DEF MayRun
  <2> QED BY <1>2, <1>4, <2>1 DEF QueueInv, QueuedSound
<1>12. \A r : Pending(Run(r)) => Pending(Run(r))'
  <2>1. \A r : Run(r) # c
    BY <1>2 DEF Run
  <2> QED BY <1>7, <2>1, PendingAfter
<1>13. CreatedKept'
  <2>1. ASSUME NEW r \in Created
        PROVE  /\ MayRun(r)' => r \in ran' \/ Pending(Run(r))'
               /\ ~MayRun(r)' => r \in queued'
    <3>1. /\ MayRun(r) => r \in ran \/ Pending(Run(r))
          /\ ~MayRun(r) => r \in queued
      BY DEF QueueInv, CreatedKept
    <3> QED BY <1>2, <1>5, <1>12, <3>1
  <2>2. ASSUME MayRun(new) PROVE Pending(Run(new))'
    <3>1. 1 \in DOMAIN body /\ Run(new) \in body[1]
      BY <1>6, <2>2
    <3>2. \A i \in DOMAIN body : \A d \in body[i] : Pending(d)'
      BY <1>7, PendingAfter
    <3> QED BY <3>1, <3>2
  <2>3. ~MayRun(new) => new \in queued'
    BY <1>2
  <2>4. ASSUME NEW r \in Created'
        PROVE  /\ MayRun(r)' => r \in ran' \/ Pending(Run(r))'
               /\ ~MayRun(r)' => r \in queued'
    <3>1. CASE r = new
      BY <1>5, <2>2, <2>3, <3>1
    <3>2. CASE r \in Created
      BY <2>1, <3>2
    <3> QED BY <1>4, <3>1, <3>2
  <2> QED BY <2>4 DEF CreatedKept
<1>14. TypeOK'
  BY <1>1, <1>2, <1>3, <1>7 DEF QueueInv, TypeOK
<1>15. ASSUME NEW s \in Solver, NEW l \in listeners'[s], NEW m \in reachable'[s]
       PROVE  OnItsWay(s, l, m)'
  <2>1. OnItsWay(s, l, m) /\ reachable' = reachable
    BY <1>2 DEF QueueInv, Forwarding
  <2>2. /\ c # [op |-> "addReachable", s |-> l.forward, m |-> m]
        /\ c # [op |-> "notify", s |-> s, m |-> m]
        /\ c # Hear(l, m)
    BY <1>2 DEF Hear
  <2> QED BY <1>7, <2>1, <2>2, OnItsWayKept
<1>16. Forwarding'
  BY <1>15 DEF Forwarding
<1> QED BY <1>9, <1>10, <1>11, <1>13, <1>14, <1>16 DEF QueueInv

LEMMA AddReachableInv ==
    ASSUME QueueInv, NEW c \in Innermost, AddReachable(c)
    PROVE  QueueInv'
<1> DEFINE waiting == {q \in queued : q.s = c.s /\ MethodOf(q.w) = c.m}
           runs == {Run(r) : r \in waiting}
           note == [op |-> "notify", s |-> c.s, m |-> c.m]
           body == IF c.m \in reachable[c.s] THEN <<>> ELSE <<runs, {note}>>
<1>1. agenda \in Seq(SUBSET Call) /\ c \in Call /\ c.s \in Solver /\ c.m \in Method
      /\ queued \subseteq Runnable
  BY InnermostCall, CallFields DEF AddReachable, QueueInv, TypeOK
<1>2. /\ c.op = "addReachable"
      /\ reachable' = [reachable EXCEPT ![c.s] = @ \cup {c.m}]
      /\ Return(c, body)
      /\ UNCHANGED <<onTheFlyCallGraph, solved, submits, queued, listeners, ran>>
  BY DEF AddReachable
<1>3. Created' = Created
  BY <1>2 DEF Created
<1>4. \A s \in Solver : reachable'[s] = IF s = c.s THEN reachable[s] \cup {c.m} ELSE reachable[s]
  BY <1>1, <1>2 DEF QueueInv, TypeOK
<1>5. \A r \in Runnable : MayRun(r)' <=> MayRun(r) \/ (r.s = c.s /\ MethodOf(r.w) = c.m)
  <2> SUFFICES ASSUME NEW r \in Runnable
               PROVE  MayRun(r)' <=> MayRun(r) \/ (r.s = c.s /\ MethodOf(r.w) = c.m)
    OBVIOUS
  <2>1. r.s \in Solver
    BY DEF Runnable
  <2>2. MethodOf(r.w) \in reachable'[r.s] <=>
          MethodOf(r.w) \in reachable[r.s] \/ (r.s = c.s /\ MethodOf(r.w) = c.m)
    BY <1>4, <2>1
  <2> QED BY <1>2, <2>2 DEF MayRun
<1>6. runs \in SUBSET Call /\ {note} \in SUBSET Call
  BY <1>1, CallsAreCalls
<1>7. /\ body \in Seq(SUBSET Call)
      /\ c.m \in reachable[c.s] => DOMAIN body = {}
      /\ c.m \notin reachable[c.s] =>
           DOMAIN body = {1, 2} /\ body[1] = runs /\ body[2] = {note}
  <2> HIDE DEF runs, note
  <2>1. CASE c.m \in reachable[c.s]
    BY <2>1, BodyTypes
  <2>2. CASE c.m \notin reachable[c.s]
    <3>1. body = <<runs, {note}>>
      BY <2>2
    <3> HIDE DEF body
    <3> QED BY <1>6, <2>2, <3>1, BodyTypes
  <2> QED BY <2>1, <2>2
<1> HIDE DEF body
<1>8. agenda' \in Seq(SUBSET Call) /\ Stacked(c, body)
  BY <1>1, <1>2, <1>7, ReturnStack
<1>9. ASSUME c.m \notin reachable[c.s], NEW r \in waiting
      PROVE  r \in Created \ ran /\ ~MayRun(r) /\ ~Pending(Run(r)) /\ MayRun(r)'
  <2>1. r \in Runnable /\ r \in Created /\ onTheFlyCallGraph
    BY <1>1 DEF QueueInv, QueuedSound
  <2>2. ~MayRun(r)
    BY <1>9, <2>1 DEF MayRun
  <2> QED BY <1>5, <2>1, <2>2 DEF QueueInv, RanSound, PendingSound, Pending
<1>10. PendingSound' /\ PendingOnce'
  <2> DEFINE R == IF c.m \in reachable[c.s] THEN {} ELSE waiting
  <2>1. \A i \in DOMAIN body : \A r \in Runnable : Run(r) \in body[i] => i = 1 /\ r \in R
    <3>1. \A r : Run(r) # note
      BY CallsAreCalls
    <3>2. \A r \in Runnable : Run(r) \in runs => r \in waiting
      BY DEF Run
    <3> HIDE DEF runs, note, waiting
    <3> QED BY <1>7, <3>1, <3>2
  <2>2. \A r \in R : ~Pending(Run(r)) /\ r \in Created' \ ran' /\ MayRun(r)'
    <3> HIDE DEF waiting
    <3> QED BY <1>2, <1>3, <1>9
  <2>3. \A r \in ran' \ ran : c = Run(r)
    BY <1>2
  <2>4. \A r \in Runnable : MayRun(r) => MayRun(r)'
    BY <1>5
  <2>5. Created \subseteq Created'
    BY <1>3
  <2>6. PendingSound /\ PendingOnce
    BY DEF QueueInv
  <2> HIDE DEF R
  <2> QED BY <1>1, <1>2, <1>7, <2>1, <2>2, <2>3, <2>4, <2>5, <2>6, RunsAfter
<1>11. RanSound' /\ QueuedSound'
  <2>1. \A r \in Created : r \in Runnable
    BY DEF Created
  <2> QED BY <1>2, <1>3, <1>5, <2>1 DEF QueueInv, RanSound, QueuedSound
<1>12. \A d : Pending(d) /\ d # c => Pending(d)'
  BY <1>8, PendingAfter
<1>13. \A i \in DOMAIN body : \A d \in body[i] : Pending(d)'
  BY <1>8, PendingAfter
<1>14. CreatedKept'
  <2> SUFFICES ASSUME NEW r \in Created
               PROVE  /\ MayRun(r)' => r \in ran' \/ Pending(Run(r))'
                      /\ ~MayRun(r)' => r \in queued'
    BY <1>3 DEF CreatedKept
  <2>1. r \in Runnable /\ (MayRun(r) => r \in ran \/ Pending(Run(r)))
        /\ (~MayRun(r) => r \in queued)
    BY DEF QueueInv, CreatedKept, Created
  <2>2. CASE MayRun(r)
    <3>1. Run(r) # c
      BY <1>2 DEF Run
    <3> QED BY <1>2, <1>5, <1>12, <2>1, <2>2, <3>1
  <2>3. CASE ~MayRun(r) /\ ~MayRun(r)'
    BY <1>2, <2>1, <2>3
  <2>4. CASE ~MayRun(r) /\ MayRun(r)'
    <3>1. r.s = c.s /\ MethodOf(r.w) = c.m /\ r \in waiting
      BY <1>5, <2>1, <2>4
    <3>2. c.m \notin reachable[c.s]
      BY <2>4, <3>1 DEF MayRun
    <3>3. Run(r) \in runs
      BY <3>1
    <3>4. 1 \in DOMAIN body /\ Run(r) \in body[1]
      BY <1>7, <3>2, <3>3
    <3>5. Pending(Run(r))'
      BY <1>13, <3>4
    <3> QED BY <2>4, <3>5
  <2> QED BY <2>2, <2>3, <2>4
<1>15. TypeOK'
  BY <1>1, <1>2, <1>8 DEF QueueInv, TypeOK
<1>16. ASSUME NEW s \in Solver, NEW l \in listeners'[s], NEW m \in reachable'[s]
       PROVE  OnItsWay(s, l, m)'
  <2>1. l \in listeners[s] /\ l.forward \in Solver
    BY <1>2 DEF QueueInv, TypeOK, Listener
  <2>2. m \in reachable[s] \/ (s = c.s /\ m = c.m /\ c.m \notin reachable[c.s])
    BY <1>4
  <2>3. CASE s = c.s /\ m = c.m /\ c.m \notin reachable[c.s]
    <3>1. 2 \in DOMAIN body /\ note \in body[2]
      BY <1>7, <2>3
    <3>2. Pending([op |-> "notify", s |-> s, m |-> m])'
      BY <1>13, <2>3, <3>1
    <3> QED BY <3>2 DEF OnItsWay
  <2>4. CASE m \in reachable[s]
    <3>1. OnItsWay(s, l, m) /\ reachable[l.forward] \subseteq reachable'[l.forward]
      BY <1>4, <2>1, <2>4 DEF QueueInv, Forwarding
    <3>2. CASE c = [op |-> "addReachable", s |-> l.forward, m |-> m]
      BY <1>4, <2>1, <3>2 DEF OnItsWay
    <3>3. CASE c # [op |-> "addReachable", s |-> l.forward, m |-> m]
      <4>1. c # [op |-> "notify", s |-> s, m |-> m] /\ c # Hear(l, m)
        BY <1>2 DEF Hear
      <4> QED BY <1>8, <3>1, <3>3, <4>1, OnItsWayKept
    <3> QED BY <3>2, <3>3
  <2> QED BY <2>2, <2>3, <2>4
<1>17. Forwarding'
  BY <1>16 DEF Forwarding
<1> QED BY <1>10, <1>11, <1>14, <1>15, <1>17 DEF QueueInv

LEMMA EndLoopInv == ASSUME QueueInv, EndLoop PROVE QueueInv'
<1>1. agenda \in Seq(SUBSET Call) /\ agenda # <<>> /\ Head(agenda) = {}
      /\ agenda' = Tail(agenda) /\ UNCHANGED data
  BY DEF EndLoop, LoopEnds, QueueInv, TypeOK
<1>2. /\ agenda' \in Seq(SUBSET Call)
      /\ \A i \in DOMAIN agenda' : i + 1 \in DOMAIN agenda /\ agenda'[i] = agenda[i + 1]
      /\ \A i \in DOMAIN agenda : i # 1 => i - 1 \in DOMAIN agenda' /\ agenda'[i - 1] = agenda[i]
      /\ \A i, j \in DOMAIN agenda' : i + 1 = j + 1 => i = j
      /\ agenda[1] = {}
  BY <1>1
<1>3. \A d : Pending(d) <=> Pending(d)'
  BY <1>2 DEF Pending
<1>4. Created' = Created /\ \A r : MayRun(r)' <=> MayRun(r)
  BY <1>1, SameRuns DEF data
<1>5. PendingSound'
  BY <1>1, <1>2, <1>4 DEF QueueInv, PendingSound, data
<1>6. PendingOnce'
  BY <1>2 DEF QueueInv, PendingOnce, Once
<1>7. RanSound' /\ QueuedSound' /\ CreatedKept'
  BY <1>1, <1>3, <1>4 DEF QueueInv, RanSound, QueuedSound, CreatedKept, data
<1>8. TypeOK'
  BY <1>1, <1>2 DEF QueueInv, TypeOK, data
<1>9. Forwarding'
  BY <1>1, <1>3 DEF QueueInv, Forwarding, OnItsWay, data
<1> QED BY <1>5, <1>6, <1>7, <1>8, <1>9 DEF QueueInv

LEMMA SolveInv == ASSUME QueueInv, NEW q \in Queries, Solve(q) PROVE QueueInv'
<1>1. /\ agenda = <<>> /\ agenda' = <<{q}>> /\ solved' = solved \cup {q}
      /\ UNCHANGED <<onTheFlyCallGraph, submits, reachable, queued, listeners, ran>>
  BY DEF Solve, Idle
<1>2. q \in Call /\ \A r \in Runnable : Run(r) # q
  BY ReachableQueueAssumption, UserCallsRunNothing
<1>3. agenda' \in Seq(SUBSET Call) /\ DOMAIN agenda' = {1} /\ agenda'[1] = {q}
  BY <1>1, <1>2
<1>4. \A d : ~Pending(d)
  BY <1>1 DEF Pending
<1>5. Created' = Created /\ \A r : MayRun(r)' <=> MayRun(r)
  BY <1>1, SameRuns
<1>6. PendingSound' /\ PendingOnce'
  BY <1>2, <1>3 DEF PendingSound, PendingOnce, Once
<1>7. RanSound' /\ QueuedSound' /\ CreatedKept'
  BY <1>1, <1>4, <1>5 DEF QueueInv, RanSound, QueuedSound, CreatedKept
<1>8. TypeOK'
  BY <1>1, <1>3 DEF QueueInv, TypeOK
<1>9. Forwarding'
  BY <1>1, <1>4 DEF QueueInv, Forwarding, OnItsWay
<1> QED BY <1>6, <1>7, <1>8, <1>9 DEF QueueInv

LEMMA NextInv == QueueInv /\ [Next]_vars => QueueInv'
<1> SUFFICES ASSUME QueueInv, [Next]_vars PROVE QueueInv'
  OBVIOUS
<1>1. ASSUME EndLoop PROVE QueueInv'
  BY <1>1, EndLoopInv
<1>2. ASSUME NEW c \in Innermost, AddReachable(c) PROVE QueueInv'
  BY <1>2, AddReachableInv
<1>3. ASSUME NEW c \in Innermost, NotifyListeners(c) PROVE QueueInv'
  BY <1>3, NotifyInv
<1>4. ASSUME NEW c \in Innermost, Reachable(c) PROVE QueueInv'
  BY <1>4, ReachableInv
<1>5. ASSUME NEW c \in Innermost, RegisterReachableMethodListener(c) PROVE QueueInv'
  BY <1>5, RegisterInv
<1>6. ASSUME NEW c \in Innermost, Submit(c) PROVE QueueInv'
  BY <1>6, SubmitInv
<1>7. ASSUME NEW c \in Innermost, RunRunnable(c) PROVE QueueInv'
  BY <1>7, RunInv
<1>8. ASSUME NEW q \in Queries, Solve(q) PROVE QueueInv'
  BY <1>8, SolveInv
<1>9. ASSUME UNCHANGED vars PROVE QueueInv'
  <2>1. UNCHANGED <<onTheFlyCallGraph, solved, submits, reachable, queued, listeners, ran, agenda>>
    BY <1>9 DEF vars, data
  <2>2. Created' = Created /\ (\A r : MayRun(r)' <=> MayRun(r))
    BY <2>1, SameRuns
  <2>3. \A d : Pending(d)' <=> Pending(d)
    BY <2>1 DEF Pending
  <2>4. TypeOK' /\ PendingSound' /\ PendingOnce' /\ RanSound' /\ QueuedSound'
    BY <2>1, <2>2 DEF QueueInv, TypeOK, PendingSound, PendingOnce, Once, RanSound, QueuedSound
  <2>5. CreatedKept' /\ Forwarding'
    BY <2>1, <2>2, <2>3 DEF QueueInv, CreatedKept, Forwarding, OnItsWay
  <2> QED BY <2>4, <2>5 DEF QueueInv
<1> QED BY <1>1, <1>2, <1>3, <1>4, <1>5, <1>6, <1>7, <1>8, <1>9 DEF Next, Step

LEMMA QueueInvariant == Spec => []QueueInv
<1>1. Init => QueueInv
  BY InitInv
<1>2. QueueInv /\ [Next]_vars => QueueInv'
  BY NextInv
<1> QED BY <1>1, <1>2, PTL DEF Spec

(***************************************************************************)
(* The theorems.                                                           *)
(***************************************************************************)
\* No runnable that waits for its method, or does not have to, is run twice,
\* however the calls of addReachable nest.  (addReachable, submit)
THEOREM RunsOnce == Spec => [](TypeOK /\ RunOnce)
<1>1. QueueInv => TypeOK /\ RunOnce
  <2> SUFFICES ASSUME QueueInv PROVE RunOnce
    BY DEF QueueInv
  <2>1. ran \subseteq Runnable
    BY DEF QueueInv, TypeOK
  <2> QED BY <2>1 DEF QueueInv, PendingSound, RunOnce
<1> QED BY <1>1, QueueInvariant, PTL

\* Every runnable submitted has run, is about to, or waits for a method that is
\* not reachable yet.  (addReachable, submit)
THEOREM NoneLost == Spec => []NothingLost
<1>1. QueueInv => NothingLost
  <2> SUFFICES ASSUME QueueInv, NEW j \in Solver \X Work, NEW n \in 1..submits[j]
               PROVE  LET r == [s |-> j[1], w |-> j[2], n |-> n]
                      IN  /\ MayRun(r) => r \in ran \/ Pending(Run(r))
                          /\ ~MayRun(r) => r \in queued \ ran
    BY DEF NothingLost
  <2> DEFINE r == [s |-> j[1], w |-> j[2], n |-> n]
  <2>1. submits[j] \in Nat /\ j = <<j[1], j[2]>> /\ j[1] \in Solver /\ j[2] \in Work
    BY DEF QueueInv, TypeOK
  <2>2. r \in Runnable /\ r.n <= submits[<<r.s, r.w>>]
    BY <2>1 DEF Runnable
  <2> HIDE DEF r
  <2>3. r \in Created
    BY <2>2 DEF Created
  <2>4. /\ MayRun(r) => r \in ran \/ Pending(Run(r))
        /\ ~MayRun(r) => r \in queued
    BY <2>3 DEF QueueInv, CreatedKept
  <2>5. ~MayRun(r) => r \notin ran
    BY DEF QueueInv, RanSound
  <2> QED BY <2>4, <2>5 DEF r
<1> QED BY <1>1, QueueInvariant, PTL

\* At rest, a forward solver knows the methods of its backward solvers.
\* (registerReachableMethodListener, addReachable)
THEOREM ForwardsAlwaysKnow == Spec => []ForwardsKnow
<1>1. QueueInv => ForwardsKnow
  <2> SUFFICES ASSUME QueueInv, Idle, NEW s \in Solver, NEW l \in listeners[s],
                      NEW m \in reachable[s]
               PROVE  m \in reachable[l.forward]
    BY DEF ForwardsKnow
  <2>1. OnItsWay(s, l, m)
    BY DEF QueueInv, Forwarding
  <2>2. \A d : ~Pending(d)
    BY DEF Idle, Pending
  <2> QED BY <2>1, <2>2 DEF OnItsWay
<1> QED BY <1>1, QueueInvariant, PTL

-----------------------------------------------------------------------------
(***************************************************************************)
(* The outcome is the least one, so it does not depend on any order.       *)
(***************************************************************************)
AddOf(s, m) == [op |-> "addReachable", s |-> s, m |-> m]
PutOf(s, w) == [op |-> "submit", s |-> s, w |-> w]
RegisterOf(s, l) == [op |-> "register", s |-> s, l |-> l]

\* The calls whose effect is there.
Made == {d \in UserCall :
           \/ d.op = "addReachable" /\ d.m \in reachable[d.s]
           \/ d.op = "submit" /\ submits[<<d.s, d.w>>] > 0
           \/ d.op = "register" /\ d.l \in listeners[d.s]}

\* The set holds the queries' calls and all that follow from its calls.
IsClosed(calls) == solved \subseteq calls /\ Follow(calls) \subseteq calls

IsLeast(calls) ==
    /\ calls \in SUBSET UserCall /\ IsClosed(calls)
    /\ \A S \in SUBSET UserCall : IsClosed(S) => calls \subseteq S

\* A call on the stack follows from those in S.
Implied(S, d) ==
    /\ d \in UserCall => d \in S
    /\ d.op = "notify" => AddOf(d.s, d.m) \in S
    /\ d.op = "reachable" =>
         \E s \in Solver : RegisterOf(s, d.l) \in S /\ AddOf(s, d.m) \in S

\* Nothing is done, or to be done, that does not follow from the queries.
Followed == \A S \in SUBSET UserCall :
    IsClosed(S) => Made \subseteq S /\ \A d : Pending(d) => Implied(S, d)

Asked(d) == d \in Made \/ Pending(d)

\* What the queries and the work that has run ask for is done or to be done.
Heeded ==
    /\ \A q \in solved : Asked(q)
    /\ \A r \in ran : \A i \in DOMAIN Performs(r.s, r.w) :
         \A d \in Performs(r.s, r.w)[i] : Asked(d)

CallStep(c) ==
    \/ AddReachable(c) \/ NotifyListeners(c) \/ Reachable(c)
    \/ RegisterReachableMethodListener(c) \/ Submit(c) \/ RunRunnable(c)

\* The call d may be made by c.
Makes(c, d) ==
    \/ c.op = "addReachable" /\ d = [op |-> "notify", s |-> c.s, m |-> c.m]
    \/ c.op \in {"addReachable", "submit"} /\ \E r \in Runnable : d = Run(r)
    \/ c.op = "notify" /\ \E l \in listeners[c.s] : d = Hear(l, c.m)
    \/ c.op = "register" /\ \E m \in reachable[c.s] : d = Hear(c.l, m)
    \/ c.op = "reachable" /\ d = AddOf(c.l.forward, c.m)
    \/ c.op = "run" /\ \E i \in DOMAIN Performs(c.r.s, c.r.w) : d \in Performs(c.r.s, c.r.w)[i]

\* The loops body are what the call c pushes.
BodyOf(c, body) ==
    /\ Stacked(c, body)
    /\ \A i \in DOMAIN body : \A d \in body[i] : Makes(c, d)
    /\ c.op = "run" => \/ Performed(c.r.s, c.r.w)
                       \/ body = Performs(c.r.s, c.r.w)

\* A call pushes only calls it may make.
LEMMA CallBody ==
    ASSUME QueueInv, NEW c \in Innermost, CallStep(c)
    PROVE  \E body : BodyOf(c, body)
<1>1. agenda \in Seq(SUBSET Call) /\ c \in Call
  BY InnermostCall
<1>2. ASSUME NEW body \in Seq(SUBSET Call), Return(c, body),
             \A i \in DOMAIN body : \A d \in body[i] : Makes(c, d),
             c.op = "run" => Performed(c.r.s, c.r.w) \/ body = Performs(c.r.s, c.r.w)
      PROVE  \E b : BodyOf(c, b)
  <2>1. Stacked(c, body)
    BY <1>1, <1>2, ReturnStack
  <2>2. BodyOf(c, body)
    BY <1>2, <2>1 DEF BodyOf
  <2> QED BY <2>2
<1>3. ASSUME c.op # "run", Return(c, <<>>)
      PROVE  \E b : BodyOf(c, b)
  <2>1. PICK body : body = <<>>
    OBVIOUS
  <2>2. body \in Seq(SUBSET Call) /\ DOMAIN body = {} /\ Return(c, body)
    BY <1>3, <2>1, BodyTypes
  <2> QED BY <1>2, <1>3, <2>2
<1>4. ASSUME NEW A \in SUBSET Call, c.op # "run", Return(c, <<A>>), \A d \in A : Makes(c, d)
      PROVE  \E b : BodyOf(c, b)
  <2>1. <<A>> \in Seq(SUBSET Call) /\ DOMAIN <<A>> = {1} /\ <<A>>[1] = A
    BY BodyTypes, BodyDomains
  <2> QED BY <1>2, <1>4, <2>1
<1>5. CASE AddReachable(c)
  <2> DEFINE A == {Run(r) : r \in {q \in queued : q.s = c.s /\ MethodOf(q.w) = c.m}}
             B == {[op |-> "notify", s |-> c.s, m |-> c.m]}
  <2>1. c.op = "addReachable" /\ c.s \in Solver /\ c.m \in Method /\ queued \subseteq Runnable
    BY <1>1, <1>5, CallFields DEF AddReachable, QueueInv, TypeOK
  <2>2. A \in SUBSET Call /\ B \in SUBSET Call
    BY <2>1, CallsAreCalls
  <2>3. \A d \in A \cup B : Makes(c, d)
    BY <2>1 DEF Makes
  <2>4. Return(c, IF c.m \in reachable[c.s] THEN <<>> ELSE <<A, B>>)
    BY <1>5 DEF AddReachable
  <2> HIDE DEF A, B
  <2>5. CASE c.m \in reachable[c.s]
    BY <1>3, <2>1, <2>4, <2>5
  <2>6. CASE c.m \notin reachable[c.s]
    <3>1. <<A, B>> \in Seq(SUBSET Call) /\ DOMAIN <<A, B>> = {1, 2}
          /\ <<A, B>>[1] = A /\ <<A, B>>[2] = B
      BY <2>2, BodyTypes, BodyDomains
    <3>2. Return(c, <<A, B>>)
      BY <2>4, <2>6
    <3>3. PICK body \in Seq(SUBSET Call) :
             /\ Return(c, body) /\ DOMAIN body = {1, 2} /\ body[1] = A /\ body[2] = B
      BY <3>1, <3>2
    <3>4. \A i \in DOMAIN body : \A d \in body[i] : Makes(c, d)
      BY <2>3, <3>3
    <3> QED BY <1>2, <2>1, <3>3, <3>4
  <2> QED BY <2>5, <2>6
<1>6. CASE NotifyListeners(c)
  <2> DEFINE A == {Hear(l, c.m) : l \in listeners[c.s]}
  <2>1. c.op = "notify" /\ c.s \in Solver /\ c.m \in Method /\ listeners[c.s] \subseteq Listener
    BY <1>1, <1>6, CallFields DEF NotifyListeners, QueueInv, TypeOK
  <2>2. A \in SUBSET Call /\ \A d \in A : Makes(c, d)
    BY <2>1, CallsAreCalls DEF Makes
  <2>3. Return(c, <<A>>)
    BY <1>6 DEF NotifyListeners
  <2> HIDE DEF A
  <2> QED BY <1>4, <2>1, <2>2, <2>3
<1>7. CASE Reachable(c)
  <2> DEFINE A == {[op |-> "addReachable", s |-> c.l.forward, m |-> c.m]}
  <2>1. c.op = "reachable" /\ c.l \in Listener /\ c.m \in Method
    BY <1>1, <1>7, CallFields DEF Reachable
  <2>2. A \in SUBSET Call /\ \A d \in A : Makes(c, d)
    BY <2>1, CallsAreCalls DEF Makes, AddOf, Listener
  <2>3. Return(c, <<A>>)
    BY <1>7 DEF Reachable
  <2> HIDE DEF A
  <2> QED BY <1>4, <2>1, <2>2, <2>3
<1>8. CASE RegisterReachableMethodListener(c)
  <2> DEFINE A == {Hear(c.l, m) : m \in reachable[c.s]}
  <2>1. c.op = "register" /\ c.s \in Solver /\ c.l \in Listener /\ reachable[c.s] \subseteq Method
    BY <1>1, <1>8, CallFields DEF RegisterReachableMethodListener, QueueInv, TypeOK
  <2>2. A \in SUBSET Call /\ \A d \in A : Makes(c, d)
    BY <2>1, CallsAreCalls DEF Makes
  <2>3. Return(c, <<>>) \/ Return(c, <<A>>)
    BY <1>8 DEF RegisterReachableMethodListener
  <2> HIDE DEF A
  <2> QED BY <1>3, <1>4, <2>1, <2>2, <2>3
<1>9. CASE Submit(c)
  <2> DEFINE A == {Run(New(c))}
  <2>1. c.op = "submit" /\ c.s \in Solver /\ c.w \in Work /\ submits[<<c.s, c.w>>] \in Nat
    BY <1>1, <1>9, CallFields DEF Submit, QueueInv, TypeOK
  <2>2. New(c) \in Runnable
    BY <2>1 DEF New, Runnable
  <2>3. A \in SUBSET Call /\ \A d \in A : Makes(c, d)
    BY <2>1, <2>2, CallsAreCalls DEF Makes
  <2>4. Return(c, <<>>) \/ Return(c, <<A>>)
    BY <1>9 DEF Submit
  <2> HIDE DEF A
  <2> QED BY <1>3, <1>4, <2>1, <2>3, <2>4
<1>10. CASE RunRunnable(c)
  <2> DEFINE body == IF Performed(c.r.s, c.r.w) THEN <<>> ELSE Performs(c.r.s, c.r.w)
  <2>1. c.op = "run" /\ c.r \in Runnable /\ Return(c, body)
    BY <1>1, <1>10, CallFields DEF RunRunnable
  <2>2. Performs(c.r.s, c.r.w) \in Seq(SUBSET Call)
    BY <2>1, ReachableQueueAssumption, UserCallsRunNothing DEF Runnable
  <2>3. CASE Performed(c.r.s, c.r.w)
    <3>1. PICK b : b = <<>>
      OBVIOUS
    <3>2. b \in Seq(SUBSET Call) /\ DOMAIN b = {} /\ Return(c, b)
      BY <2>1, <2>3, <3>1, BodyTypes
    <3> QED BY <1>2, <2>3, <3>2
  <2>4. CASE ~Performed(c.r.s, c.r.w)
    BY <1>2, <2>1, <2>2, <2>4 DEF Makes
  <2> QED BY <2>3, <2>4
<1> QED BY <1>5, <1>6, <1>7, <1>8, <1>9, <1>10 DEF CallStep

\* A call leaves its own effect and no other.
LEMMA MadeAfter ==
    ASSUME QueueInv, NEW c \in Innermost, CallStep(c)
    PROVE  /\ Made \subseteq Made' /\ Made' \subseteq Made \cup {c}
           /\ (c \in UserCall => c \in Made')
           /\ Pending(c) /\ solved' = solved
<1>1. agenda \in Seq(SUBSET Call) /\ c \in Call /\ Pending(c)
  <2>1. agenda \in Seq(SUBSET Call) /\ c \in Call
    BY InnermostCall
  <2> QED BY <2>1 DEF Innermost, Pending
<1>2. /\ reachable \in [Solver -> SUBSET Method] /\ listeners \in [Solver -> SUBSET Listener]
      /\ submits \in [Solver \X Work -> Nat]
  BY DEF QueueInv, TypeOK
<1>3. ASSUME NEW d \in UserCall
      PROVE  /\ d.op \in {"addReachable", "submit", "register"} /\ d.s \in Solver
             /\ d.op = "addReachable" => d = AddOf(d.s, d.m) /\ d.m \in Method
             /\ d.op = "submit" => d = PutOf(d.s, d.w) /\ d.w \in Work
             /\ d.op = "register" => d = RegisterOf(d.s, d.l) /\ d.l \in Listener
  BY DEF UserCall, ReachCall, SubmitCall, RegisterCall, AddOf, PutOf, RegisterOf
<1>4. CASE AddReachable(c)
  <2>1. /\ c.op = "addReachable" /\ c.s \in Solver /\ c.m \in Method
        /\ reachable' = [reachable EXCEPT ![c.s] = @ \cup {c.m}]
        /\ UNCHANGED <<solved, submits, listeners>>
    BY <1>1, <1>4, CallFields DEF AddReachable
  <2>2. \A s \in Solver : reachable'[s] = IF s = c.s THEN reachable[s] \cup {c.m} ELSE reachable[s]
    BY <1>2, <2>1
  <2>3. ASSUME NEW d \in UserCall PROVE /\ d \in Made => d \in Made'
                                        /\ d \in Made' => d \in Made \/ d = c
                                        /\ d = c => d \in Made'
    <3>1. c = AddOf(c.s, c.m)
      BY <1>1, <2>1 DEF Call, UserCall, ReachCall, SubmitCall, RegisterCall,
                        NotifyCall, RunCall, HearCall, AddOf
    <3>2. CASE d.op = "addReachable"
      <4>1. d = AddOf(d.s, d.m) /\ d.s \in Solver
        BY <1>3, <3>2
      <4>2. (d \in Made <=> d.m \in reachable[d.s]) /\ (d \in Made' <=> d.m \in reachable'[d.s])
        BY <3>2 DEF Made
      <4>3. d = c <=> d.s = c.s /\ d.m = c.m
        BY <3>1, <4>1
      <4>4. d.m \in reachable'[d.s] <=> d.m \in reachable[d.s] \/ (d.s = c.s /\ d.m = c.m)
        BY <2>2, <4>1
      <4> QED BY <4>2, <4>3, <4>4
    <3>3. CASE d.op # "addReachable"
      BY <2>1, <3>3 DEF Made
    <3> QED BY <3>2, <3>3
  <2>4. Made \subseteq UserCall /\ Made' \subseteq UserCall
    BY DEF Made
  <2>5. Made \subseteq Made'
    BY <2>3, <2>4
  <2>6. Made' \subseteq Made \cup {c}
    BY <2>3, <2>4
  <2>7. c \in UserCall => c \in Made'
    BY <2>3
  <2>8. solved' = solved
    BY <2>1
  <2> QED BY <1>1, <2>5, <2>6, <2>7, <2>8
<1>5. CASE RegisterReachableMethodListener(c)
  <2>1. /\ c.op = "register" /\ c.s \in Solver /\ c.l \in Listener
        /\ listeners' = [listeners EXCEPT ![c.s] = @ \cup {c.l}]
        /\ UNCHANGED <<solved, submits, reachable>>
    BY <1>1, <1>5, CallFields DEF RegisterReachableMethodListener
  <2>2. \A s \in Solver : listeners'[s] = IF s = c.s THEN listeners[s] \cup {c.l} ELSE listeners[s]
    BY <1>2, <2>1
  <2>3. ASSUME NEW d \in UserCall PROVE /\ d \in Made => d \in Made'
                                        /\ d \in Made' => d \in Made \/ d = c
                                        /\ d = c => d \in Made'
    <3>1. c = RegisterOf(c.s, c.l)
      BY <1>1, <2>1 DEF Call, UserCall, ReachCall, SubmitCall, RegisterCall,
                        NotifyCall, RunCall, HearCall, RegisterOf
    <3>2. CASE d.op = "register"
      <4>1. d = RegisterOf(d.s, d.l) /\ d.s \in Solver
        BY <1>3, <3>2
      <4>2. (d \in Made <=> d.l \in listeners[d.s]) /\ (d \in Made' <=> d.l \in listeners'[d.s])
        BY <3>2 DEF Made
      <4>3. d = c <=> d.s = c.s /\ d.l = c.l
        BY <3>1, <4>1
      <4>4. d.l \in listeners'[d.s] <=> d.l \in listeners[d.s] \/ (d.s = c.s /\ d.l = c.l)
        BY <2>2, <4>1
      <4> QED BY <4>2, <4>3, <4>4
    <3>3. CASE d.op # "register"
      BY <2>1, <3>3 DEF Made
    <3> QED BY <3>2, <3>3
  <2>4. Made \subseteq UserCall /\ Made' \subseteq UserCall
    BY DEF Made
  <2>5. Made \subseteq Made'
    BY <2>3, <2>4
  <2>6. Made' \subseteq Made \cup {c}
    BY <2>3, <2>4
  <2>7. c \in UserCall => c \in Made'
    BY <2>3
  <2>8. solved' = solved
    BY <2>1
  <2> QED BY <1>1, <2>5, <2>6, <2>7, <2>8
<1>6. CASE Submit(c)
  <2>1. /\ c.op = "submit" /\ c.s \in Solver /\ c.w \in Work
        /\ submits' = [submits EXCEPT ![<<c.s, c.w>>] = @ + 1]
        /\ UNCHANGED <<solved, listeners, reachable>>
    BY <1>1, <1>6, CallFields DEF Submit
  <2>2. \A j \in Solver \X Work :
          /\ submits[j] \in Nat
          /\ submits'[j] = IF j = <<c.s, c.w>> THEN submits[j] + 1 ELSE submits[j]
    BY <1>2, <2>1
  <2>3. ASSUME NEW d \in UserCall PROVE /\ d \in Made => d \in Made'
                                        /\ d \in Made' => d \in Made \/ d = c
                                        /\ d = c => d \in Made'
    <3>1. c \in UserCall => c = PutOf(c.s, c.w)
      BY <1>3, <2>1
    <3>2. CASE d.op = "submit"
      <4>1. <<d.s, d.w>> \in Solver \X Work /\ d = PutOf(d.s, d.w)
        BY <1>3, <3>2
      <4>2. <<d.s, d.w>> = <<c.s, c.w>> => d.s = c.s /\ d.w = c.w
        OBVIOUS
      <4>3. PICK n \in Nat : n = submits[<<d.s, d.w>>]
        BY <2>2, <4>1
      <4>4. submits'[<<d.s, d.w>>] = IF <<d.s, d.w>> = <<c.s, c.w>> THEN n + 1 ELSE n
        BY <2>2, <4>1, <4>3
      <4>5. d \in Made <=> n > 0
        BY <3>2, <4>3 DEF Made
      <4>6. d \in Made' <=> submits'[<<d.s, d.w>>] > 0
        BY <3>2 DEF Made
      <4>7. CASE <<d.s, d.w>> = <<c.s, c.w>>
        <5>1. d = PutOf(c.s, c.w)
          BY <4>1, <4>2, <4>7
        <5>2. c = PutOf(c.s, c.w)
          BY <2>1, <1>1, <4>7 DEF Call, UserCall, ReachCall, SubmitCall, RegisterCall,
                                  NotifyCall, RunCall, HearCall, PutOf
        <5> QED BY <4>3, <4>4, <4>5, <4>6, <4>7, <5>1, <5>2
      <4>8. CASE <<d.s, d.w>> # <<c.s, c.w>>
        <5>1. d # c
          BY <4>8
        <5> QED BY <4>3, <4>4, <4>5, <4>6, <4>8, <5>1
      <4> QED BY <4>7, <4>8
    <3>3. CASE d.op # "submit"
      BY <2>1, <3>3 DEF Made
    <3> QED BY <3>2, <3>3
  <2>4. Made \subseteq UserCall /\ Made' \subseteq UserCall
    BY DEF Made
  <2>5. Made \subseteq Made'
    BY <2>3, <2>4
  <2>6. Made' \subseteq Made \cup {c}
    BY <2>3, <2>4
  <2>7. c \in UserCall => c \in Made'
    BY <2>3
  <2>8. solved' = solved
    BY <2>1
  <2> QED BY <1>1, <2>5, <2>6, <2>7, <2>8
<1>7. CASE NotifyListeners(c) \/ Reachable(c) \/ RunRunnable(c)
  <2>1. UNCHANGED <<solved, submits, listeners, reachable>>
        /\ c.op \in {"notify", "reachable", "run"}
    BY <1>7 DEF NotifyListeners, Reachable, RunRunnable, data
  <2>2. c \notin UserCall
    BY <1>3, <2>1
  <2> QED BY <1>1, <2>1, <2>2 DEF Made
<1> QED BY <1>4, <1>5, <1>6, <1>7 DEF CallStep

LEMMA CallFollowed ==
    ASSUME QueueInv, Followed, NEW c \in Innermost, CallStep(c)
    PROVE  Followed'
<1>1. PICK body : /\ Stacked(c, body)
                  /\ \A i \in DOMAIN body : \A d \in body[i] : Makes(c, d)
  BY CallBody DEF BodyOf
<1>2. /\ Made' \subseteq Made \cup {c} /\ Made' \subseteq UserCall
      /\ Pending(c) /\ solved' = solved /\ c \in Call
  BY MadeAfter, InnermostCall DEF Made
<1>3. onTheFlyCallGraph' = onTheFlyCallGraph
  BY DEF CallStep, AddReachable, NotifyListeners, Reachable, RegisterReachableMethodListener,
         Submit, RunRunnable, data
<1> SUFFICES ASSUME NEW S \in SUBSET UserCall, IsClosed(S)'
             PROVE  Made' \subseteq S /\ \A d : Pending(d)' => Implied(S, d)'
  BY DEF Followed
<1>4. IsClosed(S)
  BY <1>2, <1>3 DEF IsClosed, Follow, Runnables, PassedOn
<1>5. Made \subseteq S /\ Implied(S, c) /\ \A d : Pending(d) => Implied(S, d)
  BY <1>2, <1>4 DEF Followed
<1>6. Made' \subseteq S
  BY <1>2, <1>5 DEF Implied
<1>7. ASSUME NEW d, Makes(c, d) PROVE Implied(S, d)
  <2>1. CASE c.op = "addReachable" /\ d = [op |-> "notify", s |-> c.s, m |-> c.m]
    <3>1. c = AddOf(c.s, c.m) /\ c \in UserCall
      BY <1>2, <2>1 DEF Call, UserCall, ReachCall, SubmitCall, RegisterCall,
                        NotifyCall, RunCall, HearCall, AddOf
    <3>2. d.op = "notify" /\ d.s = c.s /\ d.m = c.m /\ d \notin UserCall
      BY <2>1 DEF UserCall, ReachCall, SubmitCall, RegisterCall
    <3> QED BY <1>5, <3>1, <3>2 DEF Implied
  <2>2. CASE \E r \in Runnable : d = Run(r)
    BY <2>2, UserCallsRunNothing DEF Implied, Run
  <2>3. CASE c.op = "notify" /\ \E l \in listeners[c.s] : d = Hear(l, c.m)
    <3>1. PICK l \in listeners[c.s] : d = Hear(l, c.m)
      BY <2>3
    <3>2. c.s \in Solver /\ l \in Listener
      BY <1>2, <2>3, CallFields DEF QueueInv, TypeOK
    <3>3. RegisterOf(c.s, l) \in Made
      BY <3>2 DEF Made, RegisterOf, UserCall, RegisterCall
    <3>4. d.op = "reachable" /\ d.l = l /\ d.m = c.m /\ d \notin UserCall
      BY <3>1 DEF Hear, UserCall, ReachCall, SubmitCall, RegisterCall
    <3>5. AddOf(c.s, c.m) \in S
      BY <1>5, <2>3 DEF Implied
    <3> QED BY <1>5, <3>2, <3>3, <3>4, <3>5 DEF Implied
  <2>4. CASE c.op = "register" /\ \E m \in reachable[c.s] : d = Hear(c.l, m)
    <3>1. PICK m \in reachable[c.s] : d = Hear(c.l, m)
      BY <2>4
    <3>2. c.s \in Solver /\ m \in Method
      BY <1>2, <2>4, CallFields DEF QueueInv, TypeOK
    <3>3. AddOf(c.s, m) \in Made
      BY <3>2 DEF Made, AddOf, UserCall, ReachCall
    <3>4. d.op = "reachable" /\ d.l = c.l /\ d.m = m /\ d \notin UserCall
      BY <3>1 DEF Hear, UserCall, ReachCall, SubmitCall, RegisterCall
    <3>5. c = RegisterOf(c.s, c.l) /\ c \in UserCall
      BY <1>2, <2>4 DEF Call, UserCall, ReachCall, SubmitCall, RegisterCall,
                        NotifyCall, RunCall, HearCall, RegisterOf
    <3> QED BY <1>5, <3>2, <3>3, <3>4, <3>5 DEF Implied
  <2>5. CASE c.op = "reachable" /\ d = AddOf(c.l.forward, c.m)
    <3>1. PICK s \in Solver : RegisterOf(s, c.l) \in S /\ AddOf(s, c.m) \in S
      BY <1>5, <2>5 DEF Implied
    <3> DEFINE p == <<RegisterOf(s, c.l), AddOf(s, c.m)>>
    <3>2. /\ p \in S \X S /\ p[1].op = "register" /\ p[2].op = "addReachable"
          /\ p[1].s = p[2].s /\ p[1].l = c.l /\ p[2].m = c.m
      BY <3>1 DEF RegisterOf, AddOf
    <3>3. d = [op |-> "addReachable", s |-> p[1].l.forward, m |-> p[2].m]
      BY <2>5, <3>2 DEF AddOf
    <3> HIDE DEF p
    <3>4. d \in PassedOn(S)
      <4>1. p \in {u \in S \X S : u[1].op = "register" /\ u[2].op = "addReachable" /\ u[1].s = u[2].s}
        BY <3>2
      <4> QED BY <3>3, <4>1, Zenon DEF PassedOn
    <3>5. d.op = "addReachable" /\ d \in S
      <4>1. PassedOn(S) \subseteq Follow(S)
        BY Zenon DEF Follow
      <4>2. Follow(S) \subseteq S
        BY <1>4 DEF IsClosed
      <4>3. d.op = "addReachable"
        BY <2>5 DEF AddOf
      <4> QED BY <3>4, <4>1, <4>2, <4>3
    <3> QED BY <3>5 DEF Implied
  <2>6. CASE c.op = "run" /\ \E i \in DOMAIN Performs(c.r.s, c.r.w) : d \in Performs(c.r.s, c.r.w)[i]
    <3>1. PICK r \in Runnable : r = c.r /\ c = Run(r)
      BY <1>2, <2>6, CallFields
    <3>2. r \in Created /\ MayRun(r)
      BY <1>2, <3>1 DEF QueueInv, PendingSound, Pending
    <3>3. PutOf(r.s, r.w) \in Made
      <4>1. r.s \in Solver /\ r.w \in Work /\ r.n \in Nat \ {0} /\ r.n <= submits[<<r.s, r.w>>]
            /\ submits[<<r.s, r.w>>] \in Nat
        BY <3>2 DEF Created, Runnable, QueueInv, TypeOK
      <4>2. submits[<<r.s, r.w>>] > 0
        BY <4>1
      <4> QED BY <4>1, <4>2 DEF Made, PutOf, UserCall, SubmitCall
    <3>4. onTheFlyCallGraph => AddOf(r.s, MethodOf(r.w)) \in Made
      BY <3>2, ReachableQueueAssumption
         DEF Runnable, MayRun, Made, AddOf, UserCall, ReachCall
    <3>5. PICK i \in DOMAIN Performs(r.s, r.w) : d \in Performs(r.s, r.w)[i]
      BY <2>6, <3>1
    <3> DEFINE q == PutOf(r.s, r.w)
    <3>6. /\ q \in S /\ q.op = "submit" /\ q.s = r.s /\ q.w = r.w
          /\ onTheFlyCallGraph
               => [op |-> "addReachable", s |-> q.s, m |-> MethodOf(q.w)] \in S
      BY <1>5, <3>3, <3>4 DEF PutOf, AddOf
    <3> HIDE DEF q
    <3>7. d \in Follow(S)
      <4>1. q \in Runnables(S)
        BY <3>6 DEF Runnables
      <4> DEFINE asked(u) == UNION {Performs(u.s, u.w)[k] : k \in DOMAIN Performs(u.s, u.w)}
      <4>2. d \in asked(q)
        BY <3>5, <3>6, Zenon
      <4>3. UNION {asked(u) : u \in Runnables(S)} \subseteq Follow(S)
        BY Zenon DEF Follow
      <4> HIDE DEF asked
      <4> QED BY <4>1, <4>2, <4>3
    <3>8. d \in S
      BY <1>4, <3>7 DEF IsClosed
    <3>9. d.op \in {"addReachable", "submit", "register"}
      BY <3>8 DEF UserCall, ReachCall, SubmitCall, RegisterCall
    <3> QED BY <3>8, <3>9 DEF Implied
  <2> QED BY <1>7, <2>1, <2>2, <2>3, <2>4, <2>5, <2>6 DEF Makes
<1>8. ASSUME NEW d, Pending(d)' PROVE Implied(S, d)
  <2>1. Pending(d) \/ \E i \in DOMAIN body : d \in body[i]
    BY <1>1, <1>8, PendingBefore
  <2> QED BY <1>1, <1>5, <1>7, <2>1
<1> QED BY <1>6, <1>8 DEF Implied

LEMMA CallHeeded ==
    ASSUME QueueInv, Heeded, NEW c \in Innermost, CallStep(c)
    PROVE  Heeded'
<1>1. PICK body : /\ Stacked(c, body)
                  /\ \A i \in DOMAIN body : \A d \in body[i] : Makes(c, d)
                  /\ c.op = "run" => \/ Performed(c.r.s, c.r.w)
                                     \/ body = Performs(c.r.s, c.r.w)
  BY CallBody DEF BodyOf
<1>2. /\ Made \subseteq Made' /\ (c \in UserCall => c \in Made')
      /\ solved' = solved /\ c \in Call
  BY MadeAfter, InnermostCall
<1>3. ASSUME NEW d \in UserCall, Asked(d) PROVE Asked(d)'
  <2>1. CASE d = c
    BY <1>2, <1>3, <2>1 DEF Asked
  <2>2. CASE d # c
    BY <1>1, <1>2, <1>3, <2>2, PendingAfter DEF Asked
  <2> QED BY <2>1, <2>2
<1>4. ASSUME NEW r \in Runnable
      PROVE  \A i \in DOMAIN Performs(r.s, r.w) : Performs(r.s, r.w)[i] \subseteq UserCall
  BY ReachableQueueAssumption DEF Runnable
<1>5. \A q \in solved : Asked(q)'
  BY <1>3, ReachableQueueAssumption DEF Heeded, QueueInv, TypeOK
<1>6. ASSUME NEW r \in ran, NEW i \in DOMAIN Performs(r.s, r.w),
             NEW d \in Performs(r.s, r.w)[i]
      PROVE  Asked(d)'
  <2>1. r \in Runnable /\ d \in UserCall
    BY <1>4 DEF QueueInv, TypeOK
  <2> QED BY <1>3, <2>1 DEF Heeded
<1>7. ran' = ran \/ (c.op = "run" /\ c.r \in Runnable /\ ran' = ran \cup {c.r})
  BY <1>2, CallFields DEF CallStep, AddReachable, NotifyListeners, Reachable,
     RegisterReachableMethodListener, Submit, RunRunnable, data
<1>8. ASSUME c.op = "run", c.r \in Runnable, NEW i \in DOMAIN Performs(c.r.s, c.r.w),
             NEW d \in Performs(c.r.s, c.r.w)[i]
      PROVE  Asked(d)'
  <2>1. CASE Performed(c.r.s, c.r.w)
    BY <1>6, <2>1 DEF Performed
  <2>2. CASE body = Performs(c.r.s, c.r.w)
    <3>1. \A k \in DOMAIN body : \A b \in body[k] : Pending(b)'
      BY <1>1, PendingAfter
    <3>2. Pending(d)'
      BY <1>8, <2>2, <3>1
    <3> QED BY <3>2 DEF Asked
  <2> QED BY <1>1, <1>8, <2>1, <2>2
<1> QED BY <1>2, <1>5, <1>6, <1>7, <1>8 DEF Heeded

LEMMA SameOutcome ==
    ASSUME Followed, Heeded, \A d : Pending(d) <=> Pending(d)',
           UNCHANGED <<onTheFlyCallGraph, solved, submits, reachable, queued, listeners, ran>>
    PROVE  Followed' /\ Heeded'
<1>1. Made' = Made
  BY DEF Made
<1>2. \A S : IsClosed(S)' <=> IsClosed(S)
  BY DEF IsClosed, Follow, Runnables, PassedOn
<1>3. \A S, d : Implied(S, d)' <=> Implied(S, d)
  BY DEF Implied
<1>4. \A d : Asked(d) => Asked(d)'
  BY <1>1 DEF Asked
<1>5. Followed'
  BY <1>1, <1>2, <1>3 DEF Followed
<1>6. Heeded'
  BY <1>4 DEF Heeded
<1> QED BY <1>5, <1>6

\* The end of a loop leaves everything to be done that was.
LEMMA EndLoopOutcome ==
    ASSUME QueueInv, Followed, Heeded, EndLoop
    PROVE  Followed' /\ Heeded'
<1>1. /\ UNCHANGED <<onTheFlyCallGraph, solved, submits, reachable, queued, listeners, ran>>
      /\ agenda \in Seq(SUBSET Call) /\ agenda # <<>> /\ Head(agenda) = {}
      /\ agenda' = Tail(agenda)
  BY DEF EndLoop, LoopEnds, QueueInv, TypeOK, data
<1>2. /\ \A i \in DOMAIN agenda' : i + 1 \in DOMAIN agenda /\ agenda'[i] = agenda[i + 1]
      /\ \A i \in DOMAIN agenda : i # 1 => i - 1 \in DOMAIN agenda' /\ agenda'[i - 1] = agenda[i]
      /\ agenda[1] = {}
  BY <1>1
<1>3. \A d : Pending(d) <=> Pending(d)'
  BY <1>2 DEF Pending
<1> QED BY <1>1, <1>3, SameOutcome

LEMMA SolveOutcome ==
    ASSUME QueueInv, Followed, Heeded, NEW q \in Queries, Solve(q)
    PROVE  Followed' /\ Heeded'
<1>1. /\ agenda = <<>> /\ agenda' = <<{q}>> /\ solved' = solved \cup {q}
      /\ UNCHANGED <<onTheFlyCallGraph, submits, reachable, queued, listeners, ran>>
  BY DEF Solve, Idle
<1>2. q \in UserCall /\ q.op \in {"addReachable", "submit", "register"}
  BY ReachableQueueAssumption DEF UserCall, ReachCall, SubmitCall, RegisterCall
<1>3. (\A d : ~Pending(d)) /\ \A d : Pending(d)' <=> d = q
  BY <1>1 DEF Pending
<1>4. Made' = Made
  BY <1>1 DEF Made
<1>5. Followed'
  <2> SUFFICES ASSUME NEW S \in SUBSET UserCall, IsClosed(S)'
               PROVE  Made' \subseteq S /\ \A d : Pending(d)' => Implied(S, d)'
    BY DEF Followed
  <2>1. q \in S /\ IsClosed(S)
    BY <1>1 DEF IsClosed, Follow, Runnables, PassedOn
  <2>2. Made \subseteq S
    BY <2>1 DEF Followed
  <2>3. Implied(S, q)
    BY <1>2, <2>1 DEF Implied
  <2>4. \A d : Implied(S, d)' <=> Implied(S, d)
    BY DEF Implied
  <2> QED BY <1>3, <1>4, <2>2, <2>3, <2>4
<1>6. \A d : Asked(d) => Asked(d)'
  BY <1>3, <1>4 DEF Asked
<1>7. Asked(q)'
  BY <1>3 DEF Asked
<1> QED BY <1>1, <1>5, <1>6, <1>7 DEF Heeded

LEMMA OutcomeInvariant == Spec => [](QueueInv /\ Followed /\ Heeded)
<1>1. Init => Followed /\ Heeded
  <2> SUFFICES ASSUME Init PROVE Followed /\ Heeded
    OBVIOUS
  <2>1. /\ solved = {} /\ ran = {} /\ agenda = <<>>
        /\ \A s \in Solver : reachable[s] = {} /\ listeners[s] = {}
        /\ \A j \in Solver \X Work : submits[j] = 0
    BY DEF Init
  <2>2. \A d \in UserCall : d.s \in Solver /\ (d.op = "submit" => d.w \in Work)
    BY DEF UserCall, ReachCall, SubmitCall, RegisterCall
  <2>3. Made = {}
    BY <2>1, <2>2 DEF Made
  <2>4. \A d : ~Pending(d)
    BY <2>1 DEF Pending
  <2> QED BY <2>1, <2>3, <2>4 DEF Followed, Heeded
<1>2. QueueInv /\ Followed /\ Heeded /\ [Next]_vars => Followed' /\ Heeded'
  <2> SUFFICES ASSUME QueueInv, Followed, Heeded, [Next]_vars PROVE Followed' /\ Heeded'
    OBVIOUS
  <2>1. ASSUME EndLoop PROVE Followed' /\ Heeded'
    BY <2>1, EndLoopOutcome
  <2>2. ASSUME NEW c \in Innermost, CallStep(c) PROVE Followed' /\ Heeded'
    BY <2>2, CallFollowed, CallHeeded
  <2>3. ASSUME NEW q \in Queries, Solve(q) PROVE Followed' /\ Heeded'
    BY <2>3, SolveOutcome
  <2>4. ASSUME UNCHANGED vars PROVE Followed' /\ Heeded'
    <3>1. UNCHANGED <<onTheFlyCallGraph, solved, submits, reachable, queued, listeners, ran, agenda>>
      BY <2>4 DEF vars, data
    <3>2. \A d : Pending(d) <=> Pending(d)'
      BY <3>1 DEF Pending
    <3> QED BY <3>1, <3>2, SameOutcome
  <2> QED BY <2>1, <2>2, <2>3, <2>4 DEF Next, Step, CallStep
<1> QED BY <1>1, <1>2, QueueInvariant, PTL DEF Spec

\* Work that is made and may run has been performed, once the solvers are at rest.
LEMMA MadeWorkRuns ==
    ASSUME QueueInv, Idle, NEW s \in Solver, NEW w \in Work,
           PutOf(s, w) \in Made, MethodOf(w) \in reachable[s] \/ ~onTheFlyCallGraph
    PROVE  \E r \in ran : r.s = s /\ r.w = w
<1> DEFINE r == [s |-> s, w |-> w, n |-> 1]
<1>1. r \in Runnable /\ r.s = s /\ r.w = w /\ r.n = 1
  BY DEF Runnable
<1> HIDE DEF r
<1>2. submits[<<s, w>>] > 0 /\ submits[<<s, w>>] \in Nat
  BY DEF Made, PutOf, QueueInv, TypeOK
<1>3. r \in Created /\ MayRun(r)
  BY <1>1, <1>2 DEF Created, MayRun
<1>4. ~Pending(Run(r))
  BY DEF Idle, Pending
<1> QED BY <1>1, <1>3, <1>4 DEF QueueInv, CreatedKept

LEMMA MadeIsLeast ==
    ASSUME QueueInv, Followed, Heeded, Idle
    PROVE  IsLeast(Made)
<1>1. Made \in SUBSET UserCall /\ \A d : Asked(d) => d \in Made
  BY DEF Made, Asked, Idle, Pending
<1>2. solved \subseteq Made
  BY <1>1 DEF Heeded
<1>3. PassedOn(Made) \subseteq Made
  <2> SUFFICES ASSUME NEW d \in PassedOn(Made) PROVE d \in Made
    OBVIOUS
  <2>1. PICK p \in {q \in Made \X Made :
                     q[1].op = "register" /\ q[2].op = "addReachable" /\ q[1].s = q[2].s} :
          d = [op |-> "addReachable", s |-> p[1].l.forward, m |-> p[2].m]
    BY Zenon DEF PassedOn
  <2>2. PICK a, b \in Made : /\ a.op = "register" /\ b.op = "addReachable" /\ a.s = b.s
                             /\ d = AddOf(a.l.forward, b.m)
    BY <2>1 DEF AddOf
  <2>3. /\ a.s \in Solver /\ a.l \in Listener /\ a.l.forward \in Solver /\ b.m \in Method
        /\ a.l \in listeners[a.s] /\ b.m \in reachable[a.s]
    BY <2>2 DEF Made, UserCall, ReachCall, SubmitCall, RegisterCall, Listener
  <2>4. OnItsWay(a.s, a.l, b.m)
    BY <2>3 DEF QueueInv, Forwarding
  <2>5. b.m \in reachable[a.l.forward]
    BY <2>4 DEF OnItsWay, Idle, Pending
  <2>6. AddOf(a.l.forward, b.m) \in Made
    BY <2>3, <2>5 DEF Made, AddOf, UserCall, ReachCall
  <2> QED BY <2>2, <2>6
<1>4. ASSUME NEW c \in Runnables(Made), NEW i \in DOMAIN Performs(c.s, c.w),
             NEW d \in Performs(c.s, c.w)[i]
      PROVE  d \in Made
  <2>1. /\ c \in Made /\ c.op = "submit"
        /\ onTheFlyCallGraph => AddOf(c.s, MethodOf(c.w)) \in Made
    BY DEF Runnables, AddOf
  <2>2. c.s \in Solver /\ c.w \in Work /\ c = PutOf(c.s, c.w)
    BY <2>1 DEF Made, UserCall, ReachCall, SubmitCall, RegisterCall, PutOf
  <2>3. MethodOf(c.w) \in reachable[c.s] \/ ~onTheFlyCallGraph
    BY <2>1 DEF Made, AddOf
  <2>4. PutOf(c.s, c.w) \in Made
    BY <2>1, <2>2
  <2>5. PICK r \in ran : r.s = c.s /\ r.w = c.w
    BY <2>2, <2>3, <2>4, MadeWorkRuns
  <2>6. Asked(d)
    BY <2>5 DEF Heeded
  <2> QED BY <1>1, <2>6
<1>5. Follow(Made) \subseteq Made
  <2> SUFFICES ASSUME NEW d \in Follow(Made), d \notin PassedOn(Made) PROVE d \in Made
    BY <1>3
  <2>1. PICK c \in Runnables(Made) : d \in UNION {Performs(c.s, c.w)[i] : i \in DOMAIN Performs(c.s, c.w)}
    BY Zenon DEF Follow
  <2>2. PICK i \in DOMAIN Performs(c.s, c.w) : d \in Performs(c.s, c.w)[i]
    BY <2>1, Zenon
  <2> QED BY <1>4, <2>2
<1>6. IsClosed(Made)
  BY <1>2, <1>5 DEF IsClosed
<1> QED BY <1>1, <1>6 DEF IsLeast, Followed

LEMMA MadeIsOutcome ==
    ASSUME QueueInv, Idle PROVE OutcomeOf(Made)
<1>1. ASSUME NEW s \in Solver
      PROVE  reachable[s] = {c.m : c \in {d \in Made : d.op = "addReachable" /\ d.s = s}}
  <2>1. reachable[s] \subseteq Method
    BY DEF QueueInv, TypeOK
  <2>2. ASSUME NEW m \in reachable[s]
        PROVE  AddOf(s, m) \in {d \in Made : d.op = "addReachable" /\ d.s = s} /\ AddOf(s, m).m = m
    BY <2>1 DEF Made, AddOf, UserCall, ReachCall
  <2>3. ASSUME NEW c \in {d \in Made : d.op = "addReachable" /\ d.s = s}
        PROVE  c.m \in reachable[s]
    BY DEF Made
  <2>4. reachable[s] \subseteq {c.m : c \in {d \in Made : d.op = "addReachable" /\ d.s = s}}
    BY <2>2, Zenon
  <2>5. {c.m : c \in {d \in Made : d.op = "addReachable" /\ d.s = s}} \subseteq reachable[s]
    BY <2>3
  <2> QED BY <2>4, <2>5
<1>2. ASSUME NEW s \in Solver, NEW w \in Work
      PROVE  Performed(s, w) <=>
               /\ [op |-> "submit", s |-> s, w |-> w] \in Made
               /\ MethodOf(w) \in reachable[s] \/ ~onTheFlyCallGraph
  <2>1. ASSUME Performed(s, w)
        PROVE  PutOf(s, w) \in Made /\ (MethodOf(w) \in reachable[s] \/ ~onTheFlyCallGraph)
    <3>1. PICK r \in ran : r.s = s /\ r.w = w
      BY <2>1 DEF Performed
    <3>2. r \in Created /\ MayRun(r)
      BY <3>1 DEF QueueInv, RanSound
    <3>3. r.n \in Nat \ {0} /\ r.n <= submits[<<s, w>>] /\ submits[<<s, w>>] \in Nat
      BY <3>1, <3>2 DEF Created, Runnable, QueueInv, TypeOK
    <3>4. submits[<<s, w>>] > 0
      BY <3>3
    <3>5. PutOf(s, w) \in Made
      BY <3>4 DEF Made, PutOf, UserCall, SubmitCall
    <3> QED BY <3>1, <3>2, <3>5 DEF MayRun
  <2> QED BY <2>1, MadeWorkRuns DEF Performed, PutOf
<1> QED BY <1>1, <1>2 DEF OutcomeOf

\* At rest, exactly those calls have taken effect that follow from the queries:
\* what is reachable and what has been performed is the least outcome possible,
\* whatever the order of the calls was.  (all of it)
THEOREM OutcomeIsLeast ==
    Spec => [](Idle => \E calls : IsLeast(calls) /\ OutcomeOf(calls))
<1>1. QueueInv /\ Followed /\ Heeded => (Idle => \E calls : IsLeast(calls) /\ OutcomeOf(calls))
  <2> SUFFICES ASSUME QueueInv, Followed, Heeded, Idle
               PROVE  \E calls : IsLeast(calls) /\ OutcomeOf(calls)
    OBVIOUS
  <2>1. IsLeast(Made) /\ OutcomeOf(Made)
    BY MadeIsLeast, MadeIsOutcome
  <2>2. PICK made : made = Made
    OBVIOUS
  <2>3. IsLeast(made) /\ OutcomeOf(made)
    BY <2>1, <2>2
  <2> QED BY <2>3
<1> QED BY <1>1, OutcomeInvariant, PTL

(***************************************************************************)
(* The closure of the queries' calls, which is computed by recursion.      *)
(***************************************************************************)
LEMMA UserCallFinite == IsFiniteSet(UserCall)
<1> DEFINE sm == Solver \X Method
           sw == Solver \X Work
           sl == Solver \X sw
           addOf == [p \in sm |-> [op |-> "addReachable", s |-> p[1], m |-> p[2]]]
           submitOf == [p \in sw |-> [op |-> "submit", s |-> p[1], w |-> p[2]]]
           registerOf == [p \in sl |-> [op |-> "register", s |-> p[1],
                                        l |-> [forward |-> p[2][1], node |-> p[2][2]]]]
<1>1. IsFiniteSet(sm) /\ IsFiniteSet(sw)
  BY ReachableQueueFinite, FS_Product
<1>2. IsFiniteSet(sl)
  BY <1>1, ReachableQueueFinite, FS_Product
<1>3. addOf \in Surjection(sm, ReachCall)
  <2>1. addOf \in [sm -> ReachCall]
    BY DEF ReachCall
  <2>2. ASSUME NEW d \in ReachCall PROVE \E p \in sm : addOf[p] = d
    <3>1. <<d.s, d.m>> \in sm /\ addOf[<<d.s, d.m>>] = d
      BY DEF ReachCall
    <3> QED BY <3>1
  <2> QED BY <2>1, <2>2, Zenon DEF Surjection
<1>4. submitOf \in Surjection(sw, SubmitCall)
  <2>1. submitOf \in [sw -> SubmitCall]
    BY DEF SubmitCall
  <2>2. ASSUME NEW d \in SubmitCall PROVE \E p \in sw : submitOf[p] = d
    <3>1. <<d.s, d.w>> \in sw /\ submitOf[<<d.s, d.w>>] = d
      BY DEF SubmitCall
    <3> QED BY <3>1
  <2> QED BY <2>1, <2>2, Zenon DEF Surjection
<1>5. registerOf \in Surjection(sl, RegisterCall)
  <2>1. registerOf \in [sl -> RegisterCall]
    BY DEF RegisterCall, Listener, Nodes
  <2>2. ASSUME NEW d \in RegisterCall PROVE \E p \in sl : registerOf[p] = d
    <3> DEFINE p == <<d.s, <<d.l.forward, d.l.node>>>>
    <3>1. /\ d.s \in Solver /\ d.l \in [forward : Solver, node : Work]
          /\ d = [op |-> "register", s |-> d.s, l |-> d.l]
      BY DEF RegisterCall, Listener, Nodes
    <3>2. p \in sl /\ d.l = [forward |-> d.l.forward, node |-> d.l.node]
      BY <3>1
    <3>3. registerOf[p] = [op |-> "register", s |-> d.s,
                           l |-> [forward |-> d.l.forward, node |-> d.l.node]]
      BY <3>2
    <3>4. registerOf[p] = d
      BY <3>1, <3>2, <3>3, Zenon
    <3> QED BY <3>2, <3>4
  <2> QED BY <2>1, <2>2, Zenon DEF Surjection
<1> HIDE DEF sm, sw, sl, addOf, submitOf, registerOf
<1>6. IsFiniteSet(ReachCall) /\ IsFiniteSet(SubmitCall) /\ IsFiniteSet(RegisterCall)
  BY <1>1, <1>2, <1>3, <1>4, <1>5, FS_Surjection
<1>7. IsFiniteSet(ReachCall \cup SubmitCall)
  BY <1>6, FS_Union
<1> QED BY <1>6, <1>7, FS_Union DEF UserCall

LEMMA InFollow ==
    ASSUME NEW x, NEW d
    PROVE  d \in Follow(x) <=>
             \/ d \in PassedOn(x)
             \/ \E c \in Runnables(x) : \E i \in DOMAIN Performs(c.s, c.w) :
                  d \in Performs(c.s, c.w)[i]
<1> DEFINE made(c) == UNION {Performs(c.s, c.w)[i] : i \in DOMAIN Performs(c.s, c.w)}
           all == UNION {made(c) : c \in Runnables(x)}
<1>1. \A c : d \in made(c) <=> \E i \in DOMAIN Performs(c.s, c.w) : d \in Performs(c.s, c.w)[i]
  BY Zenon
<1>2. Follow(x) = PassedOn(x) \cup all
  BY DEF Follow
<1> HIDE DEF made
<1>3. d \in all <=> \E c \in Runnables(x) : d \in made(c)
  BY Zenon
<1> HIDE DEF all
<1> QED BY <1>1, <1>2, <1>3, Zenon

LEMMA FollowGrows ==
    ASSUME NEW x, NEW y, x \subseteq y
    PROVE  Follow(x) \subseteq Follow(y)
<1>1. Runnables(x) \subseteq Runnables(y)
  BY DEF Runnables
<1>2. PassedOn(x) \subseteq PassedOn(y)
  BY DEF PassedOn
<1>3. ASSUME NEW d \in Follow(x) PROVE d \in Follow(y)
  BY <1>1, <1>2, InFollow, Zenon
<1> QED BY <1>3

LEMMA FollowTypes ==
    ASSUME NEW x \in SUBSET UserCall
    PROVE  Follow(x) \subseteq UserCall
<1>1. ASSUME NEW d, NEW c \in Runnables(x), NEW i \in DOMAIN Performs(c.s, c.w),
             d \in Performs(c.s, c.w)[i]
      PROVE  d \in UserCall
  <2>1. c \in SubmitCall
    BY DEF Runnables, UserCall, ReachCall, SubmitCall, RegisterCall
  <2>2. Performs(c.s, c.w) \in Seq(SUBSET UserCall)
    BY <2>1, ReachableQueueAssumption DEF SubmitCall
  <2> QED BY <1>1, <2>2
<1>2. ASSUME NEW d \in PassedOn(x) PROVE d \in UserCall
  <2>1. PICK p \in x \X x : /\ p[1].op = "register" /\ p[2].op = "addReachable"
                           /\ d = [op |-> "addReachable", s |-> p[1].l.forward, m |-> p[2].m]
    BY <1>2 DEF PassedOn
  <2>2. p[1] \in RegisterCall /\ p[2] \in ReachCall
    BY <2>1 DEF UserCall, ReachCall, SubmitCall, RegisterCall
  <2> QED BY <2>1, <2>2 DEF UserCall, ReachCall, RegisterCall, Listener
<1>3. ASSUME NEW d \in Follow(x) PROVE d \in UserCall
  BY <1>1, <1>2, <1>3, InFollow, Zenon
<1> QED BY <1>3

LEMMA AllCallsLeast ==
    ASSUME solved \in SUBSET UserCall
    PROVE  IsLeast(AllCalls)
<1> DEFINE next == [x \in SUBSET UserCall |-> x \cup Follow(x)]
<1>1. next \in [SUBSET UserCall -> SUBSET UserCall]
  BY FollowTypes
<1>2. \A x \in SUBSET UserCall : x \subseteq next[x]
  OBVIOUS
<1>3. \A x, y \in SUBSET UserCall : x \subseteq y => next[x] \subseteq next[y]
  BY FollowGrows
<1>4. \A x \in SUBSET UserCall : next[x] = x <=> Follow(x) \subseteq x
  OBVIOUS
<1>5. \A f : Repeats(SUBSET UserCall, next, f) <=>
        f = [calls \in SUBSET UserCall |-> IF Follow(calls) \subseteq calls THEN calls
                                           ELSE f[calls \cup Follow(calls)]]
  <2> SUFFICES ASSUME NEW f
               PROVE  [x \in SUBSET UserCall |-> IF next[x] = x THEN x ELSE f[next[x]]]
                    = [calls \in SUBSET UserCall |-> IF Follow(calls) \subseteq calls THEN calls
                                                     ELSE f[calls \cup Follow(calls)]]
    BY DEF Repeats
  <2> QED OBVIOUS
<1>6. \A S \in SUBSET UserCall : next[S] \subseteq S <=> Follow(S) \subseteq S
  OBVIOUS
<1> HIDE DEF next
<1>7. /\ \E f : Repeats(SUBSET UserCall, next, f)
      /\ \A f : Repeats(SUBSET UserCall, next, f) => Closes(UserCall, next, f)
  <2>1. Expands(UserCall, next)
    BY <1>1, <1>2, <1>3, UserCallFinite DEF Expands
  <2> QED BY <2>1, SetClosure
<1>8. Repeats(SUBSET UserCall, next, Closure) /\ Closes(UserCall, next, Closure)
  <2>1. \E f : Repeats(SUBSET UserCall, next, f)
    BY <1>7
  <2>2. Repeats(SUBSET UserCall, next, Closure)
    BY <1>5, <2>1, Zenon DEF Closure
  <2> QED BY <1>7, <2>2
<1>9. /\ AllCalls \in SUBSET UserCall /\ solved \subseteq AllCalls
      /\ next[AllCalls] = AllCalls
      /\ \A S \in SUBSET UserCall : solved \subseteq S /\ next[S] \subseteq S => AllCalls \subseteq S
  BY <1>8 DEF AllCalls, Closes
<1> QED BY <1>4, <1>6, <1>9 DEF IsLeast, IsClosed

\* Hence the property that is checked: when the solvers are at rest, what is
\* reachable and what has been performed is what the closure of the queries'
\* calls says, in whatever order it all came.  (all of it)
THEOREM OrderNeverMatters == Spec => []OrderIndependent
<1>1. QueueInv /\ Followed /\ Heeded => OrderIndependent
  <2> SUFFICES ASSUME QueueInv, Followed, Heeded, Idle
               PROVE  OutcomeOf(AllCalls)
    BY DEF OrderIndependent
  <2>1. IsLeast(Made) /\ OutcomeOf(Made)
    BY MadeIsLeast, MadeIsOutcome
  <2>2. PICK made : made = Made
    OBVIOUS
  <2>3. PICK all : all = AllCalls
    OBVIOUS
  <2>4. solved \in SUBSET UserCall
    BY ReachableQueueAssumption DEF QueueInv, TypeOK
  <2>5. IsLeast(AllCalls)
    BY <2>4, AllCallsLeast
  <2>6. made \subseteq all /\ all \subseteq made
    BY <2>1, <2>2, <2>3, <2>5 DEF IsLeast
  <2>7. OutcomeOf(all)
    BY <2>1, <2>2, <2>6
  <2> QED BY <2>3, <2>7
<1> QED BY <1>1, OutcomeInvariant, PTL

-----------------------------------------------------------------------------
(***************************************************************************)
(* Seeds: the seeds of exactly the methods that are reached are found, and *)
(* the scope of a seed is its method with all callers.                     *)
(***************************************************************************)

(***************************************************************************)
(* What follows from what, in steps.                                       *)
(***************************************************************************)
\* T has what S has, and with the first of a pair of R the second.
ClosedUnder(R, T) == \A p \in R : p[1] \in T => p[2] \in T

\* What can be reached from S is the least such set.
LEMMA TransitivelyLeast ==
    ASSUME NEW R \in SUBSET (SootMethod \X SootMethod), NEW S \in SUBSET SootMethod
    PROVE  /\ Transitively(R, S) \in SUBSET SootMethod
           /\ S \subseteq Transitively(R, S) /\ ClosedUnder(R, Transitively(R, S))
           /\ \A T \in SUBSET SootMethod :
                S \subseteq T /\ ClosedUnder(R, T) => Transitively(R, S) \subseteq T
<1> DEFINE D == SUBSET SootMethod
           after(T) == T \cup {p[2] : p \in {e \in R : e[1] \in T}}
           further == [T \in D |-> after(T)]
           all(f) == [T \in D |-> LET onward == after(T)
                                  IN IF onward = T THEN T ELSE f[onward]]
<1>1. \A T \in D : after(T) \in D /\ T \subseteq after(T)
  OBVIOUS
<1>2. Expands(SootMethod, further)
  <2>1. IsFiniteSet(SootMethod) /\ further \in [D -> D]
    BY <1>1, SeedsFinite
  <2>2. \A x \in D : x \subseteq further[x]
    BY <1>1
  <2>3. \A x, y \in D : x \subseteq y => further[x] \subseteq further[y]
    OBVIOUS
  <2> QED BY <2>1, <2>2, <2>3 DEF Expands
<1>3. \A f : Repeats(D, further, f) <=> f = all(f)
  <2> SUFFICES ASSUME NEW f PROVE Repeats(D, further, f) <=> f = all(f)
    OBVIOUS
  <2> QED BY DEF Repeats
<1> HIDE DEF D
<1>4. /\ \E f : Repeats(D, further, f)
      /\ \A f : Repeats(D, further, f) => Closes(SootMethod, further, f)
  BY <1>2, SetClosure DEF D
<1> DEFINE close == CHOOSE f : f = all(f)
<1>5. Transitively(R, S) = close[S]
  BY Zenon DEF Transitively, D
<1>6. close = all(close)
  <2>1. \E f : f = all(f)
    BY <1>3, <1>4
  <2> HIDE DEF all
  <2> QED BY <2>1
<1>7. Closes(SootMethod, further, close)
  BY <1>3, <1>4, <1>6
<1> HIDE DEF close
<1>8. \A T \in D : further[T] = after(T)
  OBVIOUS
<1> HIDE DEF further
<1>9. /\ close[S] \in D /\ S \subseteq close[S] /\ further[close[S]] = close[S]
      /\ \A T \in D : S \subseteq T /\ further[T] \subseteq T => close[S] \subseteq T
  BY <1>7 DEF Closes, D
<1>10. \A T \in D : further[T] \subseteq T <=> ClosedUnder(R, T)
  BY <1>8 DEF ClosedUnder
<1> QED BY <1>5, <1>9, <1>10 DEF D

(***************************************************************************)
(* The methods that are reached.                                           *)
(***************************************************************************)
LEMMA CallsTyped == Calls \in SUBSET (SootMethod \X SootMethod)
BY SeedsAssumption DEF Calls

LEMMA InCalls ==
    ASSUME NEW m, NEW n
    PROVE  <<m, n>> \in Calls <=> m \in SootMethod /\ n \in Callees[m]
BY DEF Calls

LEMMA EntriesReached ==
    /\ CalledFromEntries \in SUBSET SootMethod /\ EntryPoints \subseteq CalledFromEntries
    /\ ClosedUnder(Calls, CalledFromEntries)
    /\ \A T \in SUBSET SootMethod :
         EntryPoints \subseteq T /\ ClosedUnder(Calls, T) => CalledFromEntries \subseteq T
<1>1. EntryPoints \in SUBSET SootMethod
  BY SeedsAssumption
<1> QED BY <1>1, CallsTyped, TransitivelyLeast DEF CalledFromEntries

LEMMA InitializersTyped ==
    /\ Initialized \in SUBSET SootMethod
    /\ CallsAndInitializers \in SUBSET (SootMethod \X SootMethod)
    /\ Calls \subseteq CallsAndInitializers
    /\ EntryPoints \X Initialized \subseteq CallsAndInitializers
    /\ \A p \in CallsAndInitializers : p \in Calls \/ p \in EntryPoints \X Initialized
<1>1. Initialized \in SUBSET SootMethod
  <2>1. \A m \in CalledFromEntries : Initializers[ClassOf[m]] \subseteq SootMethod
    BY EntriesReached, SeedsAssumption
  <2>2. UNION {Initializers[ClassOf[m]] : m \in CalledFromEntries} \in SUBSET SootMethod
    BY <2>1
  <2> QED BY <2>2 DEF Initialized
<1>2. EntryPoints \subseteq SootMethod
  BY SeedsAssumption
<1> QED BY <1>1, <1>2, CallsTyped DEF CallsAndInitializers

LEMMA MethodsReached ==
    /\ Reached \in SUBSET SootMethod /\ EntryPoints \subseteq Reached
    /\ ClosedUnder(CallsAndInitializers, Reached)
    /\ \A T \in SUBSET SootMethod :
         EntryPoints \subseteq T /\ ClosedUnder(CallsAndInitializers, T) => Reached \subseteq T
<1>1. EntryPoints \in SUBSET SootMethod
  BY SeedsAssumption
<1> QED BY <1>1, InitializersTyped, TransitivelyLeast DEF Reached

LEMMA MoreReached == CalledFromEntries \subseteq Reached
<1>1. ClosedUnder(Calls, Reached)
  BY MethodsReached, InitializersTyped DEF ClosedUnder
<1> QED BY <1>1, EntriesReached, MethodsReached

\* The calls of the methods reached, callee first.
Callers == {<<p[2], p[1]>> : p \in {e \in CallsAndInitializers : e[1] \in Reached}}

LEMMA InCallers ==
    /\ Callers \in SUBSET (SootMethod \X SootMethod)
    /\ \A p \in CallsAndInitializers : p[1] \in Reached => <<p[2], p[1]>> \in Callers
    /\ \A e \in Callers : \E p \in CallsAndInitializers :
         p[1] \in Reached /\ e = <<p[2], p[1]>>
BY InitializersTyped DEF Callers

LEMMA CallersLeast ==
    ASSUME NEW m \in SootMethod
    PROVE  /\ CallersOf(m) \in SUBSET SootMethod /\ m \in CallersOf(m)
           /\ \A p \in CallsAndInitializers :
                p[1] \in Reached /\ p[2] \in CallersOf(m) => p[1] \in CallersOf(m)
           /\ \A T \in SUBSET SootMethod :
                m \in T /\ ClosedUnder(Callers, T) => CallersOf(m) \subseteq T
<1>1. CallersOf(m) = Transitively(Callers, {m})
  BY DEF CallersOf, Callers
<1>2. {m} \in SUBSET SootMethod
  OBVIOUS
<1>3. /\ CallersOf(m) \in SUBSET SootMethod /\ {m} \subseteq CallersOf(m)
      /\ ClosedUnder(Callers, CallersOf(m))
      /\ \A T \in SUBSET SootMethod :
           {m} \subseteq T /\ ClosedUnder(Callers, T) => CallersOf(m) \subseteq T
  BY <1>1, <1>2, InCallers, TransitivelyLeast
<1>4. ASSUME NEW p \in CallsAndInitializers, p[1] \in Reached, p[2] \in CallersOf(m)
      PROVE  p[1] \in CallersOf(m)
  <2> DEFINE e == <<p[2], p[1]>>
  <2>1. e \in Callers /\ e[1] = p[2] /\ e[2] = p[1]
    BY <1>4, InCallers
  <2> HIDE DEF e
  <2> QED BY <1>3, <1>4, <2>1 DEF ClosedUnder
<1> QED BY <1>3, <1>4

(***************************************************************************)
(* The inductive invariant.                                                *)
(***************************************************************************)
SeedsTransition == [from : State, m : SootMethod, to : State]

MethodPair == SootMethod \X SootMethod

SeedsCall ==
    [op : {"process", "add", "out"}, t : SeedsTransition]
    \cup [op : {"rule"}, p : MethodPair]
    \cup [op : {"push"}, p : MethodPair, t : SeedsTransition]
    \cup [op : {"class"}, k : {ClassOf[m] : m \in SootMethod}]
    \cup [op : {"closure"}, q : Query, s : State]

Adding(t) == [op |-> "add", t |-> t]
OutOf(t) == [op |-> "out", t |-> t]
ClassCall(k) == [op |-> "class", k |-> k]

\* What may be reached, and called, before the initializers are added and after.
Within == IF stage = "entries" THEN CalledFromEntries ELSE Reached
Allowed == IF stage = "entries" THEN Calls ELSE CallsAndInitializers

\* A method is entered from outside, or from below.
Enters(t) == (t.to = Initial /\ t.m \in EntryPoints) \/ t.to = Below(t.m)

\* Out of Below(b) go the methods that call b, where they go from Top.
FromCaller(t) ==
    \/ t.from = Top
    \/ /\ Trans(Top, t.m, t.to) \in automaton
       /\ \E b \in SootMethod : t.from = Below(b) /\ <<t.m, b>> \in rules

\* m is called on top of some stack.
OnTop(m) == \E t \in automaton : t.from = Top /\ t.m = m

Founded(t) == t.m \in Within /\ Enters(t) /\ FromCaller(t)

\* The calls that are pending are about what is there.
FoundedCall(d) ==
    /\ d.op \in {"process", "out"} => d.t \in automaton
    /\ d.op = "add" => Founded(d.t)
    /\ d.op = "rule" => d.p \in Allowed /\ d.p[1] \in Within
    /\ d.op = "push" => /\ d.p \in rules /\ d.t \in automaton
                        /\ d.t.from = Top /\ d.t.m = d.p[1]
    /\ d.op = "class" => /\ stage = "computed" /\ analyseClassInitializers
                         /\ \E m \in CalledFromEntries : d.k = ClassOf[m]
    /\ d.op = "closure" => d.q \in answered

SeedsTypeOK ==
    /\ automaton \subseteq SeedsTransition
    /\ rules \subseteq MethodPair
    /\ processed \subseteq SootMethod
    /\ seedToTransition \subseteq Query \X SeedsTransition
    /\ closures \subseteq Query \X State
    /\ answered \subseteq Query
    /\ scope \in [Query -> SUBSET SootMethod]
    /\ stage \in {"entries", "computed"}
    /\ agenda \in Seq(SUBSET SeedsCall)

SeedsInv ==
    /\ SeedsTypeOK
    /\ \A t \in automaton : Founded(t)
    /\ \A p \in rules : p \in Allowed /\ p[1] \in Within
    /\ \A m \in processed : m \in Within /\ OnTop(m)
    /\ \A x \in seedToTransition :
         x[2] \in automaton /\ x[2].m \in processed /\ x[1] \in Seeds[x[2].m]
    /\ \A x \in closures : x[1] \in answered
    /\ \A d : Pending(d) => FoundedCall(d)

\* Fields, and which calls are which.
LEMMA SeedsStates ==
    /\ Top \in State /\ Initial \in State /\ Top # Initial
    /\ \A m : Below(m) # Top /\ Below(m) # Initial
    /\ \A m, n : Below(m) = Below(n) => m = n
    /\ \A m \in SootMethod : Below(m) \in State
    /\ \A s \in State : s = Top \/ s = Initial \/ \E m \in SootMethod : s = Below(m)
BY DEF State, Top, Initial, Below

LEMMA TransFields ==
    /\ \A s, m, t : Trans(s, m, t).from = s /\ Trans(s, m, t).m = m /\ Trans(s, m, t).to = t
    /\ \A s \in State, m \in SootMethod, t \in State : Trans(s, m, t) \in SeedsTransition
    /\ \A t \in SeedsTransition :
         /\ t.from \in State /\ t.m \in SootMethod /\ t.to \in State
         /\ t = Trans(t.from, t.m, t.to)
BY DEF Trans, SeedsTransition

LEMMA SeedsCallOps ==
    /\ \A t : Process(t).op = "process" /\ Process(t).t = t
    /\ \A t : Adding(t).op = "add" /\ Adding(t).t = t
    /\ \A t : OutOf(t).op = "out" /\ OutOf(t).t = t
    /\ \A p : AddPushRule(p).op = "rule" /\ AddPushRule(p).p = p
    /\ \A p, t : Push(p, t).op = "push" /\ Push(p, t).p = p /\ Push(p, t).t = t
    /\ \A k : ClassCall(k).op = "class" /\ ClassCall(k).k = k
    /\ \A q, s : /\ TransitiveClosure(q, s).op = "closure"
                 /\ TransitiveClosure(q, s).q = q /\ TransitiveClosure(q, s).s = s
BY DEF Process, Adding, OutOf, AddPushRule, Push, ClassCall, TransitiveClosure

LEMMA SeedsCallTypes ==
    /\ \A t \in SeedsTransition :
         Process(t) \in SeedsCall /\ Adding(t) \in SeedsCall /\ OutOf(t) \in SeedsCall
    /\ \A p \in MethodPair : AddPushRule(p) \in SeedsCall
    /\ \A p \in MethodPair, t \in SeedsTransition : Push(p, t) \in SeedsCall
    /\ \A m \in SootMethod : ClassCall(ClassOf[m]) \in SeedsCall
    /\ \A q \in Query, s \in State : TransitiveClosure(q, s) \in SeedsCall
<1>1. \A t \in SeedsTransition :
         Process(t) \in SeedsCall /\ Adding(t) \in SeedsCall /\ OutOf(t) \in SeedsCall
  BY DEF Process, Adding, OutOf, SeedsCall
<1>2. \A p \in MethodPair : AddPushRule(p) \in SeedsCall
  BY DEF AddPushRule, SeedsCall
<1>3. \A p \in MethodPair, t \in SeedsTransition : Push(p, t) \in SeedsCall
  BY DEF Push, SeedsCall
<1>4. \A m \in SootMethod : ClassCall(ClassOf[m]) \in SeedsCall
  BY DEF ClassCall, SeedsCall
<1>5. \A q \in Query, s \in State : TransitiveClosure(q, s) \in SeedsCall
  BY DEF TransitiveClosure, SeedsCall
<1> QED BY <1>1, <1>2, <1>3, <1>4, <1>5

LEMMA SeedsCallFields ==
    ASSUME NEW d \in SeedsCall
    PROVE  /\ d.op \in {"process", "add", "out", "rule", "push", "class", "closure"}
           /\ d.op \in {"process", "add", "out", "push"} => d.t \in SeedsTransition
           /\ d.op \in {"rule", "push"} => d.p \in MethodPair
           /\ d.op = "closure" => d.q \in Query /\ d.s \in State
<1>1. CASE d \in [op : {"process", "add", "out"}, t : SeedsTransition]
  BY <1>1
<1>2. CASE d \in [op : {"rule"}, p : MethodPair]
  BY <1>2
<1>3. CASE d \in [op : {"push"}, p : MethodPair, t : SeedsTransition]
  BY <1>3
<1>4. CASE d \in [op : {"class"}, k : {ClassOf[m] : m \in SootMethod}]
  BY <1>4
<1>5. CASE d \in [op : {"closure"}, q : Query, s : State]
  BY <1>5
<1> QED BY <1>1, <1>2, <1>3, <1>4, <1>5 DEF SeedsCall

LEMMA SeedsInnermost ==
    ASSUME SeedsInv, NEW c \in Innermost
    PROVE  agenda \in Seq(SUBSET SeedsCall) /\ c \in SeedsCall /\ Pending(c) /\ FoundedCall(c)
<1>1. agenda \in Seq(SUBSET SeedsCall)
  BY DEF SeedsInv, SeedsTypeOK
<1>2. agenda # <<>> /\ c \in Head(agenda)
  BY DEF Innermost
<1>3. 1 \in DOMAIN agenda /\ Head(agenda) = agenda[1] /\ agenda[1] \subseteq SeedsCall
  BY <1>1, <1>2
<1>4. Pending(c)
  BY <1>2, <1>3 DEF Pending
<1> QED BY <1>1, <1>2, <1>3, <1>4 DEF SeedsInv

\* No call of the program.
nothing == [op |-> "nothing"]

LEMMA NothingCalled == nothing \notin SeedsCall /\ nothing.op = "nothing"
<1>1. nothing.op = "nothing"
  BY DEF nothing
<1> QED BY <1>1, SeedsCallFields

(***************************************************************************)
(* What a step keeps.                                                      *)
(***************************************************************************)
SeedsGrow ==
    /\ automaton \subseteq automaton' /\ rules \subseteq rules'
    /\ processed \subseteq processed' /\ seedToTransition \subseteq seedToTransition'
    /\ closures \subseteq closures' /\ answered \subseteq answered'
    /\ stage' = stage \/ (stage = "entries" /\ stage' = "computed")

\* A step that makes the call c, and by it the calls in `made'.
SeedsKeep(c, made) ==
    /\ Moves(c, made) /\ SeedsTypeOK' /\ SeedsGrow
    /\ \A t \in automaton' : t \in automaton \/ Founded(t)
    /\ \A p \in rules' : p \in rules \/ (p \in Allowed /\ p[1] \in Within)
    /\ \A m \in processed' : m \in processed \/ (m \in Within /\ OnTop(m))
    /\ \A x \in seedToTransition' : \/ x \in seedToTransition
                                    \/ /\ x[2] \in automaton' /\ x[2].m \in processed'
                                       /\ x[1] \in Seeds[x[2].m]
    /\ \A x \in closures' : x[1] \in answered'
    /\ \A d \in made : FoundedCall(d)'

LEMMA FoundedKept ==
    ASSUME SeedsGrow
    PROVE  /\ Within \subseteq Within' /\ Allowed \subseteq Allowed'
           /\ \A t : Founded(t) => Founded(t)'
           /\ \A d : FoundedCall(d) => FoundedCall(d)'
<1>1. Within \subseteq Within' /\ Allowed \subseteq Allowed'
  BY MoreReached, InitializersTyped DEF SeedsGrow, Within, Allowed
<1>2. ASSUME NEW t, Founded(t) PROVE Founded(t)'
  <2>1. FromCaller(t)'
    BY <1>2 DEF Founded, FromCaller, SeedsGrow
  <2> QED BY <1>1, <1>2, <2>1 DEF Founded
<1>3. ASSUME NEW d, FoundedCall(d) PROVE FoundedCall(d)'
  <2>1. d.op = "add" => Founded(d.t)'
    BY <1>2, <1>3 DEF FoundedCall
  <2>2. d.op = "class" => stage' = "computed"
    BY <1>3 DEF FoundedCall, SeedsGrow
  <2> QED BY <1>1, <1>3, <2>1, <2>2 DEF FoundedCall, SeedsGrow
<1> QED BY <1>1, <1>2, <1>3

LEMMA SeedsKept ==
    ASSUME SeedsInv, NEW c, NEW made, SeedsKeep(c, made)
    PROVE  SeedsInv'
<1>1. SeedsTypeOK' /\ SeedsGrow /\ Moves(c, made)
  BY DEF SeedsKeep
<1>2. /\ Within \subseteq Within' /\ Allowed \subseteq Allowed'
      /\ \A t : Founded(t) => Founded(t)'
      /\ \A d : FoundedCall(d) => FoundedCall(d)'
  BY <1>1, FoundedKept
<1>3. \A t \in automaton' : Founded(t)'
  BY <1>2 DEF SeedsKeep, SeedsInv
<1>4. \A p \in rules' : p \in Allowed' /\ p[1] \in Within'
  BY <1>2 DEF SeedsKeep, SeedsInv
<1>5. \A m \in processed' : m \in Within' /\ OnTop(m)'
  <2>1. \A m : OnTop(m) => OnTop(m)'
    BY <1>1 DEF OnTop, SeedsGrow
  <2> QED BY <1>2, <2>1 DEF SeedsKeep, SeedsInv
<1>6. \A x \in seedToTransition' :
         x[2] \in automaton' /\ x[2].m \in processed' /\ x[1] \in Seeds[x[2].m]
  BY <1>1 DEF SeedsKeep, SeedsInv, SeedsGrow
<1>7. \A x \in closures' : x[1] \in answered'
  BY DEF SeedsKeep
<1>8. \A d : Pending(d)' => FoundedCall(d)'
  BY <1>1, <1>2, PendingMoves DEF SeedsKeep, SeedsInv
<1> QED BY <1>1, <1>3, <1>4, <1>5, <1>6, <1>7, <1>8 DEF SeedsInv

(***************************************************************************)
(* What is owed is done or pending.                                        *)
(***************************************************************************)
Added(t) == t \in automaton \/ Pending(Adding(t))
Ruled(p) == p \in rules \/ Pending(AddPushRule(p))

\* The rule p was applied to the transition t.
Applied(p, t) ==
    Added(Trans(Below(p[2]), p[1], t.to)) /\ Added(Trans(Top, p[2], Below(p[2])))

EntriesOwed == \A m \in EntryPoints : Trans(Top, m, Initial) \in automaton

ProcessOwed == \A t \in automaton : t.m \in processed \/ Pending(Process(t))

CallsOwed == \A m \in processed : \A n \in Callees[m] : Ruled(<<m, n>>)

SeedsOwed ==
    \A m \in processed : \A q \in Seeds[m] :
      \E t \in automaton : t.m = m /\ <<q, t>> \in seedToTransition

PushesOwed ==
    \A p \in rules : \A t \in automaton :
      t.from = Top /\ t.m = p[1] =>
        Applied(p, t) \/ Pending(Push(p, t)) \/ Pending(OutOf(t))

InitializersOwed ==
    stage = "computed" /\ analyseClassInitializers =>
      \A m \in CalledFromEntries :
        \/ Pending(ClassCall(ClassOf[m]))
        \/ \A ep \in EntryPoints, i \in Initializers[ClassOf[m]] : Ruled(<<ep, i>>)

Owed ==
    /\ EntriesOwed /\ ProcessOwed /\ CallsOwed /\ SeedsOwed /\ PushesOwed /\ InitializersOwed

\* The step makes the call c, and by it the calls in `made', and owes no more.
SeedsHeed(c, made) ==
    /\ Moves(c, made) /\ SeedsGrow
    /\ \A t \in automaton' : t \in automaton \/ (Process(t) \in made /\ OutOf(t) \in made)
    /\ \A p \in rules' : p \in rules \/ \A t \in automaton' :
         t.from = Top /\ t.m = p[1] => Push(p, t) \in made
    /\ \A m \in processed' : m \in processed \/
         /\ \A n \in Callees[m] : AddPushRule(<<m, n>>) \in made
         /\ \A q \in Seeds[m] :
              \E t \in automaton' : t.m = m /\ <<q, t>> \in seedToTransition'
    /\ stage' = stage \/ \A m \in CalledFromEntries :
         analyseClassInitializers => ClassCall(ClassOf[m]) \in made
    /\ c.op = "process" => c.t.m \in processed'
    /\ c.op = "rule" => c.p \in rules'
    /\ c.op = "push" => /\ Adding(Trans(Below(c.p[2]), c.p[1], c.t.to)) \in made
                        /\ Adding(Trans(Top, c.p[2], Below(c.p[2]))) \in made
    /\ c.op = "add" => c.t \in automaton'
    /\ c.op = "out" => \A p \in rules' :
         c.t.from = Top /\ c.t.m = p[1] => Push(p, c.t) \in made
    /\ c.op = "class" => \A m \in CalledFromEntries : c.k = ClassOf[m] =>
         \A ep \in EntryPoints, i \in Initializers[ClassOf[m]] :
           AddPushRule(<<ep, i>>) \in made

LEMMA OwedAfter ==
    ASSUME Owed, NEW c, NEW made, SeedsHeed(c, made)
    PROVE  Owed'
<1>1. /\ \A d : Pending(d) /\ d # c => Pending(d)'
      /\ \A d \in made : Pending(d)'
  BY PendingMoves DEF SeedsHeed
<1>2. SeedsGrow
  BY DEF SeedsHeed
<1>3. \A t : Added(t) => Added(t)'
  <2> SUFFICES ASSUME NEW t, Added(t) PROVE Added(t)'
    OBVIOUS
  <2>1. CASE Adding(t) = c
    <3>1. c.op = "add" /\ c.t = t
      BY <2>1, SeedsCallOps
    <3> QED BY <3>1 DEF SeedsHeed, Added
  <2>2. CASE Adding(t) # c
    BY <1>1, <1>2, <2>2 DEF Added, SeedsGrow
  <2> QED BY <2>1, <2>2
<1>4. \A p : Ruled(p) => Ruled(p)'
  <2> SUFFICES ASSUME NEW p, Ruled(p) PROVE Ruled(p)'
    OBVIOUS
  <2>1. CASE AddPushRule(p) = c
    <3>1. c.op = "rule" /\ c.p = p
      BY <2>1, SeedsCallOps
    <3> QED BY <3>1 DEF SeedsHeed, Ruled
  <2>2. CASE AddPushRule(p) # c
    BY <1>1, <1>2, <2>2 DEF Ruled, SeedsGrow
  <2> QED BY <2>1, <2>2
<1>5. EntriesOwed'
  BY <1>2 DEF Owed, EntriesOwed, SeedsGrow
<1>6. ProcessOwed'
  <2> SUFFICES ASSUME NEW t \in automaton'
               PROVE  t.m \in processed' \/ Pending(Process(t))'
    BY DEF ProcessOwed
  <2>1. CASE t \notin automaton
    BY <1>1, <2>1 DEF SeedsHeed
  <2>2. CASE t \in automaton /\ Process(t) = c
    <3>1. c.op = "process" /\ c.t = t
      BY <2>2, SeedsCallOps
    <3> QED BY <3>1 DEF SeedsHeed
  <2>3. CASE t \in automaton /\ Process(t) # c
    BY <1>1, <1>2, <2>3 DEF Owed, ProcessOwed, SeedsGrow
  <2> QED BY <2>1, <2>2, <2>3
<1>7. CallsOwed'
  <2> SUFFICES ASSUME NEW m \in processed', NEW n \in Callees[m]
               PROVE  Ruled(<<m, n>>)'
    BY DEF CallsOwed
  <2>1. CASE m \in processed
    BY <1>4, <2>1 DEF Owed, CallsOwed
  <2>2. CASE m \notin processed
    BY <1>1, <2>2 DEF SeedsHeed, Ruled
  <2> QED BY <2>1, <2>2
<1>8. SeedsOwed'
  BY <1>2 DEF Owed, SeedsOwed, SeedsGrow, SeedsHeed
<1>9. PushesOwed'
  <2> SUFFICES ASSUME NEW p \in rules', NEW t \in automaton', t.from = Top, t.m = p[1]
               PROVE  Applied(p, t)' \/ Pending(Push(p, t))' \/ Pending(OutOf(t))'
    BY DEF PushesOwed
  <2>1. CASE p \notin rules
    BY <1>1, <2>1 DEF SeedsHeed
  <2>2. CASE t \notin automaton
    BY <1>1, <2>2 DEF SeedsHeed
  <2>3. CASE p \in rules /\ t \in automaton
    <3>1. Applied(p, t) \/ Pending(Push(p, t)) \/ Pending(OutOf(t))
      BY <2>3 DEF Owed, PushesOwed
    <3>2. CASE Applied(p, t)
      BY <1>3, <3>2 DEF Applied
    <3>3. CASE Push(p, t) = c
      <4>1. c.op = "push" /\ c.p = p /\ c.t = t
        BY <3>3, SeedsCallOps
      <4>2. Adding(Trans(Below(p[2]), p[1], t.to)) \in made
            /\ Adding(Trans(Top, p[2], Below(p[2]))) \in made
        BY <4>1 DEF SeedsHeed
      <4>3. Applied(p, t)'
        BY <1>1, <4>2 DEF Applied, Added
      <4> QED BY <4>3
    <3>4. CASE OutOf(t) = c
      <4>1. c.op = "out" /\ c.t = t
        BY <3>4, SeedsCallOps
      <4> QED BY <1>1, <4>1 DEF SeedsHeed
    <3>5. CASE Push(p, t) # c /\ OutOf(t) # c /\ ~Applied(p, t)
      BY <1>1, <3>1, <3>5
    <3> QED BY <3>2, <3>3, <3>4, <3>5
  <2> QED BY <2>1, <2>2, <2>3
<1>10. InitializersOwed'
  <2> SUFFICES ASSUME stage' = "computed", analyseClassInitializers, NEW m \in CalledFromEntries
               PROVE  \/ Pending(ClassCall(ClassOf[m]))'
                      \/ \A ep \in EntryPoints, i \in Initializers[ClassOf[m]] :
                           Ruled(<<ep, i>>)'
    BY DEF InitializersOwed
  <2>1. CASE stage' # stage
    BY <1>1, <2>1 DEF SeedsHeed
  <2>2. CASE stage' = stage
    <3>1. \/ Pending(ClassCall(ClassOf[m]))
          \/ \A ep \in EntryPoints, i \in Initializers[ClassOf[m]] : Ruled(<<ep, i>>)
      BY <2>2 DEF Owed, InitializersOwed
    <3>2. CASE ClassCall(ClassOf[m]) = c
      <4>1. c.op = "class" /\ c.k = ClassOf[m]
        BY <3>2, SeedsCallOps
      <4>2. \A ep \in EntryPoints, i \in Initializers[ClassOf[m]] :
               AddPushRule(<<ep, i>>) \in made
        BY <4>1 DEF SeedsHeed
      <4> QED BY <1>1, <4>2 DEF Ruled
    <3>3. CASE ClassCall(ClassOf[m]) # c
      BY <1>1, <1>4, <3>1, <3>3
    <3> QED BY <3>2, <3>3
  <2> QED BY <2>1, <2>2
<1> QED BY <1>5, <1>6, <1>7, <1>8, <1>9, <1>10 DEF Owed

(***************************************************************************)
(* The steps of computeSeeds.                                              *)
(***************************************************************************)
LEMMA SeedsReturns ==
    ASSUME SeedsInv, NEW c \in Innermost, NEW A \in SUBSET SeedsCall, NEW B \in SUBSET SeedsCall
    PROVE  /\ Return(c, <<>>) => agenda' \in Seq(SUBSET SeedsCall) /\ Moves(c, {})
           /\ Return(c, <<A>>) => agenda' \in Seq(SUBSET SeedsCall) /\ Moves(c, A)
           /\ Return(c, <<A, B>>) => agenda' \in Seq(SUBSET SeedsCall) /\ Moves(c, A \cup B)
<1>1. agenda \in Seq(SUBSET SeedsCall)
  BY DEF SeedsInv, SeedsTypeOK
<1>2. /\ <<>> \in Seq(SUBSET SeedsCall) /\ <<A>> \in Seq(SUBSET SeedsCall)
      /\ <<A, B>> \in Seq(SUBSET SeedsCall)
  BY LoopTypes
<1>3. \A body \in Seq(SUBSET SeedsCall) :
        Return(c, body) => agenda' \in Seq(SUBSET SeedsCall)
  BY <1>1, ReturnStack
<1> QED BY <1>1, <1>2, <1>3, ReturnMoves

SeedsEffect(c) == \E made : SeedsKeep(c, made) /\ SeedsHeed(c, made)

LEMMA ProcessEffect ==
    ASSUME SeedsInv, NEW c \in Innermost, ProcessTransition(c)
    PROVE  SeedsEffect(c)
<1> DEFINE made == IF c.t.m \in processed THEN {}
                   ELSE {AddPushRule(<<c.t.m, n>>) : n \in Callees[c.t.m]}
<1>1. /\ c \in SeedsCall /\ FoundedCall(c) /\ c.op = "process"
      /\ c.t \in SeedsTransition /\ c.t \in automaton /\ c.t.m \in SootMethod
  BY SeedsInnermost, SeedsCallFields, TransFields DEF ProcessTransition, FoundedCall
<1>2. c.t.m \in Within /\ OnTop(c.t.m)
  <2>1. Founded(c.t)
    BY <1>1 DEF SeedsInv
  <2> QED BY <1>1, <2>1, TransFields DEF Founded, FromCaller, OnTop
<1>3. /\ processed' = processed \cup {c.t.m}
      /\ c.t.m \in processed => seedToTransition' = seedToTransition /\ Return(c, <<>>)
      /\ c.t.m \notin processed =>
           /\ seedToTransition' = seedToTransition \cup {<<q, c.t>> : q \in Seeds[c.t.m]}
           /\ Return(c, <<made>>)
      /\ UNCHANGED <<automaton, rules, closures, answered, scope, stage>>
  BY DEF ProcessTransition
<1>4. \A n \in Callees[c.t.m] : <<c.t.m, n>> \in MethodPair /\ <<c.t.m, n>> \in Allowed
  BY <1>1, SeedsAssumption, InCalls, InitializersTyped DEF MethodPair, Allowed
<1>5. made \in SUBSET SeedsCall
  BY <1>4, SeedsCallTypes
<1>6. /\ c.t.m \in processed => made = {}
      /\ c.t.m \notin processed => \A n \in Callees[c.t.m] : AddPushRule(<<c.t.m, n>>) \in made
      /\ \A d \in made : \E n \in Callees[c.t.m] : d = AddPushRule(<<c.t.m, n>>)
  OBVIOUS
<1> HIDE DEF made
<1>7. agenda' \in Seq(SUBSET SeedsCall) /\ Moves(c, made)
  BY <1>3, <1>5, <1>6, SeedsReturns
<1>8. /\ SeedsGrow /\ SeedsTypeOK'
      /\ \A x \in seedToTransition' : \/ x \in seedToTransition
                                      \/ /\ x[2] = c.t /\ x[1] \in Seeds[c.t.m]
  <2>1. \A q \in Seeds[c.t.m] : <<q, c.t>> \in Query \X SeedsTransition
    BY <1>1 DEF Query
  <2>2. seedToTransition' \subseteq Query \X SeedsTransition
    BY <1>3, <2>1 DEF SeedsInv, SeedsTypeOK
  <2>3. SeedsTypeOK'
    BY <1>1, <1>3, <1>7, <2>2 DEF SeedsInv, SeedsTypeOK
  <2> QED BY <1>3, <2>3 DEF SeedsGrow
<1>9. \A d \in made : FoundedCall(d)'
  <2>1. Within' = Within /\ Allowed' = Allowed
    BY <1>3 DEF Within, Allowed
  <2>2. ASSUME NEW d \in made PROVE FoundedCall(d)'
    <3>1. PICK n \in Callees[c.t.m] : d = AddPushRule(<<c.t.m, n>>)
      BY <1>6
    <3> DEFINE p == <<c.t.m, n>>
    <3>2. p \in Allowed' /\ p[1] \in Within'
      BY <1>2, <1>4, <2>1
    <3> HIDE DEF p
    <3>3. d.op = "rule" /\ d.p = p
      BY <3>1, SeedsCallOps DEF p
    <3> QED BY <3>2, <3>3 DEF FoundedCall
  <2> QED BY <2>2
<1>10. SeedsKeep(c, made)
  BY <1>1, <1>2, <1>3, <1>7, <1>8, <1>9 DEF SeedsKeep, SeedsInv
<1>11. c.t.m \notin processed =>
         \A q \in Seeds[c.t.m] : c.t \in automaton' /\ <<q, c.t>> \in seedToTransition'
  BY <1>1, <1>3
<1>12. SeedsHeed(c, made)
  BY <1>1, <1>3, <1>6, <1>7, <1>8, <1>11 DEF SeedsHeed
<1> QED BY <1>10, <1>12 DEF SeedsEffect

LEMMA RuleEffect ==
    ASSUME SeedsInv, NEW c \in Innermost, AddRule(c)
    PROVE  SeedsEffect(c)
<1> DEFINE made == IF c.p \in rules THEN {}
                   ELSE {Push(c.p, t) : t \in {u \in automaton : u.from = Top /\ u.m = c.p[1]}}
<1>1. /\ c \in SeedsCall /\ FoundedCall(c) /\ c.op = "rule"
      /\ c.p \in MethodPair /\ c.p \in Allowed /\ c.p[1] \in Within
  BY SeedsInnermost, SeedsCallFields DEF AddRule, FoundedCall
<1>2. /\ rules' = rules \cup {c.p}
      /\ Return(c, IF c.p \in rules THEN <<>> ELSE <<made>>)
      /\ UNCHANGED <<automaton, processed, seedToTransition, closures, answered, scope, stage>>
  BY DEF AddRule
<1>3. automaton \subseteq SeedsTransition
  BY DEF SeedsInv, SeedsTypeOK
<1>4. made \in SUBSET SeedsCall
  BY <1>1, <1>3, SeedsCallTypes
<1>5. /\ c.p \in rules => made = {}
      /\ c.p \notin rules =>
           \A t \in automaton : t.from = Top /\ t.m = c.p[1] => Push(c.p, t) \in made
      /\ \A d \in made : \E t \in automaton :
           t.from = Top /\ t.m = c.p[1] /\ d = Push(c.p, t)
  OBVIOUS
<1> HIDE DEF made
<1>6. agenda' \in Seq(SUBSET SeedsCall) /\ Moves(c, made)
  BY <1>2, <1>4, <1>5, SeedsReturns
<1>7. SeedsGrow /\ SeedsTypeOK'
  BY <1>1, <1>2, <1>6 DEF SeedsInv, SeedsTypeOK, SeedsGrow
<1>8. \A d \in made : FoundedCall(d)'
  BY <1>2, <1>5, SeedsCallOps DEF FoundedCall
<1>9. SeedsKeep(c, made)
  BY <1>1, <1>2, <1>6, <1>7, <1>8 DEF SeedsKeep, SeedsInv
<1>10. SeedsHeed(c, made)
  BY <1>1, <1>2, <1>5, <1>6, <1>7 DEF SeedsHeed
<1> QED BY <1>9, <1>10 DEF SeedsEffect

LEMMA PushEffect ==
    ASSUME SeedsInv, NEW c \in Innermost, PushTo(c)
    PROVE  SeedsEffect(c)
<1> DEFINE t1 == Trans(Below(c.p[2]), c.p[1], c.t.to)
           t2 == Trans(Top, c.p[2], Below(c.p[2]))
           made == {Adding(t1)} \cup {Adding(t2)}
<1>1. /\ c \in SeedsCall /\ FoundedCall(c) /\ c.op = "push"
      /\ c.p \in MethodPair /\ c.t \in SeedsTransition
  BY SeedsInnermost, SeedsCallFields DEF PushTo
<1>2. /\ c.p \in rules /\ c.t \in automaton /\ c.t.from = Top /\ c.t.m = c.p[1]
      /\ c.p[1] \in SootMethod /\ c.p[2] \in SootMethod /\ c.p = <<c.p[1], c.p[2]>>
      /\ c.t = Trans(Top, c.p[1], c.t.to) /\ c.t.to \in State
  BY <1>1, TransFields DEF FoundedCall, MethodPair
<1>3. Return(c, <<{Adding(t1)}, {Adding(t2)}>>) /\ UNCHANGED seedsData
  BY DEF PushTo, Adding
<1>4. Adding(t1) \in SeedsCall /\ Adding(t2) \in SeedsCall
  BY <1>2, SeedsStates, TransFields, SeedsCallTypes
<1>5. /\ t1.from = Below(c.p[2]) /\ t1.m = c.p[1] /\ t1.to = c.t.to
      /\ t2.from = Top /\ t2.m = c.p[2] /\ t2.to = Below(c.p[2])
  BY TransFields
<1>6. c.p[1] \in Within /\ c.p[2] \in Within
  <2>1. c.p \in Allowed /\ c.p[1] \in Within
    BY <1>2 DEF SeedsInv
  <2>2. ClosedUnder(Allowed, Within)
    BY EntriesReached, MethodsReached DEF Allowed, Within
  <2> QED BY <2>1, <2>2 DEF ClosedUnder
<1>7. Founded(t1) /\ Founded(t2)
  <2>1. Enters(c.t)
    BY <1>2 DEF SeedsInv, Founded
  <2>2. Enters(t1) /\ Enters(t2)
    BY <1>2, <1>5, <2>1 DEF Enters
  <2>3. FromCaller(t1)
    BY <1>2, <1>5 DEF FromCaller
  <2>4. FromCaller(t2)
    BY <1>5 DEF FromCaller
  <2> QED BY <1>5, <1>6, <2>2, <2>3, <2>4 DEF Founded
<1>8. \A d \in made : d = Adding(t1) \/ d = Adding(t2)
  OBVIOUS
<1>9. Adding(t1) \in made /\ Adding(t2) \in made
  OBVIOUS
<1>10. agenda' \in Seq(SUBSET SeedsCall) /\ Moves(c, made)
  <2> HIDE DEF t1, t2
  <2> QED BY <1>3, <1>4, SeedsReturns
<1> HIDE DEF made
<1>11. UNCHANGED <<automaton, rules, processed, seedToTransition, closures, answered, scope, stage>>
  BY <1>3 DEF seedsData
<1>12. SeedsGrow /\ SeedsTypeOK'
  BY <1>10, <1>11 DEF SeedsInv, SeedsTypeOK, SeedsGrow
<1>13. \A d \in made : FoundedCall(d)'
  <2>1. Founded(t1)' /\ Founded(t2)'
    <3> HIDE DEF t1, t2
    <3>1. \A t : Founded(t) => Founded(t)'
      BY <1>12, FoundedKept
    <3>2. PICK a, b : a = t1 /\ b = t2 /\ Founded(a)' /\ Founded(b)'
      BY <1>7, <3>1
    <3>3. t1' = t1 /\ t2' = t2
      BY <1>1, <1>3 DEF t1, t2
    <3> QED BY <3>2, <3>3
  <2>2. ASSUME NEW d \in made PROVE FoundedCall(d)'
    <3>1. d.op = "add" /\ (d.t = t1 \/ d.t = t2)
      BY <1>8, SeedsCallOps
    <3> QED BY <2>1, <3>1 DEF FoundedCall
  <2> QED BY <2>2
<1>14. SeedsKeep(c, made)
  BY <1>10, <1>11, <1>12, <1>13 DEF SeedsKeep, SeedsInv
<1>15. SeedsHeed(c, made)
  BY <1>1, <1>9, <1>10, <1>11, <1>12 DEF SeedsHeed
<1> QED BY <1>14, <1>15 DEF SeedsEffect

LEMMA AddEffect ==
    ASSUME SeedsInv, NEW c \in Innermost, AddTransition(c)
    PROVE  SeedsEffect(c)
<1> DEFINE A == IF c.t \in automaton THEN {} ELSE {Process(c.t)}
           B == IF c.t \in automaton THEN {} ELSE {OutOf(c.t)}
           made == A \cup B
<1>1. /\ c \in SeedsCall /\ c.op = "add" /\ c.t \in SeedsTransition /\ Founded(c.t)
  BY SeedsInnermost, SeedsCallFields DEF AddTransition, FoundedCall
<1>2. /\ automaton' = automaton \cup {c.t}
      /\ c.t \in automaton => Return(c, <<>>)
      /\ c.t \notin automaton => Return(c, <<A, B>>)
      /\ UNCHANGED <<rules, processed, seedToTransition, closures, answered, scope, stage>>
  BY DEF AddTransition, OutOf
<1>3. A \in SUBSET SeedsCall /\ B \in SUBSET SeedsCall
  BY <1>1, SeedsCallTypes
<1>4. /\ c.t \in automaton => made = {}
      /\ c.t \notin automaton => Process(c.t) \in made /\ OutOf(c.t) \in made
      /\ \A d \in made : d = Process(c.t) \/ d = OutOf(c.t)
  OBVIOUS
<1>5. made = A \cup B
  OBVIOUS
<1> HIDE DEF made, A, B
<1>6. agenda' \in Seq(SUBSET SeedsCall) /\ Moves(c, made)
  BY <1>2, <1>3, <1>4, <1>5, SeedsReturns
<1>7. SeedsGrow /\ SeedsTypeOK'
  BY <1>1, <1>2, <1>6 DEF SeedsInv, SeedsTypeOK, SeedsGrow
<1>8. \A d \in made : FoundedCall(d)'
  BY <1>2, <1>4, SeedsCallOps DEF FoundedCall
<1>9. SeedsKeep(c, made)
  BY <1>1, <1>2, <1>6, <1>7, <1>8 DEF SeedsKeep, SeedsInv
<1>10. SeedsHeed(c, made)
  BY <1>1, <1>2, <1>4, <1>6, <1>7 DEF SeedsHeed
<1> QED BY <1>9, <1>10 DEF SeedsEffect

LEMMA OutEffect ==
    ASSUME SeedsInv, NEW c \in Innermost, OutAdded(c)
    PROVE  SeedsEffect(c)
<1> DEFINE made == IF c.t.from = Top THEN {Push(p, c.t) : p \in {r \in rules : r[1] = c.t.m}}
                   ELSE {}
<1>1. /\ c \in SeedsCall /\ c.op = "out" /\ c.t \in SeedsTransition /\ c.t \in automaton
  BY SeedsInnermost, SeedsCallFields DEF OutAdded, FoundedCall
<1>2. Return(c, <<made>>) /\ UNCHANGED seedsData
  BY DEF OutAdded
<1>3. rules \subseteq MethodPair
  BY DEF SeedsInv, SeedsTypeOK
<1>4. made \in SUBSET SeedsCall
  BY <1>1, <1>3, SeedsCallTypes
<1>5. /\ \A p \in rules : c.t.from = Top /\ c.t.m = p[1] => Push(p, c.t) \in made
      /\ \A d \in made : \E p \in rules :
           c.t.from = Top /\ c.t.m = p[1] /\ d = Push(p, c.t)
  OBVIOUS
<1> HIDE DEF made
<1>6. agenda' \in Seq(SUBSET SeedsCall) /\ Moves(c, made)
  BY <1>2, <1>4, SeedsReturns
<1>7. UNCHANGED <<automaton, rules, processed, seedToTransition, closures, answered, scope, stage>>
  BY <1>2 DEF seedsData
<1>8. SeedsGrow /\ SeedsTypeOK'
  BY <1>6, <1>7 DEF SeedsInv, SeedsTypeOK, SeedsGrow
<1>9. \A d \in made : FoundedCall(d)'
  BY <1>1, <1>5, <1>7, SeedsCallOps DEF FoundedCall
<1>10. SeedsKeep(c, made)
  BY <1>6, <1>7, <1>8, <1>9 DEF SeedsKeep, SeedsInv
<1>11. SeedsHeed(c, made)
  BY <1>1, <1>5, <1>6, <1>7, <1>8 DEF SeedsHeed
<1> QED BY <1>10, <1>11 DEF SeedsEffect

LEMMA ClassEffect ==
    ASSUME SeedsInv, NEW c \in Innermost, AddStaticInitializerFor(c)
    PROVE  SeedsEffect(c)
<1> DEFINE made == {AddPushRule(<<ep, i>>) : ep \in EntryPoints, i \in Initializers[c.k]}
<1>1. c.op = "class" /\ FoundedCall(c)
  BY SeedsInnermost DEF AddStaticInitializerFor
<1>2. /\ stage = "computed" /\ analyseClassInitializers
      /\ \E m \in CalledFromEntries : c.k = ClassOf[m]
  BY <1>1 DEF FoundedCall
<1>3. PICK m \in CalledFromEntries : c.k = ClassOf[m]
  BY <1>2
<1>4. Return(c, <<made>>) /\ UNCHANGED seedsData
  BY DEF AddStaticInitializerFor
<1>5. /\ Initializers[c.k] \subseteq Initialized
      /\ Initialized \subseteq SootMethod /\ EntryPoints \subseteq SootMethod
  <2>1. Initializers[c.k] \subseteq Initialized
    BY <1>2, <1>3 DEF Initialized
  <2> QED BY <2>1, InitializersTyped, SeedsAssumption
<1>6. ASSUME NEW ep \in EntryPoints, NEW i \in Initializers[c.k]
      PROVE  /\ <<ep, i>> \in MethodPair /\ <<ep, i>> \in Allowed
             /\ <<ep, i>>[1] = ep /\ ep \in Within
  <2>1. <<ep, i>> \in CallsAndInitializers /\ ep \in Reached
    BY <1>5, InitializersTyped, MethodsReached
  <2>2. <<ep, i>> \in MethodPair
    BY <1>5 DEF MethodPair
  <2>3. Allowed = CallsAndInitializers /\ Within = Reached
    BY <1>2 DEF Allowed, Within
  <2> QED BY <2>1, <2>2, <2>3
<1>8. /\ \A ep \in EntryPoints, i \in Initializers[c.k] : AddPushRule(<<ep, i>>) \in made
      /\ \A d \in made : \E ep \in EntryPoints, i \in Initializers[c.k] :
           d = AddPushRule(<<ep, i>>)
  OBVIOUS
<1> HIDE DEF made
<1>7. ASSUME NEW d \in made PROVE d \in SeedsCall
  BY <1>6, <1>8, SeedsCallTypes
<1>9. agenda' \in Seq(SUBSET SeedsCall) /\ Moves(c, made)
  BY <1>4, <1>7, SeedsReturns
<1>10. UNCHANGED <<automaton, rules, processed, seedToTransition, closures, answered, scope, stage>>
  BY <1>4 DEF seedsData
<1>11. SeedsGrow /\ SeedsTypeOK'
  BY <1>9, <1>10 DEF SeedsInv, SeedsTypeOK, SeedsGrow
<1>12. ASSUME NEW d \in made PROVE FoundedCall(d)'
  <2>1. PICK ep \in EntryPoints, i \in Initializers[c.k] : d = AddPushRule(<<ep, i>>)
    BY <1>8
  <2> DEFINE p == <<ep, i>>
  <2>2. p \in Allowed' /\ p[1] \in Within'
    BY <1>6, <1>10 DEF Allowed, Within
  <2> HIDE DEF p
  <2>3. d.op = "rule" /\ d.p = p
    BY <2>1, SeedsCallOps DEF p
  <2> QED BY <2>2, <2>3 DEF FoundedCall
<1>13. SeedsKeep(c, made)
  BY <1>9, <1>10, <1>11, <1>12 DEF SeedsKeep, SeedsInv
<1>14. SeedsHeed(c, made)
  BY <1>1, <1>8, <1>9, <1>10, <1>11 DEF SeedsHeed
<1> QED BY <1>13, <1>14 DEF SeedsEffect

LEMMA SeedsQuiet ==
    ASSUME SeedsInv, SeedsEndLoop \/ UNCHANGED seedsVars
    PROVE  /\ SeedsEffect(nothing) /\ Moves(nothing, {})
           /\ UNCHANGED <<automaton, rules, processed, seedToTransition, closures,
                          answered, scope, stage>>
<1>1. agenda \in Seq(SUBSET SeedsCall)
  BY DEF SeedsInv, SeedsTypeOK
<1>2. Moves(nothing, {}) /\ agenda' \in Seq(SUBSET SeedsCall) /\ UNCHANGED seedsData
  <2>1. CASE SeedsEndLoop
    BY <1>1, <2>1, EndMoves, EndedStack DEF SeedsEndLoop
  <2>2. CASE UNCHANGED seedsVars
    BY <1>1, <2>2 DEF seedsVars, Moves, Waiting
  <2> QED BY <2>1, <2>2
<1>3. UNCHANGED <<automaton, rules, processed, seedToTransition, closures, answered, scope, stage>>
  BY <1>2 DEF seedsData
<1>4. SeedsGrow /\ SeedsTypeOK'
  BY <1>2, <1>3 DEF SeedsInv, SeedsTypeOK, SeedsGrow
<1>5. SeedsKeep(nothing, {})
  BY <1>2, <1>3, <1>4 DEF SeedsKeep, SeedsInv
<1>6. SeedsHeed(nothing, {})
  BY <1>2, <1>3, <1>4, NothingCalled DEF SeedsHeed
<1> QED BY <1>2, <1>3, <1>5, <1>6 DEF SeedsEffect

\* At rest nothing is pending.
LEMMA SeedsIdle == Idle => \A d : ~Pending(d)
BY DEF Idle, Pending

\* A step from rest makes the calls of one loop.
LEMMA SeedsCalled ==
    ASSUME Idle, NEW A \in SUBSET SeedsCall
    PROVE  /\ agenda' = <<A>> => agenda' \in Seq(SUBSET SeedsCall) /\ Moves(nothing, A)
           /\ agenda' = <<>> => agenda' \in Seq(SUBSET SeedsCall) /\ Moves(nothing, {})
<1>1. <<A>> \in Seq(SUBSET SeedsCall) /\ <<>> \in Seq(SUBSET SeedsCall)
  BY LoopTypes
<1>2. Waiting = {}
  BY DEF Idle, Waiting
<1>3. agenda' = <<A>> => Waiting' = A
  BY BodyDomains DEF Waiting
<1>4. agenda' = <<>> => Waiting' = {}
  BY DEF Waiting
<1> QED BY <1>1, <1>2, <1>3, <1>4 DEF Moves

(***************************************************************************)
(* What is computed, when nothing is pending.                              *)
(***************************************************************************)
LEMMA ProcessedAtRest ==
    ASSUME SeedsInv, Owed, Idle
    PROVE  /\ EntryPoints \subseteq processed
           /\ ClosedUnder(rules, processed)
           /\ \A m \in processed : \A n \in Callees[m] : <<m, n>> \in rules
           /\ \A p \in rules : \A t \in automaton :
                t.from = Top /\ t.m = p[1] =>
                  /\ Trans(Below(p[2]), p[1], t.to) \in automaton
                  /\ Trans(Top, p[2], Below(p[2])) \in automaton
<1>1. \A d : ~Pending(d)
  BY SeedsIdle
<1>2. \A t \in automaton : t.m \in processed
  BY <1>1 DEF Owed, ProcessOwed
<1>3. EntryPoints \subseteq processed
  BY <1>2, TransFields DEF Owed, EntriesOwed
<1>4. \A m \in processed : \A n \in Callees[m] : <<m, n>> \in rules
  BY <1>1 DEF Owed, CallsOwed, Ruled
<1>5. ASSUME NEW p \in rules, NEW t \in automaton, t.from = Top, t.m = p[1]
      PROVE  /\ Trans(Below(p[2]), p[1], t.to) \in automaton
             /\ Trans(Top, p[2], Below(p[2])) \in automaton
  BY <1>1, <1>5 DEF Owed, PushesOwed, Applied, Added
<1>6. ASSUME NEW p \in rules, p[1] \in processed
      PROVE  p[2] \in processed
  <2>1. PICK t \in automaton : t.from = Top /\ t.m = p[1]
    BY <1>6 DEF SeedsInv, OnTop
  <2>2. Trans(Top, p[2], Below(p[2])) \in automaton
    BY <1>5, <2>1
  <2> QED BY <1>2, <2>2, TransFields
<1> QED BY <1>3, <1>4, <1>5, <1>6 DEF ClosedUnder

\* Before the initializers are added, the methods called from the entries.
LEMMA EntriesAtRest ==
    ASSUME SeedsInv, Owed, Idle, stage = "entries"
    PROVE  processed = CalledFromEntries
<1>1. Within = CalledFromEntries
  BY DEF Within
<1>2. processed \in SUBSET SootMethod /\ processed \subseteq CalledFromEntries
  BY <1>1 DEF SeedsInv, SeedsTypeOK
<1>3. ASSUME NEW p \in Calls, p[1] \in processed
      PROVE  p[2] \in processed
  <2>1. p = <<p[1], p[2]>>
    BY CallsTyped
  <2>2. <<p[1], p[2]>> \in Calls
    BY <2>1
  <2>3. p[2] \in Callees[p[1]]
    BY <2>2, InCalls
  <2>4. p \in rules
    BY <1>3, <2>1, <2>3, ProcessedAtRest
  <2> QED BY <1>3, <2>4, ProcessedAtRest DEF ClosedUnder
<1>4. EntryPoints \subseteq processed /\ ClosedUnder(Calls, processed)
  BY <1>3, ProcessedAtRest DEF ClosedUnder
<1> QED BY <1>2, <1>4, EntriesReached

\* Afterwards, the methods that are reached.
LEMMA ReachedAtRest ==
    ASSUME SeedsInv, Owed, Idle, stage = "computed"
    PROVE  /\ processed = Reached
           /\ \A p \in CallsAndInitializers : p[1] \in Reached => p \in rules
<1>1. Within = Reached
  BY DEF Within
<1>2. processed \in SUBSET SootMethod /\ processed \subseteq Reached
  BY <1>1 DEF SeedsInv, SeedsTypeOK
<1>3. ASSUME NEW p \in CallsAndInitializers, p[1] \in processed
      PROVE  p \in rules
  <2>1. p = <<p[1], p[2]>>
    BY InitializersTyped
  <2>2. CASE p \in Calls
    <3>1. <<p[1], p[2]>> \in Calls
      BY <2>1, <2>2
    <3>2. p[2] \in Callees[p[1]]
      BY <3>1, InCalls
    <3> QED BY <1>3, <2>1, <3>2, ProcessedAtRest
  <2>3. CASE p \in EntryPoints \X Initialized
    <3>1. p[1] \in EntryPoints /\ p[2] \in Initialized
      BY <2>3
    <3>2. analyseClassInitializers /\ \E m \in CalledFromEntries : p[2] \in Initializers[ClassOf[m]]
      BY <3>1 DEF Initialized
    <3>3. PICK m \in CalledFromEntries : p[2] \in Initializers[ClassOf[m]]
      BY <3>2
    <3>4. Ruled(<<p[1], p[2]>>)
      BY <3>1, <3>2, <3>3, SeedsIdle DEF Owed, InitializersOwed
    <3> QED BY <2>1, <3>4, SeedsIdle DEF Ruled
  <2> QED BY <2>2, <2>3, InitializersTyped
<1>4. EntryPoints \subseteq processed /\ ClosedUnder(CallsAndInitializers, processed)
  BY <1>3, ProcessedAtRest DEF ClosedUnder
<1>5. processed = Reached
  BY <1>2, <1>4, MethodsReached
<1> QED BY <1>3, <1>5

LEMMA AnalyseEffect ==
    ASSUME SeedsInv, Owed, AnalyseClassInitializers
    PROVE  SeedsEffect(nothing)
<1> DEFINE made == IF analyseClassInitializers
                   THEN {ClassCall(ClassOf[m]) : m \in processed} ELSE {}
<1>1. /\ Idle /\ stage = "entries" /\ stage' = "computed"
      /\ agenda' = IF analyseClassInitializers THEN <<made>> ELSE <<>>
      /\ UNCHANGED <<automaton, rules, processed, seedToTransition, closures, answered, scope>>
  BY DEF AnalyseClassInitializers, ClassCall
<1>2. processed = CalledFromEntries /\ CalledFromEntries \subseteq SootMethod
  BY <1>1, EntriesAtRest, EntriesReached
<1>3. made \in SUBSET SeedsCall
  BY <1>2, SeedsCallTypes
<1>4. /\ analyseClassInitializers =>
           \A m \in CalledFromEntries : ClassCall(ClassOf[m]) \in made
      /\ \A d \in made : /\ analyseClassInitializers
                         /\ \E m \in CalledFromEntries : d = ClassCall(ClassOf[m])
      /\ ~analyseClassInitializers => made = {}
  BY <1>2
<1> HIDE DEF made
<1>5. agenda' \in Seq(SUBSET SeedsCall) /\ Moves(nothing, made)
  BY <1>1, <1>3, <1>4, SeedsCalled
<1>6. SeedsGrow /\ SeedsTypeOK'
  BY <1>1, <1>5 DEF SeedsInv, SeedsTypeOK, SeedsGrow
<1>7. \A d \in made : FoundedCall(d)'
  BY <1>1, <1>4, SeedsCallOps DEF FoundedCall
<1>8. SeedsKeep(nothing, made)
  BY <1>1, <1>5, <1>6, <1>7 DEF SeedsKeep, SeedsInv
<1>9. SeedsHeed(nothing, made)
  BY <1>1, <1>4, <1>5, <1>6, NothingCalled DEF SeedsHeed
<1> QED BY <1>8, <1>9 DEF SeedsEffect

(***************************************************************************)
(* The scopes.                                                             *)
(***************************************************************************)
Visited(q, s) == <<q, s>> \in closures \/ Pending(TransitiveClosure(q, s))

\* When scopes are asked for, the seeds have been computed.
OnlyClosures ==
    answered # {} => stage = "computed" /\ \A d : Pending(d) => d.op = "closure"

ScopeStarted ==
    \A q \in answered : \A t \in Transitions(q) : t.m \in scope[q] /\ Visited(q, t.to)

ScopeClosed ==
    \A q \in answered : \A t \in automaton :
      <<q, t.from>> \in closures => t.m \in scope[q] /\ Visited(q, t.to)

ScopeFounded ==
    \A q \in answered : \A a \in scope[q] :
      \E t \in automaton : t.m = a /\ (t \in Transitions(q) \/ <<q, t.from>> \in closures)

\* Only what calls m is visited from a seed of m ...
InScopeOf(m, s) == s = Initial \/ \E a \in CallersOf(m) : s = Below(a)

ScopeSound ==
    \A q \in answered : \A m \in SootMethod :
      q \in Seeds[m] => /\ scope[q] \subseteq CallersOf(m)
                        /\ \A s \in State : Visited(q, s) => InScopeOf(m, s)

\* ... and nothing, if the seed is kept with the entry itself.
Alone(q) == \A t \in Transitions(q) : t.to = Initial

ScopeAlone ==
    \A q \in answered : Alone(q) =>
      /\ scope[q] \subseteq {t.m : t \in Transitions(q)}
      /\ \A s \in State : Visited(q, s) => s = Initial

ScopeInv ==
    /\ OnlyClosures /\ ScopeStarted /\ ScopeClosed /\ ScopeFounded /\ ScopeSound /\ ScopeAlone

LEMMA InTransitions ==
    ASSUME SeedsInv, NEW q, NEW t \in Transitions(q)
    PROVE  /\ t \in automaton /\ <<q, t>> \in seedToTransition /\ q \in Seeds[t.m]
           /\ t \in SeedsTransition /\ Founded(t)
<1>1. PICK x \in seedToTransition : x[1] = q /\ x[2] = t
  BY DEF Transitions
<1>2. x = <<q, t>>
  BY <1>1 DEF SeedsInv, SeedsTypeOK
<1> QED BY <1>1, <1>2 DEF SeedsInv, SeedsTypeOK

LEMMA NoScopes == answered = {} => ScopeInv
BY DEF ScopeInv, OnlyClosures, ScopeStarted, ScopeClosed, ScopeFounded, ScopeSound, ScopeAlone

\* While the seeds are computed no scope is asked for.
LEMMA NotYet ==
    ASSUME SeedsInv, ScopeInv, NEW c \in Innermost, c.op # "closure", answered' = answered
    PROVE  ScopeInv'
<1>1. answered = {}
  BY SeedsInnermost DEF ScopeInv, OnlyClosures
<1>2. answered' = {}
  BY <1>1
<1>3. (answered = {} => ScopeInv)'
  BY NoScopes, PTL
<1> QED BY <1>2, <1>3

LEMMA ScopesUnchanged ==
    ASSUME SeedsInv, ScopeInv, NEW c, c \notin SeedsCall, Moves(c, {}),
           UNCHANGED <<automaton, rules, processed, seedToTransition, closures,
                       answered, scope, stage>>
    PROVE  ScopeInv'
<1>1. \A d : Pending(d)' => Pending(d)
  BY PendingMoves
<1>2. \A q \in Query, s \in State : Pending(TransitiveClosure(q, s)) => Pending(TransitiveClosure(q, s))'
  BY PendingMoves, SeedsCallTypes
<1>3. \A q \in Query, s \in State : Visited(q, s)' <=> Visited(q, s)
  BY <1>1, <1>2 DEF Visited
<1>4. \A q : Transitions(q)' = Transitions(q)
  BY DEF Transitions
<1>5. /\ answered \subseteq Query
      /\ \A t \in automaton : t.to \in State
      /\ \A q : \A t \in Transitions(q) : t.to \in State
  BY InTransitions, TransFields DEF SeedsInv, SeedsTypeOK
<1>6. OnlyClosures'
  BY <1>1 DEF ScopeInv, OnlyClosures
<1>7. ScopeStarted'
  BY <1>3, <1>4, <1>5 DEF ScopeInv, ScopeStarted
<1>8. ScopeClosed'
  BY <1>3, <1>5 DEF ScopeInv, ScopeClosed
<1>9. ScopeFounded'
  BY <1>4 DEF ScopeInv, ScopeFounded
<1>10. ScopeSound'
  BY <1>3, <1>5 DEF ScopeInv, ScopeSound, InScopeOf
<1>11. ScopeAlone'
  <2>1. \A q : Alone(q)' <=> Alone(q)
    BY <1>4 DEF Alone
  <2> QED BY <1>3, <1>4, <1>5, <2>1 DEF ScopeInv, ScopeAlone
<1> QED BY <1>6, <1>7, <1>8, <1>9, <1>10, <1>11 DEF ScopeInv

LEMMA CloseInv ==
    ASSUME SeedsInv, ScopeInv, NEW c \in Innermost, CloseTransitively(c)
    PROVE  SeedsEffect(c) /\ ScopeInv'
<1> DEFINE out == {t \in automaton : t.from = c.s}
           new == <<c.q, c.s>> \notin closures
           made == IF new THEN {TransitiveClosure(c.q, t.to) : t \in out} ELSE {}
           labels == IF new THEN {t.m : t \in out} ELSE {}
<1>1. /\ c \in SeedsCall /\ Pending(c) /\ c.op = "closure" /\ c.q \in Query /\ c.s \in State
      /\ c.q \in answered
  BY SeedsInnermost, SeedsCallFields DEF CloseTransitively, FoundedCall
<1>2. c = TransitiveClosure(c.q, c.s)
  <2>1. c \in [op : {"closure"}, q : Query, s : State]
    BY <1>1 DEF SeedsCall
  <2> QED BY <2>1 DEF TransitiveClosure
<1>3. /\ closures' = closures \cup {<<c.q, c.s>>}
      /\ UNCHANGED <<automaton, rules, processed, seedToTransition, answered, stage>>
      /\ ~new => Return(c, <<>>) /\ scope' = scope
      /\ new => /\ scope' = [scope EXCEPT ![c.q] = @ \cup labels]
                /\ Return(c, <<made>>)
  BY DEF CloseTransitively
<1>4. /\ automaton \subseteq SeedsTransition /\ scope \in [Query -> SUBSET SootMethod]
      /\ answered \subseteq Query /\ \A t \in automaton : Founded(t)
  BY DEF SeedsInv, SeedsTypeOK
<1>5. made \in SUBSET SeedsCall /\ labels \in SUBSET SootMethod
  <2>1. \A t \in out : t.m \in SootMethod /\ TransitiveClosure(c.q, t.to) \in SeedsCall
    BY <1>1, <1>4, TransFields, SeedsCallTypes
  <2> QED BY <2>1
<1>6. /\ \A t \in automaton : new /\ t.from = c.s =>
           t.m \in labels /\ TransitiveClosure(c.q, t.to) \in made
      /\ \A a \in labels : new /\ \E t \in automaton : t.from = c.s /\ t.m = a
      /\ \A d \in made : \E t \in automaton : t.from = c.s /\ d = TransitiveClosure(c.q, t.to)
      /\ ~new => made = {} /\ labels = {}
  OBVIOUS
<1> HIDE DEF made, labels, out
<1>7. agenda' \in Seq(SUBSET SeedsCall) /\ Moves(c, made)
  BY <1>3, <1>5, <1>6, SeedsReturns
<1>8. /\ scope' \in [Query -> SUBSET SootMethod]
      /\ scope'[c.q] = scope[c.q] \cup labels
      /\ \A q \in Query : q # c.q => scope'[q] = scope[q]
  BY <1>1, <1>3, <1>4, <1>5, <1>6
<1>9. SeedsGrow /\ SeedsTypeOK'
  BY <1>1, <1>3, <1>7, <1>8 DEF SeedsInv, SeedsTypeOK, SeedsGrow
<1>10. SeedsKeep(c, made)
  <2>1. \A d \in made : FoundedCall(d)'
    BY <1>1, <1>3, <1>6, SeedsCallOps DEF FoundedCall
  <2>2. \A x \in closures' : x[1] \in answered'
    BY <1>1, <1>3 DEF SeedsInv
  <2> QED BY <1>3, <1>7, <1>9, <2>1, <2>2 DEF SeedsKeep, SeedsInv
<1>11. SeedsHeed(c, made)
  BY <1>1, <1>3, <1>7, <1>9 DEF SeedsHeed
<1>12. \A q : Transitions(q)' = Transitions(q)
  BY <1>3 DEF Transitions
\* What is visited afterwards.
<1>13. \A q \in Query, s \in State : Visited(q, s) => Visited(q, s)'
  <2> SUFFICES ASSUME NEW q \in Query, NEW s \in State, Visited(q, s)
               PROVE  Visited(q, s)'
    OBVIOUS
  <2>1. CASE TransitiveClosure(q, s) = c
    <3>1. q = c.q /\ s = c.s
      BY <2>1, SeedsCallOps
    <3> QED BY <1>3, <3>1 DEF Visited
  <2>2. CASE TransitiveClosure(q, s) # c
    BY <1>3, <1>7, <2>2, PendingMoves DEF Visited
  <2> QED BY <2>1, <2>2
<1>14. \A t \in automaton : new /\ t.from = c.s => Visited(c.q, t.to)'
  BY <1>6, <1>7, PendingMoves DEF Visited
<1>15. ASSUME NEW q \in Query, NEW s \in State, Visited(q, s)', ~Visited(q, s)
       PROVE  q = c.q /\ \E t \in automaton : t.from = c.s /\ s = t.to
  <2>1. CASE <<q, s>> \in closures'
    <3>1. q = c.q /\ s = c.s
      BY <1>3, <1>15, <2>1 DEF Visited
    <3> QED BY <1>1, <1>2, <1>15, <3>1 DEF Visited
  <2>2. CASE Pending(TransitiveClosure(q, s))'
    <3>1. TransitiveClosure(q, s) \in made
      BY <1>7, <1>15, <2>2, PendingMoves DEF Visited
    <3>2. PICK t \in automaton : t.from = c.s /\ TransitiveClosure(q, s) = TransitiveClosure(c.q, t.to)
      BY <1>6, <3>1
    <3> QED BY <3>2, SeedsCallOps
  <2> QED BY <1>15, <2>1, <2>2 DEF Visited
<1>16. Visited(c.q, c.s)
  BY <1>1, <1>2 DEF Visited
<1>17. OnlyClosures'
  <2>1. \A d \in made : d.op = "closure"
    BY <1>6, SeedsCallOps
  <2> QED BY <1>3, <1>7, <2>1, PendingMoves DEF ScopeInv, OnlyClosures
<1>18. ScopeStarted'
  <2> SUFFICES ASSUME NEW q \in answered, NEW t \in Transitions(q)
               PROVE  t.m \in scope'[q] /\ Visited(q, t.to)'
    BY <1>3, <1>12 DEF ScopeStarted
  <2>1. t.m \in scope[q] /\ Visited(q, t.to)
    BY DEF ScopeInv, ScopeStarted
  <2>2. t.to \in State /\ q \in Query
    BY <1>4, InTransitions, TransFields
  <2> QED BY <1>8, <1>13, <2>1, <2>2
<1>19. ScopeClosed'
  <2> SUFFICES ASSUME NEW q \in answered, NEW t \in automaton, <<q, t.from>> \in closures'
               PROVE  t.m \in scope'[q] /\ Visited(q, t.to)'
    BY <1>3 DEF ScopeClosed
  <2>1. t.to \in State /\ q \in Query
    BY <1>4, TransFields
  <2>2. CASE <<q, t.from>> \in closures
    <3>1. t.m \in scope[q] /\ Visited(q, t.to)
      BY <2>2 DEF ScopeInv, ScopeClosed
    <3> QED BY <1>8, <1>13, <2>1, <3>1
  <2>3. CASE <<q, t.from>> \notin closures
    <3>1. q = c.q /\ t.from = c.s /\ new
      BY <1>3, <2>3
    <3> QED BY <1>6, <1>8, <1>14, <3>1
  <2> QED BY <2>2, <2>3
<1>20. ScopeFounded'
  <2> SUFFICES ASSUME NEW q \in answered, NEW a \in scope'[q]
               PROVE  \E t \in automaton :
                        t.m = a /\ (t \in Transitions(q) \/ <<q, t.from>> \in closures')
    BY <1>3, <1>12 DEF ScopeFounded
  <2>1. CASE a \in scope[q]
    BY <1>3, <2>1 DEF ScopeInv, ScopeFounded
  <2>2. CASE a \notin scope[q]
    <3>1. q = c.q /\ a \in labels
      BY <1>4, <1>8, <2>2
    <3> QED BY <1>3, <1>6, <3>1
  <2> QED BY <2>1, <2>2
\* Out of a state that m's callers lead to, its callers lead on.
<1>21. ASSUME NEW m \in SootMethod, InScopeOf(m, c.s), NEW t \in automaton, t.from = c.s
       PROVE  t.m \in CallersOf(m) /\ InScopeOf(m, t.to)
  <2>1. Founded(t) /\ stage = "computed"
    BY <1>1, <1>4 DEF ScopeInv, OnlyClosures
  <2>2. c.s # Top
    BY <1>21, SeedsStates DEF InScopeOf
  <2>3. PICK b \in SootMethod : t.from = Below(b) /\ <<t.m, b>> \in rules
    BY <1>21, <2>1, <2>2 DEF Founded, FromCaller
  <2>4. b \in CallersOf(m)
    BY <1>21, <2>3, SeedsStates DEF InScopeOf
  <2> DEFINE p == <<t.m, b>>
  <2>5. p \in CallsAndInitializers /\ p[1] \in Reached /\ p[1] = t.m /\ p[2] = b
    BY <2>1, <2>3 DEF SeedsInv, Allowed, Within
  <2> HIDE DEF p
  <2>6. t.m \in CallersOf(m)
    BY <2>4, <2>5, CallersLeast
  <2> QED BY <2>1, <2>6 DEF Founded, Enters, InScopeOf
<1>22. ScopeSound'
  <2> SUFFICES ASSUME NEW q \in answered, NEW m \in SootMethod, q \in Seeds[m]
               PROVE  /\ scope'[q] \subseteq CallersOf(m)
                      /\ \A s \in State : Visited(q, s)' => InScopeOf(m, s)
    BY <1>3 DEF ScopeSound, InScopeOf
  <2>1. /\ scope[q] \subseteq CallersOf(m) /\ q \in Query
        /\ \A s \in State : Visited(q, s) => InScopeOf(m, s)
    BY <1>4 DEF ScopeInv, ScopeSound
  <2>2. q = c.q => InScopeOf(m, c.s)
    BY <1>1, <1>16, <2>1
  <2>3. scope'[q] \subseteq CallersOf(m)
    BY <1>6, <1>8, <1>21, <2>1, <2>2
  <2>4. ASSUME NEW s \in State, Visited(q, s)', ~Visited(q, s) PROVE InScopeOf(m, s)
    <3>1. q = c.q /\ \E t \in automaton : t.from = c.s /\ s = t.to
      BY <1>15, <2>1, <2>4
    <3> QED BY <1>21, <2>2, <3>1
  <2> QED BY <2>1, <2>3, <2>4
<1>23. ScopeAlone'
  <2> SUFFICES ASSUME NEW q \in answered, Alone(q)
               PROVE  /\ scope'[q] \subseteq {t.m : t \in Transitions(q)}
                      /\ \A s \in State : Visited(q, s)' => s = Initial
    BY <1>3, <1>12 DEF ScopeAlone, Alone
  <2>1. /\ scope[q] \subseteq {t.m : t \in Transitions(q)} /\ q \in Query
        /\ \A s \in State : Visited(q, s) => s = Initial
    BY <1>4 DEF ScopeInv, ScopeAlone
  <2>2. q = c.q => \A t \in automaton : t.from # c.s
    <3>1. q = c.q => c.s = Initial
      BY <1>1, <1>16, <2>1
    <3>2. \A t \in automaton : t.from # Initial
      BY <1>4, SeedsStates DEF Founded, FromCaller
    <3> QED BY <3>1, <3>2
  <2>3. scope'[q] = scope[q]
    BY <1>6, <1>8, <2>1, <2>2
  <2>4. \A s \in State : Visited(q, s)' => Visited(q, s)
    BY <1>15, <2>1, <2>2
  <2> QED BY <2>1, <2>3, <2>4
<1> QED BY <1>10, <1>11, <1>17, <1>18, <1>19, <1>20, <1>22, <1>23 DEF SeedsEffect, ScopeInv

LEMMA GetScopeInv ==
    ASSUME SeedsInv, ScopeInv, NEW q0 \in Query, GetMethodScope(q0)
    PROVE  SeedsEffect(nothing) /\ ScopeInv'
<1> DEFINE made == {TransitiveClosure(q0, t.to) : t \in Transitions(q0)}
           labels == {t.m : t \in Transitions(q0)}
<1>1. /\ Idle /\ stage = "computed" /\ q0 \notin answered
      /\ answered' = answered \cup {q0}
      /\ scope' = [scope EXCEPT ![q0] = labels]
      /\ agenda' = <<made>>
      /\ UNCHANGED <<automaton, rules, processed, seedToTransition, closures, stage>>
  BY DEF GetMethodScope
<1>2. \A t \in Transitions(q0) : /\ t.m \in SootMethod /\ t.to \in State /\ t \in automaton
                                 /\ q0 \in Seeds[t.m] /\ Enters(t)
  BY InTransitions, TransFields DEF Founded
<1>3. made \in SUBSET SeedsCall /\ labels \in SUBSET SootMethod
  <2>1. \A t \in Transitions(q0) : TransitiveClosure(q0, t.to) \in SeedsCall
    BY <1>2, SeedsCallTypes
  <2> QED BY <1>2, <2>1
<1>4. /\ \A t \in Transitions(q0) : t.m \in labels /\ TransitiveClosure(q0, t.to) \in made
      /\ \A a \in labels : \E t \in Transitions(q0) : a = t.m
      /\ \A d \in made : \E t \in Transitions(q0) : d = TransitiveClosure(q0, t.to)
      /\ labels = {t.m : t \in Transitions(q0)}
  OBVIOUS
<1> HIDE DEF made, labels
<1>5. agenda' \in Seq(SUBSET SeedsCall) /\ Moves(nothing, made)
  BY <1>1, <1>3, SeedsCalled
<1>6. /\ scope \in [Query -> SUBSET SootMethod] /\ answered \subseteq Query
      /\ closures \subseteq Query \X State /\ automaton \subseteq SeedsTransition
      /\ \A x \in closures : x[1] \in answered
  BY DEF SeedsInv, SeedsTypeOK
<1>7. /\ scope' \in [Query -> SUBSET SootMethod] /\ scope'[q0] = labels
      /\ \A q \in Query : q # q0 => scope'[q] = scope[q]
  BY <1>1, <1>3, <1>6
<1>8. SeedsGrow /\ SeedsTypeOK'
  BY <1>1, <1>5, <1>7 DEF SeedsInv, SeedsTypeOK, SeedsGrow
<1>9. SeedsKeep(nothing, made)
  <2>1. \A d \in made : FoundedCall(d)'
    BY <1>1, <1>4, SeedsCallOps DEF FoundedCall
  <2> QED BY <1>1, <1>5, <1>6, <1>8, <2>1 DEF SeedsKeep, SeedsInv
<1>10. SeedsHeed(nothing, made)
  BY <1>1, <1>5, <1>8, NothingCalled DEF SeedsHeed
<1>11. \A q : Transitions(q)' = Transitions(q)
  BY <1>1 DEF Transitions
\* Nothing is pending but the calls for the new scope.
<1>12. \A d : Pending(d)' <=> d \in made
  BY <1>1, <1>5, SeedsIdle, PendingMoves
<1>13. \A q, s : q # q0 => (Visited(q, s)' <=> Visited(q, s))
  <2>1. \A q, s : q # q0 => TransitiveClosure(q, s) \notin made
    BY <1>4, SeedsCallOps
  <2> QED BY <1>1, <1>12, <2>1, SeedsIdle DEF Visited
<1>14. \A s : <<q0, s>> \notin closures
  <2>1. \A s : <<q0, s>>[1] = q0
    OBVIOUS
  <2> QED BY <1>1, <1>6, <2>1
<1>15. \A s : Visited(q0, s)' <=> \E t \in Transitions(q0) : s = t.to
  <2>1. \A s : TransitiveClosure(q0, s) \in made <=> \E t \in Transitions(q0) : s = t.to
    BY <1>4, SeedsCallOps
  <2> QED BY <1>1, <1>12, <1>14, <2>1 DEF Visited
<1>16. OnlyClosures'
  BY <1>1, <1>4, <1>12, SeedsCallOps DEF OnlyClosures
<1>17. ScopeStarted'
  <2> SUFFICES ASSUME NEW q \in answered', NEW t \in Transitions(q)
               PROVE  t.m \in scope'[q] /\ Visited(q, t.to)'
    BY <1>11 DEF ScopeStarted
  <2>1. CASE q = q0
    BY <1>4, <1>7, <1>15, <2>1
  <2>2. CASE q # q0
    BY <1>1, <1>6, <1>7, <1>13, <2>2 DEF ScopeInv, ScopeStarted
  <2> QED BY <2>1, <2>2
<1>18. ScopeClosed'
  <2> SUFFICES ASSUME NEW q \in answered', NEW t \in automaton, <<q, t.from>> \in closures
               PROVE  t.m \in scope'[q] /\ Visited(q, t.to)'
    BY <1>1 DEF ScopeClosed
  <2>1. q # q0
    BY <1>14
  <2> QED BY <1>1, <1>6, <1>7, <1>13, <2>1 DEF ScopeInv, ScopeClosed
<1>19. ScopeFounded'
  <2> SUFFICES ASSUME NEW q \in answered', NEW a \in scope'[q]
               PROVE  \E t \in automaton :
                        t.m = a /\ (t \in Transitions(q) \/ <<q, t.from>> \in closures)
    BY <1>1, <1>11 DEF ScopeFounded
  <2>1. CASE q = q0
    BY <1>2, <1>4, <1>7, <2>1
  <2>2. CASE q # q0
    BY <1>1, <1>6, <1>7, <2>2 DEF ScopeInv, ScopeFounded
  <2> QED BY <2>1, <2>2
<1>20. ScopeSound'
  <2> SUFFICES ASSUME NEW q \in answered', NEW m \in SootMethod, q \in Seeds[m]
               PROVE  /\ scope'[q] \subseteq CallersOf(m)
                      /\ \A s \in State : Visited(q, s)' => InScopeOf(m, s)
    BY <1>1 DEF ScopeSound, InScopeOf
  <2>1. CASE q = q0
    <3>1. \A t \in Transitions(q0) : t.m = m /\ Enters(t)
      BY <1>2, <2>1, SeedsInOneMethod
    <3>2. m \in CallersOf(m)
      BY CallersLeast
    <3> QED BY <1>4, <1>7, <1>15, <2>1, <3>1, <3>2 DEF Enters, InScopeOf
  <2>2. CASE q # q0
    BY <1>1, <1>6, <1>7, <1>13, <2>2 DEF ScopeInv, ScopeSound
  <2> QED BY <2>1, <2>2
<1>21. ScopeAlone'
  <2> SUFFICES ASSUME NEW q \in answered', Alone(q)
               PROVE  /\ scope'[q] \subseteq {t.m : t \in Transitions(q)}
                      /\ \A s \in State : Visited(q, s)' => s = Initial
    BY <1>11 DEF ScopeAlone, Alone
  <2>1. CASE q = q0
    BY <1>4, <1>7, <1>15, <2>1 DEF Alone
  <2>2. CASE q # q0
    BY <1>1, <1>6, <1>7, <1>13, <2>2 DEF ScopeInv, ScopeAlone
  <2> QED BY <2>1, <2>2
<1> QED BY <1>9, <1>10, <1>16, <1>17, <1>18, <1>19, <1>20, <1>21 DEF SeedsEffect, ScopeInv

(***************************************************************************)
(* The invariant holds.                                                    *)
(***************************************************************************)
LEMMA SeedsInitInv == SeedsInit => SeedsInv /\ Owed /\ ScopeInv
<1> SUFFICES ASSUME SeedsInit PROVE SeedsInv /\ Owed /\ ScopeInv
  OBVIOUS
<1> DEFINE A == {Process(t) : t \in automaton}
<1>1. /\ automaton = {Trans(Top, m, Initial) : m \in EntryPoints}
      /\ rules = {} /\ processed = {} /\ seedToTransition = {}
      /\ closures = {} /\ answered = {} /\ scope = [q \in Query |-> {}]
      /\ stage = "entries" /\ agenda = <<A>>
  BY DEF SeedsInit
<1>2. EntryPoints \subseteq SootMethod
  BY SeedsAssumption
<1>3. \A t \in automaton : \E m \in EntryPoints :
         /\ t = Trans(Top, m, Initial) /\ t \in SeedsTransition
         /\ t.from = Top /\ t.m = m /\ t.to = Initial
  BY <1>1, <1>2, SeedsStates, TransFields
<1>4. A \in SUBSET SeedsCall
  BY <1>3, SeedsCallTypes
<1>5. /\ \A t \in automaton : Process(t) \in A
      /\ \A d \in A : \E t \in automaton : d = Process(t)
  OBVIOUS
<1> HIDE DEF A
<1>6. agenda \in Seq(SUBSET SeedsCall)
  BY <1>1, <1>4, LoopTypes
<1>7. \A d : Pending(d) <=> d \in A
  BY <1>1, BodyDomains DEF Pending
<1>8. SeedsTypeOK
  BY <1>1, <1>3, <1>6 DEF SeedsTypeOK
<1>9. \A t \in automaton : Founded(t)
  BY <1>1, <1>3, EntriesReached DEF Founded, Within, Enters, FromCaller
<1>10. \A d : Pending(d) => FoundedCall(d)
  BY <1>5, <1>7, SeedsCallOps DEF FoundedCall
<1>11. SeedsInv
  BY <1>1, <1>8, <1>9, <1>10 DEF SeedsInv
<1>12. Owed
  <2>1. EntriesOwed
    BY <1>1 DEF EntriesOwed
  <2>2. ProcessOwed
    BY <1>5, <1>7 DEF ProcessOwed
  <2>3. CallsOwed /\ SeedsOwed /\ PushesOwed /\ InitializersOwed
    BY <1>1 DEF CallsOwed, SeedsOwed, PushesOwed, InitializersOwed
  <2> QED BY <2>1, <2>2, <2>3 DEF Owed
<1>13. ScopeInv
  BY <1>1, NoScopes
<1> QED BY <1>11, <1>12, <1>13

LEMMA SeedsNextInv == SeedsInv /\ Owed /\ ScopeInv /\ [SeedsNext]_seedsVars => (SeedsInv /\ Owed /\ ScopeInv)'
<1> SUFFICES ASSUME SeedsInv, Owed, ScopeInv, [SeedsNext]_seedsVars
             PROVE  SeedsInv' /\ Owed' /\ ScopeInv'
  OBVIOUS
<1>1. ASSUME NEW c, SeedsEffect(c) PROVE SeedsInv' /\ Owed'
  BY <1>1, SeedsKept, OwedAfter DEF SeedsEffect
<1>2. ASSUME SeedsEndLoop \/ UNCHANGED seedsVars PROVE SeedsInv' /\ Owed' /\ ScopeInv'
  BY <1>1, <1>2, SeedsQuiet, NothingCalled, ScopesUnchanged
<1>3. ASSUME AnalyseClassInitializers PROVE SeedsInv' /\ Owed' /\ ScopeInv'
  <2>1. answered = {} /\ answered' = answered
    BY <1>3 DEF AnalyseClassInitializers, ScopeInv, OnlyClosures
  <2>2. answered' = {}
    BY <2>1
  <2>3. (answered = {} => ScopeInv)'
    BY NoScopes, PTL
  <2> QED BY <1>1, <1>3, <2>2, <2>3, AnalyseEffect
<1>4. ASSUME NEW c \in Innermost,
             \/ ProcessTransition(c) \/ AddRule(c) \/ PushTo(c) \/ AddTransition(c)
             \/ OutAdded(c) \/ AddStaticInitializerFor(c)
      PROVE  SeedsInv' /\ Owed' /\ ScopeInv'
  <2>1. SeedsEffect(c)
    BY <1>4, ProcessEffect, RuleEffect, PushEffect, AddEffect, OutEffect, ClassEffect
  <2>2. c.op # "closure" /\ answered' = answered
    BY <1>4 DEF ProcessTransition, AddRule, PushTo, AddTransition, OutAdded,
                AddStaticInitializerFor, seedsData
  <2> QED BY <1>1, <2>1, <2>2, NotYet
<1>5. ASSUME NEW c \in Innermost, CloseTransitively(c) PROVE SeedsInv' /\ Owed' /\ ScopeInv'
  BY <1>1, <1>5, CloseInv
<1>6. ASSUME NEW q \in Query, GetMethodScope(q) PROVE SeedsInv' /\ Owed' /\ ScopeInv'
  BY <1>1, <1>6, GetScopeInv
<1> QED BY <1>2, <1>3, <1>4, <1>5, <1>6 DEF SeedsNext, SeedsStep

LEMMA SeedsInvariant == SeedsSpec => [](SeedsInv /\ Owed /\ ScopeInv)
BY SeedsInitInv, SeedsNextInv, PTL DEF SeedsSpec

\* computeSeeds ends with the seeds of exactly the reachable methods, in whatever
\* order transitions, rules and initializers come.  (computeSeeds, process)
THEOREM SeedsAlwaysExact == SeedsSpec => []SeedsExact
<1>1. SeedsInv /\ Owed /\ ScopeInv => SeedsExact
  <2> SUFFICES ASSUME SeedsInv, Owed, Idle, stage = "computed"
               PROVE  /\ processed = Reached
                      /\ {p[1] : p \in seedToTransition} = UNION {Seeds[m] : m \in Reached}
    BY DEF SeedsExact
  <2>1. processed = Reached
    BY ReachedAtRest
  <2>2. \A x \in seedToTransition : x[1] \in Seeds[x[2].m] /\ x[2].m \in Reached
    BY <2>1 DEF SeedsInv
  <2>3. ASSUME NEW m \in Reached, NEW q \in Seeds[m]
        PROVE  \E p \in seedToTransition : q = p[1]
    <3>1. PICK t \in automaton : t.m = m /\ <<q, t>> \in seedToTransition
      BY <2>1 DEF Owed, SeedsOwed
    <3>2. <<q, t>>[1] = q
      OBVIOUS
    <3> QED BY <3>1, <3>2
  <2> QED BY <2>1, <2>2, <2>3
<1> QED BY <1>1, SeedsInvariant, PTL

\* Where a caller is on top of some stack, its method is called, it is entered
\* from its own callers wherever it is entered.
LEMMA ScopeComplete ==
    ASSUME SeedsInv, Owed, ScopeInv, Idle, NEW q \in answered, NEW m \in SootMethod,
           NEW t0 \in Transitions(q), t0.m = m, t0.to = Below(m)
    PROVE  CallersOf(m) \subseteq scope[q]
<1>1. stage = "computed" /\ \A d : ~Pending(d)
  BY SeedsIdle DEF ScopeInv, OnlyClosures
<1>2. processed = Reached /\ \A p \in CallsAndInitializers : p[1] \in Reached => p \in rules
  BY <1>1, ReachedAtRest
<1>3. \A s : Visited(q, s) <=> <<q, s>> \in closures
  BY <1>1 DEF Visited
<1>4. /\ scope[q] \in SUBSET SootMethod
      /\ \A t \in automaton : Founded(t) /\ t \in SeedsTransition
  BY DEF SeedsInv, SeedsTypeOK
<1>5. m \in scope[q] /\ <<q, Below(m)>> \in closures
  BY <1>3 DEF ScopeInv, ScopeStarted
<1>6. \A t \in automaton : <<q, t.from>> \in closures => t.m \in scope[q] /\ <<q, t.to>> \in closures
  BY <1>3 DEF ScopeInv, ScopeClosed
<1>7. ASSUME NEW b, NEW a, b \in Reached, <<b, a>> \in CallsAndInitializers, a \in scope[q]
      PROVE  b \in scope[q]
  <2> DEFINE p == <<b, a>>
  <2>1. p \in rules /\ p[1] = b /\ p[2] = a
    BY <1>2, <1>7
  <2> HIDE DEF p
  <2>2. OnTop(b)
    BY <1>2, <1>7 DEF SeedsInv
  <2>3. PICK tb \in automaton : tb.from = Top /\ tb.m = b
    BY <2>2 DEF OnTop
  <2>4. /\ Trans(Below(a), b, tb.to) \in automaton
        /\ Trans(Top, a, Below(a)) \in automaton
    BY <2>1, <2>3, ProcessedAtRest
  <2>5. <<q, Below(a)>> \in closures
    <3>1. PICK t \in automaton : t.m = a /\ (t \in Transitions(q) \/ <<q, t.from>> \in closures)
      BY <1>7 DEF ScopeInv, ScopeFounded
    <3>2. CASE t \in Transitions(q)
      <4>1. q \in Seeds[a] /\ q \in Seeds[m] /\ a \in SootMethod
        BY <1>4, <3>1, <3>2, InTransitions, TransFields
      <4>2. a = m
        BY <4>1, SeedsInOneMethod
      <4> QED BY <1>5, <4>2
    <3>3. CASE <<q, t.from>> \in closures
      <4>1. t.from # Top
        <5>1. t.from \in State /\ Visited(q, t.from)
          BY <1>3, <1>4, <3>3, TransFields
        <5>2. q \in Seeds[m]
          BY InTransitions
        <5>3. InScopeOf(m, t.from)
          BY <5>1, <5>2 DEF ScopeInv, ScopeSound
        <5> QED BY <5>3, SeedsStates DEF InScopeOf
      <4>2. PICK x \in SootMethod : t.from = Below(x) /\ <<a, x>> \in rules
        BY <1>4, <3>1, <4>1 DEF Founded, FromCaller
      <4> DEFINE r == <<a, x>>
                 ta == Trans(Top, a, Below(a))
                 on == Trans(Below(x), a, Below(a))
      <4>3. r \in rules /\ r[1] = a /\ r[2] = x
        BY <4>2
      <4>4. ta \in automaton /\ ta.from = Top /\ ta.m = a /\ ta.to = Below(a)
        BY <2>4, TransFields
      <4>5. on.from = Below(x) /\ on.to = Below(a)
        BY TransFields
      <4> HIDE DEF r, ta
      <4>6. Trans(Below(r[2]), r[1], ta.to) \in automaton
        BY <4>3, <4>4, ProcessedAtRest
      <4>7. on \in automaton
        BY <4>3, <4>4, <4>6
      <4> QED BY <1>6, <3>3, <4>2, <4>5, <4>7
    <3> QED BY <3>1, <3>2, <3>3
  <2> DEFINE next == Trans(Below(a), b, tb.to)
  <2>6. next \in automaton /\ next.from = Below(a) /\ next.m = b
    BY <2>4, TransFields
  <2> QED BY <1>6, <2>5, <2>6
<1>8. ClosedUnder(Callers, scope[q])
  <2> SUFFICES ASSUME NEW e \in Callers, e[1] \in scope[q]
               PROVE  e[2] \in scope[q]
    BY DEF ClosedUnder
  <2>1. PICK p \in CallsAndInitializers : p[1] \in Reached /\ e = <<p[2], p[1]>>
    BY InCallers
  <2>2. p = <<p[1], p[2]>> /\ e[1] = p[2] /\ e[2] = p[1]
    BY <2>1, InitializersTyped
  <2> QED BY <1>7, <2>1, <2>2
<1> QED BY <1>4, <1>5, <1>8, CallersLeast

\* The scope of a seed is its method with all callers, or an entry point alone,
\* whose first transition is the one from outside.  (getMethodScope)
THEOREM ScopeAlwaysExact == SeedsSpec => []ScopeExact
<1>1. SeedsInv /\ Owed /\ ScopeInv => ScopeExact
  <2> SUFFICES ASSUME SeedsInv, Owed, ScopeInv, Idle, NEW q \in answered,
                      NEW m \in Reached, q \in Seeds[m]
               PROVE  \/ scope[q] = CallersOf(m)
                      \/ m \in EntryPoints /\ scope[q] = {m}
    BY DEF ScopeExact
  <2>1. stage = "computed" /\ m \in SootMethod /\ m \in processed
    BY MethodsReached, ReachedAtRest DEF ScopeInv, OnlyClosures
  <2>2. PICK t0 \in automaton : t0.m = m /\ <<q, t0>> \in seedToTransition
    BY <2>1 DEF Owed, SeedsOwed
  <2>3. t0 \in Transitions(q)
    <3> DEFINE x == <<q, t0>>
    <3>1. x \in seedToTransition /\ x[1] = q /\ x[2] = t0
      BY <2>2
    <3> HIDE DEF x
    <3> QED BY <3>1 DEF Transitions
  <2>4. \A t \in Transitions(q) : t.m = m /\ Enters(t)
    BY <2>1, InTransitions, TransFields, SeedsInOneMethod DEF Founded
  <2>5. CASE Alone(q)
    <3>1. t0.to = Initial /\ m \in EntryPoints
      BY <2>3, <2>4, <2>5, SeedsStates DEF Alone, Enters
    <3>2. scope[q] \subseteq {m}
      BY <2>4, <2>5 DEF ScopeInv, ScopeAlone
    <3>3. m \in scope[q]
      BY <2>3, <2>4 DEF ScopeInv, ScopeStarted
    <3> QED BY <3>1, <3>2, <3>3
  <2>6. CASE ~Alone(q)
    <3>1. PICK t \in Transitions(q) : t.to # Initial
      BY <2>6 DEF Alone
    <3>2. t.m = m /\ t.to = Below(m)
      BY <2>4, <3>1 DEF Enters
    <3>3. CallersOf(m) \subseteq scope[q]
      BY <2>1, <3>2, ScopeComplete
    <3>4. scope[q] \subseteq CallersOf(m)
      BY <2>1 DEF ScopeInv, ScopeSound
    <3> QED BY <3>3, <3>4
  <2> QED BY <2>5, <2>6
<1> QED BY <1>1, SeedsInvariant, PTL
==============================================================================
