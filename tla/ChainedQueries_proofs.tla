----------------------- MODULE ChainedQueries_proofs -----------------------
(***************************************************************************)
(* Proofs about ChainedQueries: its type invariant and its safety          *)
(* invariants, from one inductive invariant.                               *)
(***************************************************************************)
EXTENDS ChainedQueries, NaturalsLemmas, FiniteSetTheorems, TLAPS

-----------------------------------------------------------------------------
(* The inductive invariant.                                                *)

Queries == 1 .. plan.queries

\* What the plan does not issue is never started.
PlanInv ==
    \A f \in Futures : thread[f] # "none" => f[1] \in Queries /\ f[2] \in 0 .. plan.subs

\* A statement has a thread of its own; a query that fans out has one that waits.
KindInv ==
    \A f \in Futures :
        /\ ~Leaf(f) => thread[f] \in {"none", "spawn", "reap", "set", "freed"}
        /\ Leaf(f) => thread[f] \notin {"spawn", "reap"}
        /\ f[2] = 0 => thread[f] # "registered"

\* The sub-futures a query holds: those that were allocated and not yet deleted, the
\* first ones of its list, all of them if none failed, and none outside the life of its
\* thread.
FanInv ==
    \A q \in Queries :
        /\ subs[q] \subseteq Subs(q)
        /\ thread[Top(q)] \in {"set", "freed"} => subs[q] = {}
        /\ \A f \in Subs(q) :
              /\ f \in subs[q] <=> thread[f] \notin {"none", "freed"}
              /\ thread[Top(q)] = "none" => thread[f] = "none"
              /\ thread[Top(q)] \in {"reap", "set", "freed"} /\ status[Top(q)] = "Success" =>
                    thread[f] # "none"
              /\ thread[f] = "registered" => thread[Top(q)] = "spawn"
              /\ \A g \in Subs(q) : f[2] < g[2] =>
                    /\ thread[g] # "none" => thread[f] # "none"
                    /\ thread[f] = "registered" => thread[g] = "none"

\* Which queries were started, chained and freed when the job is where it is.
IsStarted(q) == thread[Top(q)] # "none"
IsFreed(q)   == thread[Top(q)] = "freed"
IsChained(q) == Top(q) \in dependents

AtInv ==
    /\ at \in 1 .. plan.queries + 1
    /\ pc \in {"chain", "remove", "free"} => at \in Queries
    /\ pc \in {"remove", "free"} => thread[Top(at)] = "set"
    /\ pc \in {"wait", "remove", "free", "done"} /\ ~cancelled => \A q \in Queries : IsStarted(q)
    /\ pc = "done" => ~Started(at)

StartedInv ==
    \A q \in Queries :
        /\ pc = "start" => (IsStarted(q) <=> q < at) /\ ~IsFreed(q)
        /\ pc = "chain" => (IsStarted(q) <=> q <= at) /\ ~IsFreed(q)
        /\ pc \in {"wait", "remove", "free", "done"} => (IsFreed(q) <=> q < at)
        /\ \A r \in Queries : r < q /\ IsStarted(q) => IsStarted(r)

DependentsInv ==
    /\ dependents \subseteq {Top(q) : q \in Queries}
    /\ \A q \in Queries :
        /\ pc \in {"start", "chain"} => (IsChained(q) <=> q < at)
        /\ pc \in {"wait", "remove", "done"} => (IsChained(q) <=> IsStarted(q) /\ q >= at)
        /\ pc = "free" => (IsChained(q) <=> IsStarted(q) /\ q > at)

\* What Cancel still has to interrupt is held by the mutex it has.
CancelInv ==
    /\ cpc = "idle" <=> ~cancelled
    /\ cpc \in {"idle", "flagged", "done"} => todo = {}
    /\ cpc # "inside" => inside = {} /\ target = None
    /\ todo \subseteq dependents
    /\ cpc = "inside" =>
        /\ todo # {}
        /\ First(todo) \in inside
        /\ inside \subseteq {First(todo)} \cup subs[First(todo)[1]]
        /\ target \in inside \cup {None}
        /\ target = First(todo) => inside = {target}

\* A connection is lent to one statement, and an interrupted one has no other.
ConnInv ==
    /\ \A f, g \in Futures :
          f # g /\ thread[f] \in Holding /\ thread[g] \in Holding => conn[f] # conn[g]
    /\ \A f \in Futures :
          stopped[f] => thread[f] \in {"linked", "active", "ending", "unlinked", "set", "freed"}
    /\ StopsOnlyItsOwn

\* A sub-query whose thread did not start is one of a query that failed.
NotLaunched(f) == f[2] > 0 /\ status[Top(f[1])] = "Failed"

\* A query that fans out and was awaited with Success has not failed.
FansTold ==
    Fans /\ result = "Success" =>
        thread[Top(1)] \in {"set", "freed"} /\ status[Top(1)] = "Success"

\* Without a cancellation, statements that were launched end with all their rows.
QuietInv ==
    /\ ~cancelled => \A f \in Futures :
          /\ ~interrupted[f] /\ ~stopped[f]
          /\ Leaf(f) /\ thread[f] \in {"ending", "unlinked", "set", "freed"} =>
                rows[f] = Rows \/ NotLaunched(f)
    /\ FansTold
    /\ SuccessIsComplete

\* The queries the loop of Cancel has missed so far.
Missed(q) ==
    /\ thread[Top(q)] \notin {"none", "set", "freed"}
    /\ ~interrupted[Top(q)]
    /\ Top(q) \notin todo

EscapeInv ==
    cpc \in {"loop", "inside", "done"} =>
        \A q, r \in Queries : Missed(q) /\ Missed(r) => q = r

IInv ==
    /\ TypeOK /\ PlanInv /\ KindInv /\ FanInv
    /\ AtInv /\ StartedInv /\ DependentsInv
    /\ CancelInv /\ ConnInv /\ QuietInv /\ EscapeInv

-----------------------------------------------------------------------------
(* Futures and lists of futures.                                           *)

LEMMA FutureShape ==
    ASSUME NEW f \in Futures
    PROVE  f = <<f[1], f[2]>> /\ f[1] \in Nat \ {0} /\ f[2] \in Nat
<1>1. PICK p \in Plans : f \in {<<q, s>> : q \in 1 .. p.queries, s \in 0 .. p.subs}
  BY DEF Futures
<1>2. PICK q \in 1 .. p.queries, s \in 0 .. p.subs : f = <<q, s>>  BY <1>1
<1>3. p.queries \in Nat /\ p.subs \in Nat  BY PlansAssumption
<1>4. q \in Nat \ {0} /\ s \in Nat  BY <1>3
<1>5. QED  BY <1>2, <1>4

LEMMA NoneIsNoFuture == None \notin Futures
<1>1. SUFFICES ASSUME None \in Futures PROVE FALSE  OBVIOUS
<1>2. None[1] = 0  BY DEF None
<1>3. QED  BY <1>1, <1>2, FutureShape

\* The futures of the plan that is carried out.
LEMMA PlanFutures ==
    ASSUME plan \in Plans
    PROVE  /\ plan.queries \in Nat \ {0} /\ plan.subs \in Nat
           /\ \A q \in Queries : /\ Top(q) \in Futures /\ Top(q)[1] = q /\ Top(q)[2] = 0
                                 /\ q \in {f[1] : f \in Futures}
           /\ \A q \in Queries : \A f \in Subs(q) :
                 f \in Futures /\ f[1] = q /\ f[2] \in 1 .. plan.subs /\ f = <<q, f[2]>>
<1>1. plan.queries \in Nat \ {0} /\ plan.subs \in Nat  BY PlansAssumption
<1>2. \A q \in Queries : \A s \in 0 .. plan.subs : <<q, s>> \in Futures
  <2>1. TAKE q \in Queries
  <2>2. TAKE s \in 0 .. plan.subs
  <2>3. <<q, s>> \in {<<r, t>> : r \in 1 .. plan.queries, t \in 0 .. plan.subs}
    BY DEF Queries
  <2>4. QED  BY <2>3 DEF Futures
<1>3. ASSUME NEW q \in Queries
      PROVE  Top(q) \in Futures /\ Top(q)[1] = q /\ Top(q)[2] = 0 /\ q \in {f[1] : f \in Futures}
  <2>1. Top(q) \in Futures /\ Top(q)[1] = q /\ Top(q)[2] = 0  BY <1>1, <1>2 DEF Top
  <2>2. QED  BY <2>1
<1>4. ASSUME NEW q \in Queries, NEW f \in Subs(q)
      PROVE  f \in Futures /\ f[1] = q /\ f[2] \in 1 .. plan.subs /\ f = <<q, f[2]>>
  <2>1. PICK s \in 1 .. plan.subs : f = <<q, s>>  BY DEF Subs
  <2>2. s \in 0 .. plan.subs  BY <1>1
  <2>3. QED  BY <1>2, <2>1, <2>2
<1>5. QED  BY <1>1, <1>3, <1>4

\* A list of futures has a first one.
LEMMA FirstIn ==
    ASSUME NEW F \in SUBSET Futures, F # {}
    PROVE  /\ First(F) \in F
           /\ \A g \in F : First(F)[1] < g[1] \/ (First(F)[1] = g[1] /\ First(F)[2] <= g[2])
<1>1. \A f \in F : f[1] \in Nat /\ f[2] \in Nat  BY FutureShape
<1> DEFINE A == {f[1] : f \in F}
<1>2. A \in SUBSET Nat /\ A # {}  BY <1>1
<1> HIDE DEF A
<1>3. PICK a \in A : \A x \in A : a <= x  BY <1>2, LeastNumber
<1> DEFINE B == {f[2] : f \in {g \in F : g[1] = a}}
<1>4. B \in SUBSET Nat /\ B # {}  BY <1>1, <1>3 DEF A
<1> HIDE DEF B
<1>5. PICK b \in B : \A x \in B : b <= x  BY <1>4, LeastNumber
<1>6. PICK f \in F : f[1] = a /\ f[2] = b  BY DEF B
<1>7. \A g \in F : f[1] < g[1] \/ (f[1] = g[1] /\ f[2] <= g[2])
  <2>1. TAKE g \in F
  <2>2. a <= g[1]  BY <1>3 DEF A
  <2>3. g[1] = a => b <= g[2]  BY <1>5 DEF B
  <2>4. QED  BY <1>1, <1>6, <2>2, <2>3
<1>8. \E h \in F : \A g \in F : h[1] < g[1] \/ (h[1] = g[1] /\ h[2] <= g[2])  BY <1>7
<1>9. QED  BY <1>8 DEF First

-----------------------------------------------------------------------------
(* Types.                                                                  *)

LEMMA InitType == Init => TypeOK
<1> SUFFICES ASSUME Init PROVE TypeOK  OBVIOUS
<1>1. plan \in Plans /\ 0 \in 0 .. Limit /\ 0 \in 0 .. Rows  BY PlansAssumption DEF Init
<1>2. subs \in [{f[1] : f \in Futures} -> SUBSET Futures]
  <2>1. {} \in SUBSET Futures  OBVIOUS
  <2>2. QED  BY <2>1 DEF Init
<1>3. /\ thread \in [Futures -> {"none", "registered", "started", "connected", "linked",
                               "active", "ending", "unlinked", "spawn", "reap", "set", "freed"}]
      /\ interrupted \in [Futures -> BOOLEAN] /\ stopped \in [Futures -> BOOLEAN]
      /\ conn \in [Futures -> 0 .. Limit] /\ rows \in [Futures -> 0 .. Rows]
      /\ status \in [Futures -> {"Success", "Failed"}]
  BY <1>1 DEF Init
<1>4. cancelled \in BOOLEAN  BY Zenon DEF Init
<1>5. /\ dependents \subseteq Futures
      /\ pc \in {"start", "chain", "wait", "remove", "free", "done"} /\ at \in Nat \ {0}
      /\ result \in {"OutOfRange", "Success", "Failed", "Cancelled"}
      /\ cpc \in {"idle", "flagged", "loop", "inside", "done"}
      /\ todo \subseteq Futures /\ inside \subseteq Futures /\ target \in Futures \cup {None}
  BY DEF Init
<1>6. QED  BY <1>1, <1>2, <1>3, <1>4, <1>5 DEF TypeOK

LEMMA JobType == TypeOK /\ AtInv /\ JobStep => TypeOK'
<1> SUFFICES ASSUME TypeOK, AtInv, JobStep PROVE TypeOK'  OBVIOUS
<1>1. UNCHANGED <<plan, stopped, conn, rows, status, subs, cpc, todo, inside, target, cancelled>>
  BY DEF JobStep, StartQuery, Chain, StartWaiting, Await, Remove, Free, Return, db, cancel
<1>2. dependents' \subseteq Futures
  <2>1. CASE Chain
    <3>1. at \in Queries  BY <2>1 DEF Chain, AtInv
    <3>2. Top(at) \in Futures  BY <3>1, PlanFutures DEF TypeOK
    <3>3. QED  BY <2>1, <3>2 DEF Chain, TypeOK
  <2>2. CASE ~Chain
    BY <2>2 DEF JobStep, StartQuery, StartWaiting, Await, Remove, Free, Return, TypeOK
  <2>3. QED  BY <2>1, <2>2
<1>3. /\ pc' \in {"start", "chain", "wait", "remove", "free", "done"}
      /\ at' \in Nat \ {0}
      /\ result' \in {"OutOfRange", "Success", "Failed", "Cancelled"}
  BY DEF JobStep, StartQuery, Chain, StartWaiting, Await, Remove, Free, Return, Outcome, TypeOK
<1>4. thread' \in [Futures -> {"none", "registered", "started", "connected", "linked",
                               "active", "ending", "unlinked", "spawn", "reap", "set", "freed"}]
  BY DEF JobStep, StartQuery, Chain, StartWaiting, Await, Remove, Free, Return, db, TypeOK
<1>5. interrupted' \in [Futures -> BOOLEAN]
  BY DEF JobStep, StartQuery, Chain, StartWaiting, Await, Remove, Free, Return, db, TypeOK
<1>6. QED  BY <1>1, <1>2, <1>3, <1>4, <1>5 DEF TypeOK

\* What a statement does while it has its thread.
Working == {"started", "connected", "linked", "active", "ending", "unlinked"}

\* A step of a statement is about its own future only.
LEMMA LeafEffect ==
    ASSUME TypeOK, KindInv, NEW f \in Futures, LeafStep(f)
    PROVE  /\ Leaf(f)
           /\ UNCHANGED <<plan, dependents, pc, at, result, interrupted, stopped, subs, cancelled,
                          cpc, todo, inside, target>>
           /\ thread[f] \in Working
           /\ thread'[f] \in (Working \ {"started"}) \cup {"set"}
           /\ thread' = [thread EXCEPT ![f] = thread'[f]]
           /\ \A g \in Futures : g # f => status'[g] = status[g]
           /\ status[f] = "Failed" => status'[f] = "Failed"
<1>1. UNCHANGED <<plan, dependents, pc, at, result, interrupted, stopped, subs, cancelled,
                  cpc, todo, inside, target>>
  BY DEF LeafStep, Connect, Link, TakeRow, RefuseRow, EndRows, Unlink, Disconnect, job, cancel
<1>2. thread[f] \in Working
  BY DEF LeafStep, Connect, Link, TakeRow, RefuseRow, EndRows, Unlink, Disconnect, Running, Working
<1>3. /\ thread'[f] \in (Working \ {"started"}) \cup {"set"}
      /\ thread' = [thread EXCEPT ![f] = thread'[f]]
  BY DEF LeafStep, Connect, Link, TakeRow, RefuseRow, EndRows, Unlink, Disconnect, Working, TypeOK
<1>4. Leaf(f)  BY <1>2 DEF KindInv, Working
<1>5. /\ \A g \in Futures : g # f => status'[g] = status[g]
      /\ status[f] = "Failed" => status'[f] = "Failed"
  BY DEF LeafStep, Connect, Link, TakeRow, RefuseRow, EndRows, Unlink, Disconnect, TypeOK
<1>6. QED  BY <1>1, <1>2, <1>3, <1>4, <1>5

LEMMA LeafType ==
    ASSUME TypeOK, KindInv, NEW f \in Futures, LeafStep(f)
    PROVE  TypeOK'
<1>1. UNCHANGED <<plan, dependents, pc, at, result, interrupted, stopped, subs, cancelled,
                  cpc, todo, inside, target>>
  BY LeafEffect
<1>2. thread' \in [Futures -> {"none", "registered", "started", "connected", "linked",
                               "active", "ending", "unlinked", "spawn", "reap", "set", "freed"}]
  BY LeafEffect DEF Working, TypeOK
<1>3. conn' \in [Futures -> 0 .. Limit]
  <2>1. CASE Connect(f)
    <3>1. (CHOOSE c \in FreeConnections : TRUE) \in FreeConnections  BY <2>1 DEF Connect
    <3>2. (CHOOSE c \in FreeConnections : TRUE) \in 0 .. Limit
      BY <3>1, PlansAssumption DEF FreeConnections
    <3>3. QED  BY <2>1, <3>2 DEF Connect, TypeOK
  <2>2. CASE ~Connect(f)
    BY <2>2, PlansAssumption
       DEF LeafStep, Link, TakeRow, RefuseRow, EndRows, Unlink, Disconnect, TypeOK
  <2>3. QED  BY <2>1, <2>2
<1>4. rows' \in [Futures -> 0 .. Rows]
  BY PlansAssumption
     DEF LeafStep, Connect, Link, TakeRow, RefuseRow, EndRows, Unlink, Disconnect, TypeOK
<1>5. status' \in [Futures -> {"Success", "Failed"}]
  BY DEF LeafStep, Connect, Link, TakeRow, RefuseRow, EndRows, Unlink, Disconnect, TypeOK
<1>6. QED  BY <1>1, <1>2, <1>3, <1>4, <1>5 DEF TypeOK

\* A sub-future that is registered next is the first of those that were not.
LEMMA RegisterFirst ==
    ASSUME TypeOK, NEW q \in Queries, Register(q)
    PROVE  \E f \in Subs(q) :
             /\ f \in Futures /\ thread[f] = "none"
             /\ \A g \in Subs(q) : thread[g] = "none" => f[2] <= g[2]
             /\ subs' = [subs EXCEPT ![q] = @ \cup {f}]
             /\ thread' = [thread EXCEPT ![f] = "registered"]
<1> DEFINE new == {f \in Subs(q) : thread[f] = "none"}
<1>1. new # {} /\ subs' = [subs EXCEPT ![q] = @ \cup {First(new)}]
      /\ thread' = [thread EXCEPT ![First(new)] = "registered"]
  BY DEF Register
<1>2. \A f \in Subs(q) : f \in Futures /\ f[1] = q /\ f[2] \in Nat  BY PlanFutures DEF TypeOK
<1>3. new \in SUBSET Futures  BY <1>2
<1> DEFINE f == First(new)
<1>4. f \in new /\ \A g \in new : f[1] < g[1] \/ (f[1] = g[1] /\ f[2] <= g[2])
  BY <1>1, <1>3, FirstIn
<1> HIDE DEF new
<1>5. \A g \in new : f[2] <= g[2]
  <2>1. \A g \in new : g[1] = q  BY <1>2 DEF new
  <2>2. q \in Nat  BY PlanFutures DEF TypeOK, Queries
  <2>3. QED  BY <1>4, <2>1, <2>2
<1>6. QED  BY <1>1, <1>2, <1>4, <1>5 DEF new

LEMMA FanType ==
    ASSUME TypeOK, NEW q \in Queries, FanStep(q)
    PROVE  TypeOK'
<1>1. UNCHANGED <<plan, dependents, pc, at, result, interrupted, stopped, conn, rows, cancelled,
                  cpc, todo, inside, target>>
  BY DEF FanStep, Register, Launch, FailLaunch, Reap, Deliver, job, cancel
<1>2. thread' \in [Futures -> {"none", "registered", "started", "connected", "linked",
                               "active", "ending", "unlinked", "spawn", "reap", "set", "freed"}]
  <2>1. CASE Register(q)  BY <2>1 DEF Register, TypeOK
  <2>2. CASE Launch(q)  BY <2>2 DEF Launch, TypeOK
  <2>3. CASE FailLaunch(q)  BY <2>3 DEF FailLaunch, TypeOK
  <2>4. CASE Reap(q) \/ Deliver(q)  BY <2>4 DEF Reap, Deliver, TypeOK
  <2>5. QED  BY <2>1, <2>2, <2>3, <2>4 DEF FanStep
<1>3. subs' \in [{f[1] : f \in Futures} -> SUBSET Futures]
  <2>1. CASE Register(q)
    <3>1. PICK f \in Futures : subs' = [subs EXCEPT ![q] = @ \cup {f}]
      BY <2>1, RegisterFirst
    <3>2. QED  BY <3>1 DEF TypeOK
  <2>2. CASE FailLaunch(q)
    <3>1. PICK f \in Subs(q) : subs' = [subs EXCEPT ![q] = @ \ {f}]
      BY <2>2 DEF FailLaunch
    <3>2. QED  BY <3>1 DEF TypeOK
  <2>3. CASE Launch(q) \/ Reap(q) \/ Deliver(q)
    BY <2>3 DEF Launch, Reap, Deliver, TypeOK
  <2>4. QED  BY <2>1, <2>2, <2>3 DEF FanStep
<1>4. status' \in [Futures -> {"Success", "Failed"}]
  <2>1. CASE FailLaunch(q)  BY <2>1 DEF FailLaunch, TypeOK
  <2>2. CASE Reap(q)  BY <2>2 DEF Reap, TypeOK
  <2>3. CASE Register(q) \/ Launch(q) \/ Deliver(q)
    BY <2>3 DEF Register, Launch, Deliver, TypeOK
  <2>4. QED  BY <2>1, <2>2, <2>3 DEF FanStep
<1>5. QED  BY <1>1, <1>2, <1>3, <1>4 DEF TypeOK

\* Cancel turns to a dependent: the next one, which it holds, or one of its sub-futures.
LEMMA NextTarget ==
    ASSUME TypeOK, CancelInv, CancelStatement
    PROVE  /\ target' \in inside
           /\ target' = First(todo) => inside = {target'}
<1> DEFINE own == First(todo)
<1>1. own \in inside  BY DEF CancelInv, CancelStatement
<1>2. target' = IF inside = {own} THEN own ELSE First(inside \ {own})  BY DEF CancelStatement
<1>3. CASE inside = {own}  BY <1>1, <1>2, <1>3
<1>4. CASE inside # {own}
  <2>1. inside \ {own} # {} /\ inside \ {own} \in SUBSET Futures  BY <1>1, <1>4 DEF TypeOK
  <2>2. First(inside \ {own}) \in inside \ {own}  BY <2>1, FirstIn
  <2>3. QED  BY <1>2, <1>4, <2>2
<1>5. QED  BY <1>3, <1>4

LEMMA CancelType ==
    ASSUME TypeOK, CancelInv, CancelFlag \/ CancelStep
    PROVE  TypeOK'
<1>1. UNCHANGED <<plan, dependents, pc, at, result, thread, conn, rows, status, subs>>
  BY DEF CancelFlag, CancelStep, CancelLock, CancelNext, CancelStatement, CancelRaise, CancelEnd,
         job, db
<1>2. /\ cancelled' \in BOOLEAN
      /\ cpc' \in {"idle", "flagged", "loop", "inside", "done"}
      /\ todo' \subseteq Futures
  BY DEF CancelFlag, CancelStep, CancelLock, CancelNext, CancelStatement, CancelRaise, CancelEnd,
         TypeOK
<1>3. inside' \subseteq Futures
  <2>1. CASE CancelNext
    <3>1. First(todo) \in Futures  BY <2>1, FirstIn DEF CancelNext, TypeOK
    <3>2. subs[First(todo)[1]] \subseteq Futures  BY <3>1 DEF TypeOK
    <3>3. QED  BY <2>1, <3>1, <3>2 DEF CancelNext
  <2>2. CASE ~CancelNext
    BY <2>2 DEF CancelFlag, CancelStep, CancelLock, CancelStatement, CancelRaise, CancelEnd, TypeOK
  <2>3. QED  BY <2>1, <2>2
<1>4. target' \in Futures \cup {None}
  <2>1. CASE CancelStatement  BY <2>1, NextTarget DEF TypeOK
  <2>2. CASE ~CancelStatement
    BY <2>2 DEF CancelFlag, CancelStep, CancelLock, CancelNext, CancelRaise, CancelEnd, TypeOK
  <2>3. QED  BY <2>1, <2>2
<1>5. interrupted' \in [Futures -> BOOLEAN]
  BY DEF CancelFlag, CancelStep, CancelLock, CancelNext, CancelStatement, CancelRaise, CancelEnd,
         TypeOK, db
<1>6. stopped' \in [Futures -> BOOLEAN]
  <2>1. CASE CancelStatement
    <3>1. \A f \in Futures : stopped[f] \in BOOLEAN  BY DEF TypeOK
    <3> DEFINE next == IF inside = {First(todo)} THEN First(todo)
                                                  ELSE First(inside \ {First(todo)})
               on   == {f \in Futures : Linked(next) /\ conn[f] = conn[next]}
    <3>2. PICK early \in SUBSET {f \in on : thread[f] = "linked"} :
             stopped' = [f \in Futures |-> \/ stopped[f]
                                           \/ f \in early
                                           \/ f \in on /\ thread[f] = "active"]
      BY <2>1, Zenon DEF CancelStatement
    <3>3. QED  BY <3>1, <3>2, Zenon
  <2>2. CASE ~CancelStatement
    BY <2>2 DEF CancelFlag, CancelStep, CancelLock, CancelNext, CancelRaise, CancelEnd, TypeOK, db
  <2>3. QED  BY <2>1, <2>2
<1>7. QED  BY <1>1, <1>2, <1>3, <1>4, <1>5, <1>6 DEF TypeOK

-----------------------------------------------------------------------------
(* Threads, and the sub-futures of a query.                                *)

ThreadInv == PlanInv /\ KindInv /\ FanInv

LEMMA InitThread == Init => ThreadInv
<1> SUFFICES ASSUME Init PROVE ThreadInv  OBVIOUS
<1>1. TypeOK  BY InitType
<1>2. \A q \in Queries : Top(q) \in Futures /\ q \in {f[1] : f \in Futures}
      /\ \A f \in Subs(q) : f \in Futures
  BY <1>1, PlanFutures DEF TypeOK
<1>3. PlanInv /\ KindInv  BY DEF Init, PlanInv, KindInv
<1>4. FanInv  BY <1>2 DEF Init, FanInv
<1>5. QED  BY <1>3, <1>4 DEF ThreadInv

\* The thread of a query starts and is freed; the rest of the job leaves threads alone.
LEMMA JobThreads ==
    ASSUME TypeOK, AtInv, StartedInv, JobStep
    PROVE  /\ UNCHANGED <<plan, subs, stopped, conn, rows, status>>
           /\ \/ /\ at \in Queries /\ thread[Top(at)] = "none"
                 /\ thread' = [thread EXCEPT ![Top(at)] = IF Fans THEN "spawn" ELSE "started"]
                 /\ pc = "start" /\ pc' = "chain" /\ MayStart(at) /\ at' = at
                 /\ UNCHANGED <<dependents, interrupted>>
              \/ /\ at \in Queries /\ thread[Top(at)] = "set"
                 /\ thread' = [thread EXCEPT ![Top(at)] = "freed"]
                 /\ pc = "free" /\ pc' = "wait" /\ at' = at + 1
                 /\ UNCHANGED <<dependents, interrupted>>
              \/ UNCHANGED thread /\ ~StartQuery /\ ~Free
<1>1. UNCHANGED <<plan, subs, stopped, conn, rows, status>>
  BY DEF JobStep, StartQuery, Chain, StartWaiting, Await, Remove, Free, Return, db, cancel
<1>2. CASE StartQuery
  <2>1. at \in Queries  BY <1>2 DEF StartQuery, MayStart, Queries
  <2>2. at \in Nat  BY DEF TypeOK
  <2>3. thread[Top(at)] = "none"  BY <1>2, <2>1, <2>2 DEF StartQuery, StartedInv, IsStarted
  <2>4. QED  BY <1>1, <1>2, <2>1, <2>3 DEF StartQuery
<1>3. CASE Free  BY <1>1, <1>3 DEF Free, AtInv
<1>4. CASE ~StartQuery /\ ~Free
  BY <1>1, <1>4 DEF JobStep, Chain, StartWaiting, Await, Remove, Return, db
<1>5. QED  BY <1>2, <1>3, <1>4

LEMMA ThreadJob ==
    ASSUME TypeOK, AtInv, StartedInv, ThreadInv, JobStep
    PROVE  ThreadInv'
<1>1. UNCHANGED <<plan, subs, status>>  BY JobThreads
<1>2. \A q \in Queries : Top(q) \in Futures /\ Top(q)[1] = q /\ Top(q)[2] = 0
      /\ \A f \in Subs(q) : f \in Futures /\ f[2] > 0
  BY PlanFutures DEF TypeOK
<1>3. plan.subs \in Nat /\ at \in Nat  BY PlanFutures DEF TypeOK
<1>4. CASE UNCHANGED thread
  BY <1>1, <1>4
     DEF ThreadInv, PlanInv, KindInv, FanInv, Leaf, Fans, Subs, Queries, TypeOK
<1>5. CASE /\ at \in Queries /\ thread[Top(at)] = "none"
           /\ thread' = [thread EXCEPT ![Top(at)] = IF Fans THEN "spawn" ELSE "started"]
  <2>1. PlanInv'
    BY <1>1, <1>2, <1>3, <1>5 DEF ThreadInv, PlanInv, Queries, TypeOK
  <2>2. KindInv'
    BY <1>1, <1>2, <1>3, <1>5 DEF ThreadInv, KindInv, Leaf, Fans, TypeOK
  <2>3. FanInv'
    <3>1. \A q \in Queries : \A f \in Subs(q) : thread'[f] = thread[f]
      BY <1>2, <1>5 DEF TypeOK
    <3>2. \A q \in Queries : thread'[Top(q)] # thread[Top(q)] =>
             thread[Top(q)] = "none" /\ thread'[Top(q)] \in {"spawn", "started"}
      BY <1>2, <1>5 DEF TypeOK
    <3>3. QED  BY <1>1, <3>1, <3>2 DEF ThreadInv, FanInv, Subs, Queries
  <2>4. QED  BY <2>1, <2>2, <2>3 DEF ThreadInv
<1>6. CASE /\ at \in Queries /\ thread[Top(at)] = "set"
           /\ thread' = [thread EXCEPT ![Top(at)] = "freed"]
  <2>1. PlanInv'
    BY <1>1, <1>2, <1>3, <1>6 DEF ThreadInv, PlanInv, Queries, TypeOK
  <2>2. KindInv'
    BY <1>1, <1>2, <1>3, <1>6 DEF ThreadInv, KindInv, Leaf, Fans, TypeOK
  <2>3. FanInv'
    <3>1. \A q \in Queries : \A f \in Subs(q) : thread'[f] = thread[f]
      BY <1>2, <1>6 DEF TypeOK
    <3>2. \A q \in Queries : thread'[Top(q)] # thread[Top(q)] =>
             thread[Top(q)] = "set" /\ thread'[Top(q)] = "freed"
      BY <1>2, <1>6 DEF TypeOK
    <3>3. QED  BY <1>1, <3>1, <3>2 DEF ThreadInv, FanInv, Subs, Queries
  <2>4. QED  BY <2>1, <2>2, <2>3 DEF ThreadInv
<1>7. QED  BY <1>4, <1>5, <1>6, JobThreads

LEMMA ThreadLeaf ==
    ASSUME TypeOK, ThreadInv, NEW f \in Futures, LeafStep(f)
    PROVE  ThreadInv'
<1>1. /\ UNCHANGED <<plan, subs>> /\ Leaf(f)
      /\ thread[f] \in Working /\ thread'[f] \in (Working \ {"started"}) \cup {"set"}
      /\ thread' = [thread EXCEPT ![f] = thread'[f]]
  BY LeafEffect DEF ThreadInv
<1>2. \A q \in Queries : Top(q) \in Futures /\ Top(q)[1] = q /\ Top(q)[2] = 0
      /\ \A g \in Subs(q) : g \in Futures /\ g[2] > 0
  BY PlanFutures DEF TypeOK
<1>3. \A g \in Futures : g # f => thread'[g] = thread[g] /\ status'[g] = status[g]
  BY <1>1, LeafEffect DEF ThreadInv, TypeOK
<1>4. thread[f] \notin {"none", "registered", "spawn", "reap", "set", "freed"}
      /\ thread'[f] \notin {"none", "registered", "spawn", "reap", "freed"}
  BY <1>1 DEF Working
<1>5. PlanInv'  BY <1>1, <1>3, <1>4 DEF ThreadInv, PlanInv, Queries
<1>6. KindInv'  BY <1>1, <1>3, <1>4 DEF ThreadInv, KindInv, Leaf, Fans
<1>7. FanInv'
  <2>1. SUFFICES ASSUME NEW q \in Queries
                 PROVE  /\ subs[q] \subseteq Subs(q)
                        /\ thread'[Top(q)] \in {"set", "freed"} => subs[q] = {}
                        /\ \A g \in Subs(q) :
                              /\ g \in subs[q] <=> thread'[g] \notin {"none", "freed"}
                              /\ thread'[Top(q)] = "none" => thread'[g] = "none"
                              /\ thread'[Top(q)] \in {"reap", "set", "freed"} /\ status'[Top(q)] = "Success" =>
                                    thread'[g] # "none"
                              /\ thread'[g] = "registered" => thread'[Top(q)] = "spawn"
                              /\ \A h \in Subs(q) : g[2] < h[2] =>
                                    /\ thread'[h] # "none" => thread'[g] # "none"
                                    /\ thread'[g] = "registered" => thread'[h] = "none"
    BY <1>1 DEF FanInv, Subs, Queries
  <2>2. CASE f = Top(q)
    <3>1. Subs(q) = {}
      <4>1. ~Fans  BY <1>1, <1>2, <2>2 DEF Leaf
      <4>2. QED  BY <4>1, PlanFutures DEF Fans, Subs, TypeOK
    <3>2. QED  BY <3>1 DEF ThreadInv, FanInv
  <2>3. CASE f # Top(q)
    <3>1. thread'[Top(q)] = thread[Top(q)] /\ status'[Top(q)] = status[Top(q)]
      BY <1>2, <1>3, <2>3
    <3>2. \A g \in Subs(q) : g # f => thread'[g] = thread[g]  BY <1>2, <1>3
    <3>3. QED  BY <1>4, <3>1, <3>2 DEF ThreadInv, FanInv
  <2>4. QED  BY <2>2, <2>3
<1>8. QED  BY <1>5, <1>6, <1>7 DEF ThreadInv


LEMMA ThreadRegister ==
    ASSUME TypeOK, ThreadInv, NEW q \in Queries, Register(q)
    PROVE  ThreadInv'
<1>1. PICK f \in Subs(q) :
             /\ f \in Futures /\ thread[f] = "none"
             /\ \A g \in Subs(q) : thread[g] = "none" => f[2] <= g[2]
             /\ subs' = [subs EXCEPT ![q] = @ \cup {f}]
             /\ thread' = [thread EXCEPT ![f] = "registered"]
  BY RegisterFirst
<1>2. /\ UNCHANGED <<plan, status>> /\ thread[Top(q)] = "spawn"
      /\ \A g \in Subs(q) : thread[g] # "registered"
  BY DEF Register
<1>3. plan.subs \in Nat /\ q \in {g[1] : g \in Futures}
      /\ f[1] = q /\ f[2] \in 1 .. plan.subs
  BY PlanFutures DEF TypeOK
<1>4. \A g \in Futures : g # f => thread'[g] = thread[g]  BY <1>1 DEF TypeOK
<1>5. thread'[f] = "registered"  BY <1>1 DEF TypeOK
<1>6. PlanInv'  BY <1>2, <1>3, <1>4 DEF ThreadInv, PlanInv, Queries
<1>7. KindInv'  BY <1>2, <1>3, <1>4, <1>5 DEF ThreadInv, KindInv, Leaf, Fans
<1>8. FanInv'
  <2>1. SUFFICES ASSUME NEW r \in Queries
                 PROVE  /\ subs'[r] \subseteq Subs(r)
                        /\ thread'[Top(r)] \in {"set", "freed"} => subs'[r] = {}
                        /\ \A g \in Subs(r) :
                              /\ g \in subs'[r] <=> thread'[g] \notin {"none", "freed"}
                              /\ thread'[Top(r)] = "none" => thread'[g] = "none"
                              /\ thread'[Top(r)] \in {"reap", "set", "freed"} /\ status'[Top(r)] = "Success" =>
                                    thread'[g] # "none"
                              /\ thread'[g] = "registered" => thread'[Top(r)] = "spawn"
                              /\ \A h \in Subs(r) : g[2] < h[2] =>
                                    /\ thread'[h] # "none" => thread'[g] # "none"
                                    /\ thread'[g] = "registered" => thread'[h] = "none"
    BY <1>2 DEF FanInv, Subs, Queries
  <2>2. /\ Top(r) \in Futures /\ Top(r)[1] = r /\ Top(r)[2] = 0
        /\ \A g \in Subs(r) : g \in Futures /\ g[1] = r /\ g[2] \in 1 .. plan.subs /\ g = <<r, g[2]>>
    BY PlanFutures DEF TypeOK
  <2>3. thread'[Top(r)] = thread[Top(r)]  BY <1>3, <1>4, <2>2
  <2>4. CASE r # q
    <3>1. subs'[r] = subs[r]  BY <1>1, <2>4 DEF TypeOK
    <3>2. \A g \in Subs(r) : thread'[g] = thread[g]  BY <1>3, <1>4, <2>2, <2>4
    <3>3. QED  BY <1>2, <2>3, <3>1, <3>2 DEF ThreadInv, FanInv
  <2>5. CASE r = q
    <3>1. subs'[r] = subs[r] \cup {f}  BY <1>1, <1>3, <2>5 DEF TypeOK
    <3>2. \A g \in Subs(r) : g # f => thread'[g] = thread[g]  BY <1>4, <2>2
    <3>3. /\ subs[r] \subseteq Subs(r)
          /\ \A g \in Subs(r) :
                /\ g \in subs[r] <=> thread[g] \notin {"none", "freed"}
                /\ \A h \in Subs(r) : g[2] < h[2] /\ thread[h] # "none" => thread[g] # "none"
      BY DEF ThreadInv, FanInv
    <3>4. /\ subs'[r] \subseteq Subs(r)
          /\ thread'[Top(r)] = "spawn"
          /\ \A g \in Subs(r) : g \in subs'[r] <=> thread'[g] \notin {"none", "freed"}
      BY <1>1, <1>2, <1>5, <2>3, <2>5, <3>1, <3>2, <3>3
    <3>5. ASSUME NEW g \in Subs(r), NEW h \in Subs(r), g[2] < h[2]
          PROVE  /\ thread'[h] # "none" => thread'[g] # "none"
                 /\ thread'[g] = "registered" => thread'[h] = "none"
      <4>1. g[2] \in Nat /\ h[2] \in Nat /\ f[2] \in Nat  BY <1>3, <2>2
      <4>2. CASE h = f
        <5>1. g # f /\ thread[g] # "none"  BY <1>1, <2>5, <3>5, <4>1, <4>2
        <5>2. thread'[g] = thread[g] /\ thread[g] # "registered"  BY <1>2, <2>5, <3>2, <5>1
        <5>3. QED  BY <5>1, <5>2
      <4>3. CASE g = f
        <5>1. h # f /\ thread[h] = "none"  BY <1>1, <2>5, <3>3, <3>5, <4>1, <4>3
        <5>2. QED  BY <1>5, <3>2, <4>3, <5>1
      <4>4. CASE g # f /\ h # f
        BY <1>2, <2>5, <3>2, <3>3, <3>5, <4>4
      <4>5. QED  BY <4>2, <4>3, <4>4
    <3>6. QED  BY <3>4, <3>5
  <2>6. QED  BY <2>4, <2>5
<1>9. QED  BY <1>6, <1>7, <1>8 DEF ThreadInv

LEMMA ThreadLaunch ==
    ASSUME TypeOK, ThreadInv, NEW q \in Queries, Launch(q)
    PROVE  ThreadInv'
<1>1. PICK f \in Subs(q) :
             /\ thread[f] = "registered"
             /\ thread' = [thread EXCEPT ![f] = "started",
                                         ![Top(q)] = IF f[2] = plan.subs THEN "reap" ELSE @]
             /\ UNCHANGED <<plan, subs, status>>
  BY DEF Launch
<1>2. /\ plan.subs \in Nat /\ q \in Nat /\ Top(q) \in Futures /\ Top(q)[1] = q /\ Top(q)[2] = 0
      /\ f \in Futures /\ f[1] = q /\ f[2] \in 1 .. plan.subs /\ f # Top(q)
  BY PlanFutures DEF TypeOK, Queries
<1>3. thread[Top(q)] = "spawn"  BY <1>1 DEF ThreadInv, FanInv
<1>4. /\ \A g \in Futures : g # f /\ g # Top(q) => thread'[g] = thread[g]
      /\ thread'[f] = "started"
      /\ thread'[Top(q)] = IF f[2] = plan.subs THEN "reap" ELSE "spawn"
  BY <1>1, <1>2, <1>3 DEF TypeOK
<1>5. PlanInv'
  BY <1>1, <1>2, <1>3, <1>4 DEF ThreadInv, PlanInv, Queries
<1>6. KindInv'
  <2>1. Leaf(f) /\ ~Leaf(Top(q))  BY <1>2, <1>3 DEF ThreadInv, KindInv, Leaf
  <2>2. \A g \in Futures : Leaf(g)' = Leaf(g)  BY <1>1 DEF Leaf, Fans
  <2>3. QED  BY <1>2, <1>4, <2>1, <2>2 DEF ThreadInv, KindInv
<1>7. FanInv'
  <2>1. SUFFICES ASSUME NEW r \in Queries
                 PROVE  /\ subs[r] \subseteq Subs(r)
                        /\ thread'[Top(r)] \in {"set", "freed"} => subs[r] = {}
                        /\ \A g \in Subs(r) :
                              /\ g \in subs[r] <=> thread'[g] \notin {"none", "freed"}
                              /\ thread'[Top(r)] = "none" => thread'[g] = "none"
                              /\ thread'[Top(r)] \in {"reap", "set", "freed"} /\ status'[Top(r)] = "Success" =>
                                    thread'[g] # "none"
                              /\ thread'[g] = "registered" => thread'[Top(r)] = "spawn"
                              /\ \A h \in Subs(r) : g[2] < h[2] =>
                                    /\ thread'[h] # "none" => thread'[g] # "none"
                                    /\ thread'[g] = "registered" => thread'[h] = "none"
    BY <1>1 DEF FanInv, Subs, Queries
  <2>2. /\ Top(r) \in Futures /\ Top(r)[1] = r /\ Top(r)[2] = 0
        /\ \A g \in Subs(r) : g \in Futures /\ g[1] = r /\ g[2] \in 1 .. plan.subs /\ g = <<r, g[2]>>
    BY PlanFutures DEF TypeOK
  <2>3. \A g \in Subs(r) : g # f => thread'[g] = thread[g]  BY <1>2, <1>4, <2>2
  <2>4. CASE r # q
    <3>1. thread'[Top(r)] = thread[Top(r)]  BY <1>2, <1>4, <2>2, <2>4
    <3>2. f \notin Subs(r)  BY <1>2, <2>2, <2>4
    <3>3. status'[Top(r)] = status[Top(r)] /\ \A g \in Subs(r) : thread'[g] = thread[g]
      BY <1>1, <2>3, <3>2
    <3>4. QED  BY <3>1, <3>3 DEF ThreadInv, FanInv
  <2>5. CASE r = q
    <3>1. /\ subs[r] \subseteq Subs(r)
          /\ \A g \in Subs(r) :
                /\ g \in subs[r] <=> thread[g] \notin {"none", "freed"}
                /\ \A h \in Subs(r) : g[2] < h[2] =>
                      /\ thread[h] # "none" => thread[g] # "none"
                      /\ thread[g] = "registered" => thread[h] = "none"
      BY DEF ThreadInv, FanInv
    <3>2. \A g \in Subs(r) : thread[g] = "registered" => g = f
      <4>1. TAKE g \in Subs(r)
      <4>2. g[2] \in Nat /\ f[2] \in Nat /\ (g[2] = f[2] => g = f)  BY <1>2, <2>2, <2>5
      <4>3. QED  BY <1>1, <2>5, <3>1, <4>2
    <3>3. f[2] = plan.subs => \A g \in Subs(r) : thread'[g] # "none"
      <4>1. SUFFICES ASSUME f[2] = plan.subs, NEW g \in Subs(r) PROVE thread'[g] # "none"
        OBVIOUS
      <4>2. g = f \/ g[2] < f[2]  BY <1>2, <2>2, <2>5, <4>1
      <4>3. QED  BY <1>1, <1>4, <2>3, <2>5, <3>1, <4>2
    <3>4. /\ thread'[Top(r)] \notin {"none", "set", "freed"}
          /\ thread'[Top(r)] = "reap" => f[2] = plan.subs
      BY <1>4, <2>5
    <3>5. \A g \in Subs(r) : thread'[g] # "registered" /\ (thread'[g] = "none" <=> thread[g] = "none")
             /\ (thread'[g] = "freed" <=> thread[g] = "freed")
      BY <1>1, <1>4, <2>3, <3>2
    <3>6. QED  BY <3>1, <3>3, <3>4, <3>5
  <2>6. QED  BY <2>4, <2>5
<1>8. QED  BY <1>5, <1>6, <1>7 DEF ThreadInv

\* A sub-future whose thread does not start was the last one that is registered.
LEMMA ThreadFail ==
    ASSUME TypeOK, ThreadInv, NEW q \in Queries, FailLaunch(q)
    PROVE  ThreadInv'
<1>1. PICK f \in Subs(q) :
             /\ thread[f] = "registered" /\ UNCHANGED plan
             /\ subs' = [subs EXCEPT ![q] = @ \ {f}]
             /\ thread' = [thread EXCEPT ![f] = "freed", ![Top(q)] = "reap"]
             /\ status' = [status EXCEPT ![Top(q)] = "Failed"]
  BY DEF FailLaunch
<1>2. /\ Top(q) \in Futures /\ Top(q)[1] = q /\ Top(q)[2] = 0 /\ q \in {g[1] : g \in Futures}
      /\ f \in Futures /\ f[1] = q /\ f[2] \in 1 .. plan.subs /\ f # Top(q) /\ f[2] # 0
  BY PlanFutures DEF TypeOK, Queries
<1>3. thread[Top(q)] = "spawn"  BY <1>1 DEF ThreadInv, FanInv
<1>4. /\ \A g \in Futures : g # f /\ g # Top(q) => thread'[g] = thread[g]
      /\ \A g \in Futures : g # Top(q) => status'[g] = status[g]
      /\ thread'[f] = "freed" /\ thread'[Top(q)] = "reap" /\ status'[Top(q)] = "Failed"
  BY <1>1, <1>2 DEF TypeOK
<1>5. PlanInv'
  BY <1>1, <1>2, <1>3, <1>4 DEF ThreadInv, PlanInv, Queries
<1>6. KindInv'
  <2>1. Leaf(f) /\ ~Leaf(Top(q))  BY <1>2, <1>3 DEF ThreadInv, KindInv, Leaf
  <2>2. \A g \in Futures : Leaf(g)' = Leaf(g)  BY <1>1 DEF Leaf, Fans
  <2>3. QED  BY <1>2, <1>4, <2>1, <2>2 DEF ThreadInv, KindInv
<1>7. FanInv'
  <2>1. SUFFICES ASSUME NEW r \in Queries
                 PROVE  /\ subs'[r] \subseteq Subs(r)
                        /\ thread'[Top(r)] \in {"set", "freed"} => subs'[r] = {}
                        /\ \A g \in Subs(r) :
                              /\ g \in subs'[r] <=> thread'[g] \notin {"none", "freed"}
                              /\ thread'[Top(r)] = "none" => thread'[g] = "none"
                              /\ thread'[Top(r)] \in {"reap", "set", "freed"} /\ status'[Top(r)] = "Success" =>
                                    thread'[g] # "none"
                              /\ thread'[g] = "registered" => thread'[Top(r)] = "spawn"
                              /\ \A h \in Subs(r) : g[2] < h[2] =>
                                    /\ thread'[h] # "none" => thread'[g] # "none"
                                    /\ thread'[g] = "registered" => thread'[h] = "none"
    BY <1>1 DEF FanInv, Subs, Queries
  <2>2. /\ Top(r) \in Futures /\ Top(r)[1] = r /\ Top(r)[2] = 0
        /\ \A g \in Subs(r) : g \in Futures /\ g[1] = r /\ g[2] \in 1 .. plan.subs /\ g = <<r, g[2]>>
    BY PlanFutures DEF TypeOK
  <2>3. \A g \in Subs(r) : g # f /\ g # Top(q) => thread'[g] = thread[g]  BY <1>2, <1>4, <2>2
  <2>4. \A g \in Subs(r) : g # Top(q)
    <3>1. \A g \in Subs(r) : g[2] # 0  BY <2>2
    <3>2. QED  BY <1>2, <3>1
  <2>5. CASE r # q
    <3>1. thread'[Top(r)] = thread[Top(r)] /\ status'[Top(r)] = status[Top(r)]
      BY <1>2, <1>4, <2>2, <2>5
    <3>2. f \notin Subs(r)  BY <1>2, <2>2, <2>5
    <3>3. subs'[r] = subs[r]  BY <1>1, <1>2, <2>5 DEF TypeOK
    <3>4. \A g \in Subs(r) : thread'[g] = thread[g]  BY <2>3, <2>4, <3>2
    <3>5. QED  BY <3>1, <3>3, <3>4 DEF ThreadInv, FanInv
  <2>6. CASE r = q
    <3>1. /\ subs[r] \subseteq Subs(r)
          /\ \A g \in Subs(r) :
                /\ g \in subs[r] <=> thread[g] \notin {"none", "freed"}
                /\ \A h \in Subs(r) : g[2] < h[2] =>
                      /\ thread[h] # "none" => thread[g] # "none"
                      /\ thread[g] = "registered" => thread[h] = "none"
      BY DEF ThreadInv, FanInv
    <3>2. subs'[r] = subs[r] \ {f}  BY <1>1, <1>2, <2>6 DEF TypeOK
    <3>3. \A g \in Subs(r) : g # f => thread'[g] = thread[g] /\ thread[g] # "registered"
      <4>1. TAKE g \in Subs(r)
      <4>2. g[2] \in Nat /\ f[2] \in Nat /\ (g[2] = f[2] => g = f)  BY <1>2, <2>2, <2>6
      <4>3. g # f => thread[g] # "registered"  BY <1>1, <2>6, <3>1, <4>2
      <4>4. QED  BY <2>3, <2>4, <4>3
    <3>4. /\ \A g \in Subs(r) : thread'[g] # "registered" /\ (thread'[g] = "none" <=> thread[g] = "none")
          /\ \A g \in Subs(r) : g # f => (thread'[g] = "freed" <=> thread[g] = "freed")
      BY <1>1, <1>4, <3>3
    <3>5. thread'[Top(r)] = "reap" /\ status'[Top(r)] = "Failed"  BY <1>4, <2>6
    <3>6. QED  BY <1>4, <2>6, <3>1, <3>2, <3>4, <3>5
  <2>7. QED  BY <2>5, <2>6
<1>8. QED  BY <1>5, <1>6, <1>7 DEF ThreadInv

\* The sub-future that is reaped is one that the query holds, and its thread has ended.
LEMMA ReapFirst ==
    ASSUME TypeOK, ThreadInv, NEW q \in Queries, Reap(q)
    PROVE  \E f \in Subs(q) :
             /\ f \in Futures /\ f \in subs[q] /\ thread[f] = "set"
             /\ subs' = [subs EXCEPT ![q] = @ \ {f}]
             /\ thread' = [thread EXCEPT ![f] = "freed"]
<1> DEFINE f == First(subs[q])
<1>1. subs[q] # {} /\ thread[f] = "set" /\ subs' = [subs EXCEPT ![q] = @ \ {f}]
      /\ thread' = [thread EXCEPT ![f] = "freed"]
  BY DEF Reap
<1>2. subs[q] \in SUBSET Futures  BY PlanFutures DEF TypeOK
<1>3. f \in subs[q]  BY <1>1, <1>2, FirstIn
<1>4. f \in Subs(q)  BY <1>3 DEF ThreadInv, FanInv
<1> HIDE DEF f
<1>5. QED  BY <1>1, <1>2, <1>3, <1>4

LEMMA ThreadReap ==
    ASSUME TypeOK, ThreadInv, NEW q \in Queries, Reap(q)
    PROVE  ThreadInv'
<1>1. PICK f \in Subs(q) :
             /\ f \in Futures /\ f \in subs[q] /\ thread[f] = "set"
             /\ subs' = [subs EXCEPT ![q] = @ \ {f}]
             /\ thread' = [thread EXCEPT ![f] = "freed"]
  BY ReapFirst
<1>2. /\ UNCHANGED plan /\ thread[Top(q)] = "reap"
      /\ \A g \in Futures : status'[g] = "Success" => status[g] = "Success"
  BY DEF Reap, TypeOK
<1>3. q \in {g[1] : g \in Futures} /\ f[1] = q /\ f[2] > 0  BY PlanFutures DEF TypeOK
<1>4. \A g \in Futures : g # f => thread'[g] = thread[g]  BY <1>1 DEF TypeOK
<1>5. thread'[f] = "freed"  BY <1>1 DEF TypeOK
<1>6. PlanInv'  BY <1>1, <1>2, <1>4 DEF ThreadInv, PlanInv, Queries
<1>7. KindInv'  BY <1>1, <1>2, <1>4, <1>5 DEF ThreadInv, KindInv, Leaf, Fans
<1>8. FanInv'
  <2>1. SUFFICES ASSUME NEW r \in Queries
                 PROVE  /\ subs'[r] \subseteq Subs(r)
                        /\ thread'[Top(r)] \in {"set", "freed"} => subs'[r] = {}
                        /\ \A g \in Subs(r) :
                              /\ g \in subs'[r] <=> thread'[g] \notin {"none", "freed"}
                              /\ thread'[Top(r)] = "none" => thread'[g] = "none"
                              /\ thread'[Top(r)] \in {"reap", "set", "freed"} /\ status'[Top(r)] = "Success" =>
                                    thread'[g] # "none"
                              /\ thread'[g] = "registered" => thread'[Top(r)] = "spawn"
                              /\ \A h \in Subs(r) : g[2] < h[2] =>
                                    /\ thread'[h] # "none" => thread'[g] # "none"
                                    /\ thread'[g] = "registered" => thread'[h] = "none"
    BY <1>2 DEF FanInv, Subs, Queries
  <2>2. /\ Top(r) \in Futures /\ Top(r)[2] = 0
        /\ \A g \in Subs(r) : g \in Futures /\ g[1] = r
    BY PlanFutures DEF TypeOK
  <2>3. thread'[Top(r)] = thread[Top(r)]  BY <1>3, <1>4, <2>2
  <2>4. subs'[r] = subs[r] \ {f}
    <3>1. CASE r = q  BY <1>1, <1>3, <3>1 DEF TypeOK
    <3>2. CASE r # q
      <4>1. f \notin subs[r]  BY <1>3, <2>2, <3>2 DEF ThreadInv, FanInv
      <4>2. QED  BY <1>1, <3>2, <4>1 DEF TypeOK
    <3>3. QED  BY <3>1, <3>2
  <2>5. \A g \in Subs(r) : g # f => thread'[g] = thread[g]  BY <1>4, <2>2
  <2>6. status'[Top(r)] = "Success" => status[Top(r)] = "Success"  BY <1>2, <2>2
  <2>7. QED  BY <1>1, <1>5, <2>3, <2>4, <2>5, <2>6 DEF ThreadInv, FanInv
<1>9. QED  BY <1>6, <1>7, <1>8 DEF ThreadInv

LEMMA ThreadDeliver ==
    ASSUME TypeOK, ThreadInv, NEW q \in Queries, Deliver(q)
    PROVE  ThreadInv'
<1>1. /\ thread[Top(q)] = "reap" /\ subs[q] = {}
      /\ thread' = [thread EXCEPT ![Top(q)] = "set"] /\ UNCHANGED <<plan, subs, status>>
  BY DEF Deliver
<1>2. \A r \in Queries : Top(r) \in Futures /\ Top(r)[1] = r /\ Top(r)[2] = 0
      /\ \A g \in Subs(r) : g \in Futures /\ g[2] > 0
  BY PlanFutures DEF TypeOK
<1>3. \A g \in Futures : g # Top(q) => thread'[g] = thread[g]  BY <1>1 DEF TypeOK
<1>4. thread'[Top(q)] = "set"  BY <1>1, <1>2 DEF TypeOK
<1>5. PlanInv'  BY <1>1, <1>2, <1>3 DEF ThreadInv, PlanInv, Queries
<1>6. KindInv'  BY <1>1, <1>2, <1>3, <1>4 DEF ThreadInv, KindInv, Leaf, Fans
<1>7. FanInv'
  <2>1. \A r \in Queries : \A g \in Subs(r) : thread'[g] = thread[g]  BY <1>2, <1>3
  <2>2. \A r \in Queries : r # q => thread'[Top(r)] = thread[Top(r)]  BY <1>2, <1>3
  <2>3. \A r \in Queries : \A g \in Subs(r) : r = q =>
           thread[g] # "registered" /\ (status[Top(r)] = "Success" => thread[g] # "none")
    BY <1>1 DEF ThreadInv, FanInv
  <2>4. QED  BY <1>1, <1>4, <2>1, <2>2, <2>3 DEF ThreadInv, FanInv, Subs, Queries
<1>8. QED  BY <1>5, <1>6, <1>7 DEF ThreadInv

LEMMA ThreadFan ==
    ASSUME TypeOK, ThreadInv, NEW q \in Queries, FanStep(q)
    PROVE  ThreadInv'
BY ThreadRegister, ThreadLaunch, ThreadFail, ThreadReap, ThreadDeliver DEF FanStep

LEMMA ThreadSame ==
    ASSUME ThreadInv, UNCHANGED <<plan, thread, subs, status>>
    PROVE  ThreadInv'
BY DEF ThreadInv, PlanInv, KindInv, FanInv, Leaf, Fans, Subs, Queries

-----------------------------------------------------------------------------
(* The job.                                                                *)

JobInv == AtInv /\ StartedInv /\ DependentsInv

LEMMA InitJob == Init => JobInv
<1> SUFFICES ASSUME Init PROVE JobInv  OBVIOUS
<1>1. TypeOK  BY InitType
<1>2. plan.queries \in Nat \ {0} /\ \A q \in Queries : Top(q) \in Futures
  BY <1>1, PlanFutures DEF TypeOK
<1>3. \A q \in Queries : ~IsStarted(q) /\ ~IsFreed(q)
  BY <1>2 DEF Init, IsStarted, IsFreed
<1>4. pc = "start" /\ at = 1 /\ dependents = {}  BY DEF Init
<1>5. \A q \in Queries : ~(q < 1)  BY <1>2 DEF Queries
<1>6. 1 \in 1 .. plan.queries + 1  BY <1>2
<1>7. AtInv  BY <1>4, <1>6 DEF AtInv
<1>8. StartedInv  BY <1>3, <1>4, <1>5 DEF StartedInv
<1>9. DependentsInv  BY <1>4, <1>5 DEF DependentsInv, IsChained
<1>10. QED  BY <1>7, <1>8, <1>9 DEF JobInv

\* What the threads do to a query once it is started is nothing to the job.
LEMMA JobKept ==
    ASSUME JobInv, UNCHANGED <<plan, dependents, pc, at>>, cancelled => cancelled',
           \A q \in Queries : /\ thread'[Top(q)] = "none" <=> thread[Top(q)] = "none"
                              /\ thread'[Top(q)] = "freed" <=> thread[Top(q)] = "freed"
                              /\ thread[Top(q)] = "set" => thread'[Top(q)] = "set"
    PROVE  JobInv'
<1>1. Queries' = Queries  BY DEF Queries
<1>2. \A q \in Queries : (IsStarted(q)' <=> IsStarted(q)) /\ (IsFreed(q)' <=> IsFreed(q))
                         /\ (IsChained(q)' <=> IsChained(q))
  BY DEF IsStarted, IsFreed, IsChained
<1>3. Started(at)' <=> Started(at)  BY DEF Started, Queries
<1>4. AtInv'  BY <1>1, <1>2, <1>3 DEF JobInv, AtInv
<1>5. StartedInv'  BY <1>1, <1>2 DEF JobInv, StartedInv
<1>6. DependentsInv'  BY <1>1, <1>2 DEF JobInv, DependentsInv
<1>7. QED  BY <1>4, <1>5, <1>6 DEF JobInv

LEMMA JobLeaf ==
    ASSUME TypeOK, ThreadInv, JobInv, NEW f \in Futures, LeafStep(f)
    PROVE  JobInv'
<1>1. UNCHANGED <<plan, dependents, pc, at, cancelled>>  BY LeafEffect DEF ThreadInv
<1>2. ASSUME NEW q \in Queries
      PROVE  /\ thread'[Top(q)] = "none" <=> thread[Top(q)] = "none"
             /\ thread'[Top(q)] = "freed" <=> thread[Top(q)] = "freed"
             /\ thread[Top(q)] = "set" => thread'[Top(q)] = "set"
  <2>1. Top(q) \in Futures  BY PlanFutures DEF TypeOK
  <2>2. /\ thread[f] \in Working /\ thread'[f] \in (Working \ {"started"}) \cup {"set"}
        /\ thread' = [thread EXCEPT ![f] = thread'[f]]
    BY LeafEffect DEF ThreadInv
  <2>3. Top(q) # f => thread'[Top(q)] = thread[Top(q)]  BY <2>1, <2>2 DEF TypeOK
  <2>4. QED  BY <2>2, <2>3 DEF Working
<1>3. QED  BY <1>1, <1>2, JobKept

\* The thread of a query that fans out, while it steps.
LEMMA FanEffect ==
    ASSUME TypeOK, ThreadInv, NEW q \in Queries, FanStep(q)
    PROVE  /\ UNCHANGED <<plan, dependents, pc, at, result, interrupted, stopped, conn, rows,
                          cancelled, cpc, todo, inside, target>>
           /\ thread[Top(q)] \in {"spawn", "reap"} /\ thread'[Top(q)] \in {"spawn", "reap", "set"}
           /\ \A r \in Queries : r # q => thread'[Top(r)] = thread[Top(r)]
           /\ \A f \in Futures : \/ thread'[f] = thread[f]
                                 \/ f = Top(q)
                                 \/ thread[f] = "none" /\ thread'[f] = "registered"
                                 \/ thread[f] = "registered" /\ thread'[f] \in {"started", "freed"}
                                 \/ thread[f] = "set" /\ thread'[f] = "freed"
<1>1. UNCHANGED <<plan, dependents, pc, at, result, interrupted, stopped, conn, rows,
                  cancelled, cpc, todo, inside, target>>
  BY DEF FanStep, Register, Launch, FailLaunch, Reap, Deliver, job, cancel
<1>2. /\ \A r \in Queries : Top(r) \in Futures /\ Top(r)[1] = r /\ Top(r)[2] = 0
      /\ \A f \in Subs(q) : f \in Futures /\ f[2] # 0
  BY PlanFutures DEF TypeOK
<1>3. CASE Register(q)
  <2>1. PICK f \in Subs(q) : thread[f] = "none" /\ thread' = [thread EXCEPT ![f] = "registered"]
    BY <1>3, RegisterFirst
  <2>2. thread[Top(q)] = "spawn"  BY <1>3 DEF Register
  <2>3. QED  BY <1>1, <1>2, <2>1, <2>2 DEF TypeOK
<1>4. CASE Launch(q)
  <2>1. PICK f \in Subs(q) :
             /\ thread[f] = "registered"
             /\ thread' = [thread EXCEPT ![f] = "started",
                                         ![Top(q)] = IF f[2] = plan.subs THEN "reap" ELSE @]
    BY <1>4 DEF Launch
  <2>2. thread[Top(q)] = "spawn"  BY <2>1 DEF ThreadInv, FanInv
  <2>3. thread'[Top(q)] \in {"spawn", "reap"}  BY <1>2, <2>1, <2>2 DEF TypeOK
  <2>4. \A g \in Futures : g # f /\ g # Top(q) => thread'[g] = thread[g]
    BY <2>1 DEF TypeOK
  <2>5. thread'[f] = "started"  BY <1>2, <2>1 DEF TypeOK
  <2>6. \A r \in Queries : r # q => Top(r) # f /\ Top(r) # Top(q)  BY <1>2
  <2>7. QED  BY <1>1, <1>2, <2>1, <2>2, <2>3, <2>4, <2>5, <2>6
<1>5. CASE Reap(q)
  <2>1. PICK f \in Subs(q) : thread[f] = "set" /\ thread' = [thread EXCEPT ![f] = "freed"]
    BY <1>5, ReapFirst
  <2>2. thread[Top(q)] = "reap"  BY <1>5 DEF Reap
  <2>3. QED  BY <1>1, <1>2, <2>1, <2>2 DEF TypeOK
<1>6. CASE Deliver(q)
  <2>1. thread[Top(q)] = "reap" /\ thread' = [thread EXCEPT ![Top(q)] = "set"]
    BY <1>6 DEF Deliver
  <2>2. QED  BY <1>1, <1>2, <2>1 DEF TypeOK
<1>7. CASE FailLaunch(q)
  <2>1. PICK f \in Subs(q) :
             /\ thread[f] = "registered"
             /\ thread' = [thread EXCEPT ![f] = "freed", ![Top(q)] = "reap"]
    BY <1>7 DEF FailLaunch
  <2>2. thread[Top(q)] = "spawn"  BY <2>1 DEF ThreadInv, FanInv
  <2>3. f # Top(q) /\ f \in Futures  BY <1>2
  <2>4. \A g \in Futures : g # f /\ g # Top(q) => thread'[g] = thread[g]
    BY <2>1 DEF TypeOK
  <2>5. thread'[f] = "freed" /\ thread'[Top(q)] = "reap"  BY <1>2, <2>1, <2>3 DEF TypeOK
  <2>6. \A r \in Queries : r # q => Top(r) # f /\ Top(r) # Top(q)  BY <1>2
  <2>7. QED  BY <1>1, <1>2, <2>1, <2>2, <2>3, <2>4, <2>5, <2>6
<1>8. QED  BY <1>3, <1>4, <1>5, <1>6, <1>7 DEF FanStep

LEMMA JobFan ==
    ASSUME TypeOK, ThreadInv, JobInv, NEW q \in Queries, FanStep(q)
    PROVE  JobInv'
<1>1. UNCHANGED <<plan, dependents, pc, at, cancelled>>  BY FanEffect
<1>2. \A r \in Queries : /\ thread'[Top(r)] = "none" <=> thread[Top(r)] = "none"
                         /\ thread'[Top(r)] = "freed" <=> thread[Top(r)] = "freed"
                         /\ thread[Top(r)] = "set" => thread'[Top(r)] = "set"
  <2>1. TAKE r \in Queries
  <2>2. CASE r = q
    <3>1. thread[Top(q)] \in {"spawn", "reap"} /\ thread'[Top(q)] \in {"spawn", "reap", "set"}
      BY FanEffect
    <3>2. QED  BY <2>2, <3>1
  <2>3. CASE r # q  BY <2>3, FanEffect
  <2>4. QED  BY <2>2, <2>3
<1>3. QED  BY <1>1, <1>2, JobKept

LEMMA JobCancel ==
    ASSUME JobInv, CancelFlag \/ CancelStep
    PROVE  JobInv'
<1>1. UNCHANGED <<plan, dependents, pc, at, thread>> /\ (cancelled => cancelled')
  BY DEF CancelFlag, CancelStep, CancelLock, CancelNext, CancelStatement, CancelRaise, CancelEnd,
         job, db
<1>2. QED  BY <1>1, JobKept

LEMMA JobJob ==
    ASSUME TypeOK, JobInv, JobStep
    PROVE  JobInv'
<1> USE DEF JobInv
<1>1. /\ plan.queries \in Nat \ {0} /\ Queries \subseteq Nat /\ at \in Nat \ {0}
      /\ \A q \in Queries : Top(q) \in Futures /\ Top(q)[1] = q
  BY PlanFutures DEF TypeOK, Queries
<1>2. UNCHANGED <<plan, cancelled>> /\ Queries' = Queries
  BY DEF JobStep, StartQuery, Chain, StartWaiting, Await, Remove, Free, Return, cancel, Queries
<1>3. \A q \in Queries : UNCHANGED thread =>
         (IsStarted(q)' <=> IsStarted(q)) /\ (IsFreed(q)' <=> IsFreed(q))
  BY DEF IsStarted, IsFreed
<1>4. at \in 1 .. plan.queries + 1 /\ (at \notin Queries => at = plan.queries + 1)
  BY <1>1 DEF AtInv, Queries
<1>5. CASE StartQuery
  <2>1. /\ pc = "start" /\ at \in Queries /\ pc' = "chain" /\ UNCHANGED <<dependents, at>>
        /\ thread' = [thread EXCEPT ![Top(at)] = IF Fans THEN "spawn" ELSE "started"]
    BY <1>5 DEF StartQuery, MayStart, Queries
  <2>2. \A q \in Queries :
           /\ q # at => (IsStarted(q)' <=> IsStarted(q)) /\ (IsFreed(q)' <=> IsFreed(q))
           /\ q = at => IsStarted(q)' /\ ~IsFreed(q)'
    <3>1. \A q \in Queries : q # at => thread'[Top(q)] = thread[Top(q)]
      BY <1>1, <2>1 DEF TypeOK
    <3>2. thread'[Top(at)] \in {"spawn", "started"}  BY <1>1, <2>1 DEF TypeOK
    <3>3. QED  BY <3>1, <3>2 DEF IsStarted, IsFreed
  <2>3. AtInv'  BY <1>2, <2>1 DEF AtInv
  <2>4. StartedInv'  BY <1>1, <1>2, <2>1, <2>2 DEF StartedInv
  <2>5. DependentsInv'  BY <1>2, <2>1 DEF DependentsInv, IsChained
  <2>6. QED  BY <2>3, <2>4, <2>5
<1>6. CASE Chain
  <2>1. /\ pc = "chain" /\ at \in Queries /\ pc' = "start" /\ at' = at + 1 /\ UNCHANGED thread
        /\ dependents' = dependents \cup {Top(at)}
    BY <1>6 DEF Chain, AtInv, db
  <2>2. \A q \in Queries : IsChained(q)' <=> IsChained(q) \/ q = at
    BY <1>1, <2>1 DEF IsChained
  <2>3. \A q \in Queries : (q < at + 1 <=> q <= at) /\ (q <= at <=> q < at \/ q = at)
    BY <1>1
  <2>4. at + 1 \in 1 .. plan.queries + 1  BY <1>1, <2>1 DEF Queries
  <2>5. AtInv'  BY <1>2, <2>1, <2>4 DEF AtInv
  <2>6. StartedInv'  BY <1>2, <1>3, <2>1, <2>3 DEF StartedInv
  <2>7. DependentsInv'
    <3>1. dependents' \subseteq {Top(q) : q \in Queries}  BY <2>1 DEF DependentsInv
    <3>2. QED  BY <1>2, <2>1, <2>2, <2>3, <3>1 DEF DependentsInv
  <2>8. QED  BY <2>5, <2>6, <2>7
<1>7. CASE StartWaiting
  <2>1. /\ pc = "start" /\ ~MayStart(at) /\ pc' = "wait" /\ at' = 1
        /\ UNCHANGED <<thread, dependents>>
    BY <1>7 DEF StartWaiting, db
  <2>2. ~cancelled => \A q \in Queries : q < at
    BY <1>1, <1>4, <2>1 DEF MayStart, Queries
  <2>3. \A q \in Queries : ~(q < 1) /\ q >= 1  BY <1>1 DEF Queries
  <2>4. 1 \in 1 .. plan.queries + 1  BY <1>1
  <2>5. AtInv'  BY <1>2, <1>3, <2>1, <2>2, <2>4 DEF AtInv, StartedInv
  <2>6. StartedInv'  BY <1>2, <1>3, <2>1, <2>3 DEF StartedInv
  <2>7. DependentsInv'
    BY <1>2, <1>3, <2>1, <2>3 DEF DependentsInv, StartedInv, IsChained
  <2>8. QED  BY <2>5, <2>6, <2>7
<1>8. CASE Await
  <2>1. /\ pc = "wait" /\ pc' = "remove" /\ thread[Top(at)] = "set" /\ at \in Queries
        /\ UNCHANGED <<thread, dependents, at>>
    BY <1>8 DEF Await, Started, Queries
  <2>2. AtInv'  BY <1>2, <1>3, <2>1 DEF AtInv
  <2>3. StartedInv'  BY <1>2, <1>3, <2>1 DEF StartedInv
  <2>4. DependentsInv'  BY <1>2, <1>3, <2>1 DEF DependentsInv, IsChained
  <2>5. QED  BY <2>2, <2>3, <2>4
<1>9. CASE Remove
  <2>1. /\ pc = "remove" /\ pc' = "free" /\ at \in Queries /\ thread[Top(at)] = "set"
        /\ UNCHANGED <<thread, at>>
        /\ dependents' = dependents \ {Top(at)}
    BY <1>9 DEF Remove, db, AtInv
  <2>2. \A q \in Queries : IsChained(q)' <=> IsChained(q) /\ q # at
    BY <1>1, <2>1 DEF IsChained
  <2>3. \A q \in Queries : q > at <=> q >= at /\ q # at  BY <1>1
  <2>4. AtInv'  BY <1>2, <1>3, <2>1 DEF AtInv
  <2>5. StartedInv'  BY <1>2, <1>3, <2>1 DEF StartedInv
  <2>6. DependentsInv'
    <3>1. dependents' \subseteq {Top(q) : q \in Queries}  BY <2>1 DEF DependentsInv
    <3>2. QED  BY <1>2, <1>3, <2>1, <2>2, <2>3, <3>1 DEF DependentsInv
  <2>7. QED  BY <2>4, <2>5, <2>6
<1>10. CASE Free
  <2>1. /\ pc = "free" /\ pc' = "wait" /\ at \in Queries /\ thread[Top(at)] = "set"
        /\ at' = at + 1 /\ UNCHANGED dependents
        /\ thread' = [thread EXCEPT ![Top(at)] = "freed"]
    BY <1>10 DEF Free, AtInv
  <2>2. \A q \in Queries :
           /\ q # at => (IsStarted(q)' <=> IsStarted(q)) /\ (IsFreed(q)' <=> IsFreed(q))
           /\ q = at => IsStarted(q)' /\ IsFreed(q)' /\ IsStarted(q)
    <3>1. \A q \in Queries : q # at => thread'[Top(q)] = thread[Top(q)]
      BY <1>1, <2>1 DEF TypeOK
    <3>2. \A q \in Queries : q = at => thread'[Top(q)] = "freed" /\ thread[Top(q)] = "set"
      BY <1>1, <2>1 DEF TypeOK
    <3>3. QED  BY <3>1, <3>2 DEF IsStarted, IsFreed
  <2>3. \A q \in Queries : (q < at + 1 <=> q < at \/ q = at) /\ (q >= at + 1 <=> q > at)
                           /\ ~(at < at) /\ ~(at > at)
    BY <1>1
  <2>4. at + 1 \in 1 .. plan.queries + 1  BY <1>1, <2>1 DEF Queries
  <2>5. AtInv'  BY <1>2, <2>1, <2>2, <2>4 DEF AtInv
  <2>6. StartedInv'  BY <1>2, <2>1, <2>2, <2>3 DEF StartedInv
  <2>7. DependentsInv'  BY <1>2, <2>1, <2>2, <2>3 DEF DependentsInv, IsChained
  <2>8. QED  BY <2>5, <2>6, <2>7
<1>11. CASE Return
  <2>1. /\ pc = "wait" /\ ~Started(at) /\ pc' = "done" /\ UNCHANGED <<thread, dependents, at>>
    BY <1>11 DEF Return, NothingToAwait, db
  <2>2. ~Started(at)'  BY <1>2, <2>1 DEF Started
  <2>3. AtInv'  BY <1>2, <1>3, <2>1, <2>2 DEF AtInv
  <2>4. StartedInv'  BY <1>2, <1>3, <2>1 DEF StartedInv
  <2>5. DependentsInv'  BY <1>2, <1>3, <2>1 DEF DependentsInv, IsChained
  <2>6. QED  BY <2>3, <2>4, <2>5
<1>12. QED
  BY <1>5, <1>6, <1>7, <1>8, <1>9, <1>10, <1>11 DEF JobStep

-----------------------------------------------------------------------------
(* What Cancel is about to interrupt.                                      *)

LEMMA InitCancel == Init => CancelInv
BY DEF Init, CancelInv

\* A mutex of Cancel keeps what it is about: other threads add to it at most.
LEMMA CancelKept ==
    ASSUME CancelInv, UNCHANGED <<cancelled, cpc, todo, inside, target>>,
           todo \subseteq dependents',
           cpc = "inside" => subs[First(todo)[1]] \subseteq subs'[First(todo)[1]]
    PROVE  CancelInv'
<1>1. cpc # "inside" => CancelInv'  BY DEF CancelInv
<1>2. cpc = "inside" => CancelInv'  BY DEF CancelInv
<1>3. QED  BY <1>1, <1>2

LEMMA CancelJob ==
    ASSUME TypeOK, CancelInv, JobStep
    PROVE  CancelInv'
<1>1. UNCHANGED <<cancelled, cpc, todo, inside, target, subs>>
  BY DEF JobStep, StartQuery, Chain, StartWaiting, Await, Remove, Free, Return, db, cancel
<1>2. todo \subseteq dependents'
  <2>1. CASE Remove
    <3>1. cpc \in {"idle", "flagged", "done"}  BY <2>1 DEF Remove, ControllerLocked, TypeOK
    <3>2. QED  BY <3>1 DEF CancelInv
  <2>2. CASE ~Remove
    BY <2>2 DEF CancelInv, JobStep, StartQuery, Chain, StartWaiting, Await, Free, Return
  <2>3. QED  BY <2>1, <2>2
<1>3. QED  BY <1>1, <1>2, CancelKept

LEMMA CancelLeaf ==
    ASSUME TypeOK, ThreadInv, CancelInv, NEW f \in Futures, LeafStep(f)
    PROVE  CancelInv'
<1>1. UNCHANGED <<cancelled, cpc, todo, inside, target, subs, dependents>>
  BY LeafEffect DEF ThreadInv
<1>2. todo \subseteq dependents'  BY <1>1 DEF CancelInv
<1>3. QED  BY <1>1, <1>2, CancelKept

\* The next dependent of Cancel is a query of the plan.
LEMMA NextDependent ==
    ASSUME TypeOK, DependentsInv, CancelInv, cpc = "inside"
    PROVE  /\ First(todo) \in todo /\ First(todo)[1] \in Queries
           /\ First(todo) = Top(First(todo)[1])
<1>1. todo # {} /\ todo \in SUBSET Futures  BY DEF CancelInv, TypeOK
<1>2. First(todo) \in todo  BY <1>1, FirstIn
<1>3. PICK q \in Queries : First(todo) = Top(q)  BY <1>2 DEF CancelInv, DependentsInv
<1>4. Top(q)[1] = q  BY PlanFutures DEF TypeOK
<1>5. QED  BY <1>2, <1>3, <1>4

LEMMA CancelFan ==
    ASSUME TypeOK, ThreadInv, DependentsInv, CancelInv, NEW q \in Queries, FanStep(q)
    PROVE  CancelInv'
<1>1. UNCHANGED <<cancelled, cpc, todo, inside, target, dependents>>  BY FanEffect
<1>2. ASSUME cpc = "inside"
      PROVE  subs[First(todo)[1]] \subseteq subs'[First(todo)[1]]
  <2> DEFINE r == First(todo)[1]
  <2>1. r \in Queries /\ First(todo) = Top(r)  BY <1>2, NextDependent
  <2>2. r \in {f[1] : f \in Futures} /\ q \in {f[1] : f \in Futures}
    BY <2>1, PlanFutures DEF TypeOK
  <2> HIDE DEF r
  <2>3. CASE Register(q)
    <3>1. PICK f \in Subs(q) : subs' = [subs EXCEPT ![q] = @ \cup {f}]  BY <2>3, RegisterFirst
    <3>2. subs[r] \subseteq subs'[r]  BY <2>2, <3>1 DEF TypeOK
    <3>3. QED  BY <3>2 DEF r
  <2>4. CASE Reap(q)
    <3>1. ~Locked(Top(q))  BY <2>4 DEF Reap
    <3>2. r # q  BY <1>2, <2>1, <3>1 DEF Locked
    <3>3. PICK f \in Subs(q) : subs' = [subs EXCEPT ![q] = @ \ {f}]  BY <2>4, ReapFirst
    <3>4. subs'[r] = subs[r]  BY <2>2, <3>2, <3>3 DEF TypeOK
    <3>5. QED  BY <3>4 DEF r
  <2>5. CASE Launch(q) \/ Deliver(q)
    <3>1. subs' = subs  BY <2>5 DEF Launch, Deliver
    <3>2. QED  BY <3>1
  <2>6. CASE FailLaunch(q)
    <3>1. ~Locked(Top(q))  BY <2>6 DEF FailLaunch
    <3>2. r # q  BY <1>2, <2>1, <3>1 DEF Locked
    <3>3. PICK f \in Subs(q) : subs' = [subs EXCEPT ![q] = @ \ {f}]  BY <2>6 DEF FailLaunch
    <3>4. subs'[r] = subs[r]  BY <2>2, <3>2, <3>3 DEF TypeOK
    <3>5. QED  BY <3>4 DEF r
  <2>7. QED  BY <2>3, <2>4, <2>5, <2>6 DEF FanStep
<1>3. todo \subseteq dependents'  BY <1>1 DEF CancelInv
<1>4. QED  BY <1>1, <1>2, <1>3, CancelKept

LEMMA CancelCancel ==
    ASSUME TypeOK, CancelInv, CancelFlag \/ CancelStep
    PROVE  CancelInv'
<1>1. UNCHANGED <<dependents, subs>>
  BY DEF CancelFlag, CancelStep, CancelLock, CancelNext, CancelStatement, CancelRaise, CancelEnd,
         job, db
<1>2. None \notin Futures  BY NoneIsNoFuture
<1>3. CASE CancelFlag  BY <1>1, <1>3 DEF CancelFlag, CancelInv
<1>4. CASE CancelLock
  <2>1. /\ cpc = "flagged" /\ cpc' = "loop" /\ todo' = dependents
        /\ UNCHANGED <<cancelled, inside, target>>
    BY <1>4 DEF CancelLock
  <2>2. QED  BY <1>1, <2>1 DEF CancelInv
<1>5. CASE CancelNext
  <2>1. todo # {} /\ target = None /\ UNCHANGED <<cancelled, todo, target>>
        /\ cpc = "loop" /\ cpc' = "inside"
        /\ inside' = subs[First(todo)[1]] \cup {First(todo)}
    BY <1>5 DEF CancelNext, CancelInv
  <2>2. First(todo) \in Futures  BY <2>1, FirstIn DEF TypeOK
  <2>3. First(todo)' = First(todo)  BY <2>1
  <2>4. None # First(todo)  BY <1>2, <2>2
  <2>5. QED  BY <1>1, <2>1, <2>3, <2>4 DEF CancelInv
<1>6. CASE CancelStatement
  <2>1. /\ cpc = "inside" /\ UNCHANGED <<cancelled, cpc, todo, inside>>
        /\ target' \in inside /\ (target' = First(todo) => inside = {target'})
    BY <1>6, NextTarget DEF CancelStatement
  <2>2. First(todo)' = First(todo)  BY <2>1
  <2>3. QED  BY <1>1, <2>1, <2>2 DEF CancelInv
<1>7. CASE CancelRaise
  <2>1. /\ cpc = "inside" /\ target \in inside /\ UNCHANGED cancelled
        /\ inside' = inside \ {target} /\ target' = None
        /\ todo' = IF target = First(todo) THEN todo \ {target} ELSE todo
        /\ cpc' = IF target = First(todo) THEN "loop" ELSE "inside"
    BY <1>7 DEF CancelRaise, CancelInv
  <2>2. CASE target = First(todo)
    <3>1. inside = {target}  BY <2>1, <2>2 DEF CancelInv
    <3>2. QED  BY <1>1, <2>1, <2>2, <3>1 DEF CancelInv
  <2>3. CASE target # First(todo)
    <3>1. todo' = todo /\ First(todo)' = First(todo) /\ cpc' = "inside"  BY <2>1, <2>3
    <3>2. None # First(todo)
      <4>1. First(todo) \in todo  BY <2>1, FirstIn DEF CancelInv, TypeOK
      <4>2. QED  BY <1>2, <4>1 DEF TypeOK
    <3>3. QED  BY <1>1, <2>1, <2>3, <3>1, <3>2 DEF CancelInv
  <2>4. QED  BY <2>2, <2>3
<1>8. CASE CancelEnd  BY <1>1, <1>8 DEF CancelEnd, CancelInv
<1>9. QED  BY <1>3, <1>4, <1>5, <1>6, <1>7, <1>8 DEF CancelStep

-----------------------------------------------------------------------------
(* Connections and interruptions.                                          *)

LEMMA InitConn == Init => ConnInv
BY DEF Init, ConnInv, Holding, StopsOnlyItsOwn

LEMMA ConnKept ==
    ASSUME ConnInv, UNCHANGED <<conn, stopped, target>>,
           \A f \in Futures : /\ thread'[f] \in Holding => thread[f] \in Holding
                              /\ stopped[f] => thread'[f] \in {"linked", "active", "ending", "unlinked", "set", "freed"}
                              /\ Running(f)' => Running(f) /\ (interrupted[f] => interrupted'[f])
    PROVE  ConnInv'
BY DEF ConnInv, StopsOnlyItsOwn, Holding

LEMMA ConnJob ==
    ASSUME TypeOK, AtInv, StartedInv, ConnInv, JobStep
    PROVE  ConnInv'
<1>1. UNCHANGED <<conn, stopped, target>>
  BY DEF JobStep, StartQuery, Chain, StartWaiting, Await, Remove, Free, Return, db, cancel
<1>2. ASSUME NEW f \in Futures
      PROVE  /\ thread'[f] \in Holding => thread[f] \in Holding
             /\ stopped[f] => thread'[f] \in {"linked", "active", "ending", "unlinked", "set", "freed"}
             /\ Running(f)' => Running(f) /\ (interrupted[f] => interrupted'[f])
  <2>1. CASE thread'[f] = thread[f]
    <3>1. Running(f) => (interrupted[f] => interrupted'[f])
      BY DEF JobStep, StartQuery, Chain, StartWaiting, Await, Remove, Free, Return, db, Running, TypeOK
    <3>2. QED  BY <2>1, <3>1 DEF ConnInv, Running
  <2>2. CASE thread'[f] # thread[f]
    <3>1. \/ thread[f] = "none" /\ thread'[f] \in {"spawn", "started"}
          \/ thread[f] = "set" /\ thread'[f] = "freed"
      BY <2>2, JobThreads DEF TypeOK
    <3>2. QED  BY <3>1 DEF ConnInv, Running, Holding
  <2>3. QED  BY <2>1, <2>2
<1>3. QED  BY <1>1, <1>2, ConnKept

LEMMA ConnFan ==
    ASSUME TypeOK, ThreadInv, ConnInv, NEW q \in Queries, FanStep(q)
    PROVE  ConnInv'
<1>1. UNCHANGED <<conn, stopped, target, interrupted>>  BY FanEffect
<1>2. ASSUME NEW f \in Futures
      PROVE  /\ thread'[f] \in Holding => thread[f] \in Holding
             /\ stopped[f] => thread'[f] \in {"linked", "active", "ending", "unlinked", "set", "freed"}
             /\ Running(f)' => Running(f) /\ (interrupted[f] => interrupted'[f])
  <2>1. CASE f = Top(q)
    <3>1. thread[f] \in {"spawn", "reap"} /\ thread'[f] \in {"spawn", "reap", "set"}
      BY <2>1, FanEffect
    <3>2. QED  BY <3>1 DEF ConnInv, Running, Holding
  <2>2. CASE f # Top(q)
    <3>1. \/ thread'[f] = thread[f]
          \/ thread[f] = "none" /\ thread'[f] = "registered"
          \/ thread[f] = "registered" /\ thread'[f] \in {"started", "freed"}
          \/ thread[f] = "set" /\ thread'[f] = "freed"
      BY <2>2, FanEffect
    <3>2. QED  BY <1>1, <3>1 DEF ConnInv, Running, Holding
  <2>3. QED  BY <2>1, <2>2
<1>3. QED  BY <1>1, <1>2, ConnKept

LEMMA ConnLeaf ==
    ASSUME TypeOK, ThreadInv, ConnInv, NEW f \in Futures, LeafStep(f)
    PROVE  ConnInv'
<1>1. /\ UNCHANGED <<interrupted, stopped, target>>
      /\ \A g \in Futures : g # f => thread'[g] = thread[g]
  BY LeafEffect DEF ThreadInv, TypeOK
<1>2. CASE Connect(f)
  <2>1. (CHOOSE c \in FreeConnections : TRUE) \in FreeConnections  BY <1>2 DEF Connect
  <2>2. PICK c \in FreeConnections : conn' = [conn EXCEPT ![f] = c]  BY <1>2, <2>1 DEF Connect
  <2>3. thread[f] = "started" /\ thread'[f] = "connected"  BY <1>2 DEF Connect, TypeOK
  <2>4. conn'[f] = c /\ \A g \in Futures : g # f => conn'[g] = conn[g]  BY <2>2 DEF TypeOK
  <2>5. \A g \in Futures : g # f /\ thread'[g] \in Holding => conn'[g] # c
    BY <1>1, <2>2, <2>4 DEF FreeConnections
  <2>6. ~stopped[f]  BY <2>3 DEF ConnInv
  <2>7. QED  BY <1>1, <2>3, <2>4, <2>5, <2>6 DEF ConnInv, StopsOnlyItsOwn, Running
<1>3. CASE Disconnect(f)
  <2>1. thread[f] = "unlinked" /\ thread'[f] = "set"  BY <1>3 DEF Disconnect, TypeOK
  <2>2. \A g \in Futures : g # f => conn'[g] = conn[g]  BY <1>3 DEF Disconnect, TypeOK
  <2>3. QED  BY <1>1, <2>1, <2>2 DEF ConnInv, StopsOnlyItsOwn, Running, Holding
<1>4. CASE Link(f) \/ TakeRow(f) \/ RefuseRow(f) \/ EndRows(f) \/ Unlink(f)
  <2>1. UNCHANGED conn
    BY <1>4 DEF Link, TakeRow, RefuseRow, EndRows, Unlink
  <2>2. /\ thread[f] \in Holding
        /\ stopped[f] => thread'[f] \in {"linked", "active", "ending", "unlinked", "set", "freed"}
        /\ Running(f)' => Running(f) \/ ~stopped[f]
    BY <1>4 DEF Link, TakeRow, RefuseRow, EndRows, Unlink, Running, Holding, TypeOK, ConnInv
  <2>3. QED  BY <1>1, <2>1, <2>2 DEF ConnInv, StopsOnlyItsOwn, Running
<1>5. QED  BY <1>2, <1>3, <1>4 DEF LeafStep

LEMMA ConnCancel ==
    ASSUME TypeOK, CancelInv, ConnInv, CancelFlag \/ CancelStep
    PROVE  ConnInv'
<1>1. UNCHANGED <<thread, conn>>
  BY DEF CancelFlag, CancelStep, CancelLock, CancelNext, CancelStatement, CancelRaise, CancelEnd, db
<1>2. CASE CancelStatement
  <2>1. UNCHANGED interrupted /\ target = None /\ target' \in Futures
    BY <1>2, NextTarget DEF CancelStatement, TypeOK
  <2>2. \A f \in Futures : stopped'[f] =>
           stopped[f] \/ (Linked(target') /\ conn[f] = conn[target'] /\ thread[f] \in {"linked", "active"})
    <3> DEFINE on == {f \in Futures : Linked(target') /\ conn[f] = conn[target']}
    <3>1. \E early \in SUBSET {f \in on : thread[f] = "linked"} :
             stopped' = [f \in Futures |->
                            \/ stopped[f]
                            \/ f \in early
                            \/ f \in on /\ thread[f] = "active"]
      BY <1>2 DEF CancelStatement
    <3>2. PICK early \in SUBSET {f \in on : thread[f] = "linked"} :
             stopped' = [f \in Futures |->
                            \/ stopped[f]
                            \/ f \in early
                            \/ f \in on /\ thread[f] = "active"]
      BY <3>1
    <3>3. QED  BY <3>2
  <2>3. \A f \in Futures :
           stopped'[f] => stopped[f] \/ (f = target' /\ thread[f] \in {"linked", "active"})
    <3>1. TAKE f \in Futures
    <3>2. Linked(target') /\ conn[f] = conn[target'] /\ thread[f] \in {"linked", "active"} => f = target'
      BY <2>1 DEF ConnInv, Linked, Holding
    <3>3. QED  BY <2>2, <3>2
  <2>4. \A f \in Futures : f # None  BY NoneIsNoFuture
  <2>5. QED  BY <1>1, <2>1, <2>3, <2>4 DEF ConnInv, StopsOnlyItsOwn, Running
<1>3. CASE CancelRaise
  <2>1. UNCHANGED stopped  BY <1>3 DEF CancelRaise
  <2>2. \A f \in Futures : interrupted[f] \/ target = f => interrupted'[f]
    BY <1>3 DEF CancelRaise, TypeOK
  <2>3. QED  BY <1>1, <2>1, <2>2 DEF ConnInv, StopsOnlyItsOwn, Running
<1>4. CASE CancelFlag \/ CancelLock \/ CancelNext \/ CancelEnd
  <2>1. UNCHANGED <<interrupted, stopped, target>>
    BY <1>4 DEF CancelFlag, CancelLock, CancelNext, CancelEnd, db
  <2>2. QED  BY <1>1, <2>1 DEF ConnInv, StopsOnlyItsOwn, Running
<1>5. QED  BY <1>2, <1>3, <1>4 DEF CancelStep

-----------------------------------------------------------------------------
(* Complete answers.                                                       *)

LEMMA InitQuiet == Init => QuietInv
BY DEF Init, QuietInv, FansTold, SuccessIsComplete

\* Every future of the plan is the one of a query or a sub-future of it.
LEMMA TopOrSub ==
    ASSUME TypeOK, PlanInv, NEW f \in Futures, thread[f] # "none"
    PROVE  \E q \in Queries : f = Top(q) \/ f \in Subs(q)
<1>1. f = <<f[1], f[2]>> /\ f[1] \in Queries /\ f[2] \in 0 .. plan.subs
  BY FutureShape DEF PlanInv
<1>2. plan.subs \in Nat  BY PlanFutures DEF TypeOK
<1>3. CASE f[2] = 0  BY <1>1, <1>3 DEF Top
<1>4. CASE f[2] # 0
  <2>1. f[2] \in 1 .. plan.subs  BY <1>1, <1>2, <1>4
  <2>2. <<f[1], f[2]>> \in Subs(f[1])  BY <2>1 DEF Subs
  <2>3. QED  BY <1>1, <2>2
<1>5. QED  BY <1>3, <1>4

\* A query that was freed has taken every sub-future of its own along.
LEMMA FreedWhole ==
    ASSUME ThreadInv, NEW q \in Queries, IsFreed(q), NEW f \in Subs(q)
    PROVE  thread[f] \in {"none", "freed"} /\ (status[Top(q)] = "Success" => thread[f] = "freed")
BY DEF ThreadInv, FanInv, IsFreed

\* What a job that ends has started, it has freed.
LEMMA EndFreed ==
    ASSUME TypeOK, JobInv, pc \in {"wait", "done"}, ~Started(at), NEW q \in Queries, IsStarted(q)
    PROVE  IsFreed(q) /\ ~IsChained(q)
<1>1. q \in Nat /\ at \in Nat /\ plan.queries \in Nat  BY PlanFutures DEF TypeOK, Queries
<1>2. at \in Queries => ~IsStarted(at)  BY DEF Started, IsStarted, Queries
<1>3. q < at
  <2>1. CASE at \in Queries  BY <1>1, <1>2, <2>1 DEF JobInv, StartedInv
  <2>2. CASE at \notin Queries  BY <1>1, <2>2 DEF JobInv, AtInv, Queries
  <2>3. QED  BY <2>1, <2>2
<1>4. ~(q >= at)  BY <1>1, <1>3
<1>5. QED  BY <1>3, <1>4 DEF JobInv, StartedInv, DependentsInv

LEMMA QuietReturn ==
    ASSUME TypeOK, ThreadInv, JobInv, QuietInv, Return
    PROVE  SuccessIsComplete'
<1>1. pc = "wait" /\ ~Started(at) /\ result' = Outcome /\ UNCHANGED <<plan, rows>>
  BY DEF Return, NothingToAwait, db
<1>2. SUFFICES ASSUME result' = "Success", NEW q \in Queries, NEW f \in {Top(q)} \cup Subs(q), Leaf(f)
               PROVE  rows[f] = Rows
  BY <1>1 DEF SuccessIsComplete, Queries, Subs, Leaf, Fans
<1>3. ~cancelled  BY <1>1, <1>2 DEF Outcome
<1>4. IsStarted(q)  BY <1>1, <1>3 DEF JobInv, AtInv
<1>5. IsFreed(q)  BY <1>1, <1>4, EndFreed
<1>6. f \in Futures /\ f[1] = q  BY PlanFutures DEF TypeOK
<1>7. CASE f = Top(q)
  <2>1. thread[f] = "freed" /\ f[2] = 0  BY <1>5, <1>7, PlanFutures DEF IsFreed, TypeOK
  <2>2. QED  BY <1>2, <1>3, <1>6, <2>1 DEF QuietInv, NotLaunched
<1>8. CASE f \in Subs(q)
  <2>1. Fans /\ q = 1
    <3>1. Fans  BY <1>8, PlanFutures DEF Fans, Subs, TypeOK
    <3>2. plan.queries = 1  BY <3>1, PlansAssumption DEF Fans, TypeOK
    <3>3. QED  BY <3>1, <3>2 DEF Queries
  <2>2. result = "Success"  BY <1>1, <1>2, <1>3 DEF Outcome
  <2>3. status[Top(q)] = "Success"  BY <2>1, <2>2 DEF QuietInv, FansTold
  <2>4. thread[f] = "freed"  BY <1>5, <1>8, <2>3, FreedWhole
  <2>5. QED  BY <1>2, <1>3, <1>6, <2>3, <2>4 DEF QuietInv, NotLaunched
<1>9. QED  BY <1>7, <1>8

LEMMA QuietJob ==
    ASSUME TypeOK, ThreadInv, JobInv, QuietInv, JobStep
    PROVE  QuietInv'
<1>1. UNCHANGED <<plan, cancelled, stopped, rows, status>>
  BY DEF JobStep, StartQuery, Chain, StartWaiting, Await, Remove, Free, Return, db, cancel
<1>2. \A f \in Futures : interrupted'[f] => interrupted[f]
  BY DEF JobStep, StartQuery, Chain, StartWaiting, Await, Remove, Free, Return, db, TypeOK
<1>3. ASSUME NEW f \in Futures, thread'[f] \in {"ending", "unlinked", "set", "freed"}
      PROVE  thread[f] \in {"ending", "unlinked", "set", "freed"}
  BY <1>3, JobThreads DEF JobInv, TypeOK
<1>4. SuccessIsComplete'
  <2>1. CASE Return  BY <2>1, QuietReturn
  <2>2. CASE ~Return
    <3>1. pc' # "done"
      BY <2>2 DEF JobStep, StartQuery, Chain, StartWaiting, Await, Remove, Free
    <3>2. QED  BY <3>1 DEF SuccessIsComplete
  <2>3. QED  BY <2>1, <2>2
<1>5. \A f \in Futures : Leaf(f)' = Leaf(f) /\ NotLaunched(f)' = NotLaunched(f)
  BY <1>1 DEF Leaf, Fans, NotLaunched
<1>6. FansTold'
  <2>1. SUFFICES ASSUME Fans, result' = "Success"
                 PROVE  thread'[Top(1)] \in {"set", "freed"} /\ status[Top(1)] = "Success"
    BY <1>1 DEF FansTold, Fans
  <2>2. plan.queries = 1  BY <2>1, PlansAssumption DEF Fans, TypeOK
  <2>3. 1 \in Queries /\ Top(1) \in Futures  BY <2>2, PlanFutures DEF Queries, TypeOK
  <2>4. CASE Await
    <3>1. at = 1  BY <2>2, <2>4 DEF Await, Started
    <3>2. QED  BY <2>1, <2>4, <3>1 DEF Await
  <2>5. CASE ~Await
    <3>1. result = "Success"
      BY <2>1, <2>5 DEF JobStep, StartQuery, Chain, StartWaiting, Remove, Free, Return, Outcome
    <3>2. thread[Top(1)] \in {"set", "freed"} /\ status[Top(1)] = "Success"
      BY <2>1, <3>1 DEF QuietInv, FansTold
    <3>3. thread'[Top(1)] \in {"set", "freed"}
      BY <2>3, <3>2, JobThreads DEF JobInv, TypeOK
    <3>4. QED  BY <3>2, <3>3
  <2>6. QED  BY <2>4, <2>5
<1>7. QED  BY <1>1, <1>2, <1>3, <1>4, <1>5, <1>6 DEF QuietInv

\* A job that has ended with every row keeps them.
LEMMA CompleteKept ==
    ASSUME TypeOK, SuccessIsComplete, UNCHANGED <<plan, pc, result>>,
           \A f \in Futures : rows[f] = Rows => rows'[f] = Rows
    PROVE  SuccessIsComplete'
<1>1. \A q \in Queries : \A f \in {Top(q)} \cup Subs(q) : f \in Futures
  BY PlanFutures DEF TypeOK
<1>2. QED  BY <1>1 DEF SuccessIsComplete, Queries, Subs, Leaf, Fans

LEMMA QuietLeaf ==
    ASSUME TypeOK, ThreadInv, QuietInv, NEW f \in Futures, LeafStep(f)
    PROVE  QuietInv'
<1>1. /\ UNCHANGED <<plan, pc, result, cancelled, interrupted, stopped>>
      /\ \A g \in Futures : g # f => thread'[g] = thread[g]
  BY LeafEffect DEF ThreadInv, TypeOK
<1>2. \A g \in Futures : rows[g] = Rows => rows'[g] = Rows
  <2>1. CASE TakeRow(f)
    <3>1. rows' = [rows EXCEPT ![f] = @ + 1] /\ rows[f] < Rows  BY <2>1 DEF TakeRow
    <3>2. rows[f] # Rows  BY <3>1, PlansAssumption
    <3>3. \A g \in Futures : g # f => rows'[g] = rows[g]  BY <3>1 DEF TypeOK
    <3>4. QED  BY <3>2, <3>3
  <2>2. CASE ~TakeRow(f)
    <3>1. UNCHANGED rows
      BY <2>2 DEF LeafStep, Connect, Link, RefuseRow, EndRows, Unlink, Disconnect
    <3>2. QED  BY <3>1
  <2>3. QED  BY <2>1, <2>2
<1>3. SuccessIsComplete'  BY <1>1, <1>2, CompleteKept DEF QuietInv
<1>4. \A g \in Futures : Leaf(g)' = Leaf(g)  BY <1>1 DEF Leaf, Fans
<1>5. /\ \A g \in Futures : g # f => status'[g] = status[g]
      /\ status[f] = "Failed" => status'[f] = "Failed"
  BY LeafEffect DEF ThreadInv
<1>6. ASSUME NEW g \in Futures, thread[g] # "none", NotLaunched(g) PROVE NotLaunched(g)'
  <2>1. Top(g[1]) \in Futures  BY <1>6, PlanFutures DEF ThreadInv, PlanInv, TypeOK
  <2>2. QED  BY <1>5, <1>6, <2>1 DEF NotLaunched
<1>7. ASSUME ~cancelled, thread'[f] \in {"ending", "unlinked", "set", "freed"}
      PROVE  rows'[f] = Rows \/ NotLaunched(f)'
  <2>1. ~stopped[f] /\ ~interrupted[f] /\ Leaf(f)
    BY <1>7, LeafEffect DEF QuietInv, ThreadInv
  <2>2. CASE EndRows(f)  BY <2>1, <2>2 DEF EndRows
  <2>3. CASE Unlink(f) \/ Disconnect(f)
    <3>1. thread[f] \in {"ending", "unlinked"} /\ rows'[f] = rows[f]
      BY <2>3 DEF Unlink, Disconnect
    <3>2. rows[f] = Rows \/ NotLaunched(f)  BY <1>7, <2>1, <3>1 DEF QuietInv
    <3>3. QED  BY <1>6, <3>1, <3>2
  <2>4. CASE Connect(f) \/ Link(f) \/ TakeRow(f) \/ RefuseRow(f)
    BY <1>7, <2>1, <2>4 DEF Connect, Link, TakeRow, RefuseRow, TypeOK
  <2>5. QED  BY <2>2, <2>3, <2>4 DEF LeafStep
<1>8. FansTold'
  <2>1. SUFFICES ASSUME Fans, result = "Success"
                 PROVE  thread'[Top(1)] \in {"set", "freed"} /\ status'[Top(1)] = "Success"
    BY <1>1 DEF FansTold, Fans
  <2>2. 1 \in Queries  BY PlanFutures DEF Queries, TypeOK
  <2>3. Top(1) \in Futures /\ ~Leaf(Top(1))
    BY <2>1, <2>2, PlanFutures DEF Leaf, TypeOK
  <2>4. Top(1) # f  BY <2>3, LeafEffect DEF ThreadInv
  <2>5. QED  BY <1>1, <1>5, <2>1, <2>3, <2>4 DEF QuietInv, FansTold
<1>9. QED  BY <1>1, <1>2, <1>3, <1>4, <1>6, <1>7, <1>8 DEF QuietInv

LEMMA QuietFan ==
    ASSUME TypeOK, ThreadInv, QuietInv, NEW q \in Queries, FanStep(q)
    PROVE  QuietInv'
<1>1. UNCHANGED <<plan, pc, result, cancelled, interrupted, stopped, rows>>  BY FanEffect
<1>2. SuccessIsComplete'  BY <1>1, CompleteKept DEF QuietInv
<1>3. \A g \in Futures : status[g] = "Failed" => status'[g] = "Failed"
  <2>1. CASE FailLaunch(q)  BY <2>1 DEF FailLaunch, TypeOK
  <2>2. CASE Reap(q)  BY <2>2 DEF Reap, TypeOK
  <2>3. CASE Register(q) \/ Launch(q) \/ Deliver(q)  BY <2>3 DEF Register, Launch, Deliver
  <2>4. QED  BY <2>1, <2>2, <2>3 DEF FanStep
<1>4. ASSUME NEW f \in Futures, Leaf(f), thread'[f] \in {"ending", "unlinked", "set", "freed"}
      PROVE  thread[f] \in {"ending", "unlinked", "set", "freed"} \/ NotLaunched(f)'
  <2>1. thread[Top(q)] \in {"spawn", "reap"}  BY FanEffect
  <2>2. f # Top(q)  BY <1>4, <2>1 DEF ThreadInv, KindInv
  <2>3. CASE thread[f] = "registered" /\ thread'[f] = "freed"
    <3>1. FailLaunch(q)
      <4>1. ~Register(q)
        <5>1. SUFFICES ASSUME Register(q) PROVE FALSE  OBVIOUS
        <5>2. PICK g \in Subs(q) : thread[g] = "none" /\ thread' = [thread EXCEPT ![g] = "registered"]
          BY <5>1, RegisterFirst
        <5>3. QED  BY <2>3, <5>2 DEF TypeOK
      <4>2. ~Launch(q)
        <5>1. SUFFICES ASSUME Launch(q) PROVE FALSE  OBVIOUS
        <5>2. PICK g \in Subs(q) :
                 thread' = [thread EXCEPT ![g] = "started",
                                          ![Top(q)] = IF g[2] = plan.subs THEN "reap" ELSE @]
          BY <5>1 DEF Launch
        <5>3. QED  BY <2>2, <2>3, <5>2 DEF TypeOK
      <4>3. ~Reap(q)
        <5>1. SUFFICES ASSUME Reap(q) PROVE FALSE  OBVIOUS
        <5>2. PICK g \in Subs(q) : thread[g] = "set" /\ thread' = [thread EXCEPT ![g] = "freed"]
          BY <5>1, ReapFirst
        <5>3. QED  BY <2>3, <5>2 DEF TypeOK
      <4>4. ~Deliver(q)  BY <2>2, <2>3 DEF Deliver, TypeOK
      <4>5. QED  BY <4>1, <4>2, <4>3, <4>4 DEF FanStep
    <3>2. PICK g \in Subs(q) :
             /\ thread' = [thread EXCEPT ![g] = "freed", ![Top(q)] = "reap"]
             /\ status' = [status EXCEPT ![Top(q)] = "Failed"]
      BY <3>1 DEF FailLaunch
    <3>3. f = g  BY <2>2, <2>3, <3>2 DEF TypeOK
    <3>4. f[1] = q /\ f[2] > 0 /\ Top(q) \in Futures  BY <3>3, PlanFutures DEF TypeOK
    <3>5. status'[Top(q)] = "Failed"  BY <3>2, <3>4 DEF TypeOK
    <3>6. QED  BY <3>4, <3>5 DEF NotLaunched, Top
  <2>4. QED  BY <1>4, <2>2, <2>3, FanEffect
<1>5. \A f \in Futures : Leaf(f)' = Leaf(f)  BY <1>1 DEF Leaf, Fans
<1>6. ASSUME NEW g \in Futures, thread[g] # "none", NotLaunched(g) PROVE NotLaunched(g)'
  <2>1. Top(g[1]) \in Futures  BY <1>6, PlanFutures DEF ThreadInv, PlanInv, TypeOK
  <2>2. QED  BY <1>3, <1>6, <2>1 DEF NotLaunched
<1>7. FansTold'
  <2>1. thread[Top(q)] \in {"spawn", "reap"}  BY FanEffect
  <2>2. ~Leaf(Top(q)) /\ Top(q)[2] = 0  BY <2>1, PlanFutures DEF ThreadInv, KindInv, TypeOK
  <2>3. Fans  BY <2>2 DEF Leaf
  <2>4. plan.queries = 1  BY <2>3, PlansAssumption DEF Fans, TypeOK
  <2>5. q = 1  BY <2>4 DEF Queries
  <2>6. result # "Success"  BY <2>1, <2>3, <2>5 DEF QuietInv, FansTold
  <2>7. QED  BY <1>1, <2>6 DEF FansTold
<1>8. QED  BY <1>1, <1>2, <1>4, <1>5, <1>6, <1>7 DEF QuietInv

LEMMA QuietCancel ==
    ASSUME TypeOK, CancelInv, QuietInv, CancelFlag \/ CancelStep
    PROVE  QuietInv'
<1>1. UNCHANGED <<plan, pc, result, rows>>
  BY DEF CancelFlag, CancelStep, CancelLock, CancelNext, CancelStatement, CancelRaise, CancelEnd,
         job, db
<1>2. SuccessIsComplete'  BY <1>1, CompleteKept DEF QuietInv
<1>3. cancelled'
  <2>1. CASE CancelFlag  BY <2>1 DEF CancelFlag
  <2>2. CASE CancelStep
    BY <2>2 DEF CancelInv, CancelStep, CancelLock, CancelNext, CancelStatement, CancelRaise, CancelEnd
  <2>3. QED  BY <2>1, <2>2
<1>4. FansTold'
  <2>1. UNCHANGED <<thread, status>>
    BY DEF CancelFlag, CancelStep, CancelLock, CancelNext, CancelStatement, CancelRaise, CancelEnd,
           db
  <2>2. QED  BY <1>1, <2>1 DEF QuietInv, FansTold, Fans
<1>5. QED  BY <1>2, <1>3, <1>4 DEF QuietInv

-----------------------------------------------------------------------------
(* What a cancellation misses.                                             *)

LEMMA InitEscape == Init => EscapeInv
BY DEF Init, EscapeInv

\* No step but the start of a query adds to what the loop of Cancel has missed.
LEMMA EscapeKept ==
    ASSUME EscapeInv, UNCHANGED plan,
           cpc' \in {"loop", "inside", "done"} => cpc \in {"loop", "inside", "done"},
           \A q \in Queries : Missed(q)' => Missed(q)
    PROVE  EscapeInv'
BY DEF EscapeInv, Queries

LEMMA EscapeJob ==
    ASSUME TypeOK, JobInv, CancelInv, EscapeInv, JobStep
    PROVE  EscapeInv'
<1>1. UNCHANGED <<plan, cancelled, cpc, todo>>
  BY DEF JobStep, StartQuery, Chain, StartWaiting, Await, Remove, Free, Return, cancel
<1>2. CASE Fans
  <2>1. plan.queries = 1  BY <1>2, PlansAssumption DEF Fans, TypeOK
  <2>2. QED  BY <1>1, <2>1 DEF EscapeInv, Queries
<1>3. CASE cpc \notin {"loop", "inside", "done"}  BY <1>1, <1>3 DEF EscapeInv
<1>4. CASE ~Fans /\ cpc \in {"loop", "inside", "done"}
  <2>1. cancelled  BY <1>4 DEF CancelInv
  <2>2. ~StartQuery  BY <1>4, <2>1 DEF StartQuery, MayStart
  <2>3. ASSUME NEW q \in Queries, Missed(q)' PROVE Missed(q)
    <3>1. Top(q) \in Futures  BY PlanFutures DEF TypeOK
    <3>2. thread'[Top(q)] = thread[Top(q)]
      <4>1. \/ thread' = thread
            \/ /\ at \in Queries /\ thread' = [thread EXCEPT ![Top(at)] = "freed"]
        BY <2>2, JobThreads DEF StartQuery, JobStep, Chain, StartWaiting, Await, Remove, Free,
                                Return, JobInv
      <4>2. QED  BY <2>3, <3>1, <4>1 DEF Missed, TypeOK
    <3>3. thread[Top(q)] # "set" => interrupted'[Top(q)] = interrupted[Top(q)]
      <4>1. CASE Await
        <5>1. thread[Top(at)] = "set" /\ interrupted' = [interrupted EXCEPT ![Top(at)] = FALSE]
          BY <4>1 DEF Await
        <5>2. QED  BY <3>1, <5>1 DEF TypeOK
      <4>2. CASE ~Await
        BY <4>2 DEF JobStep, StartQuery, Chain, StartWaiting, Remove, Free, Return, db
      <4>3. QED  BY <4>1, <4>2
    <3>4. QED  BY <1>1, <2>3, <3>2, <3>3 DEF Missed
  <2>4. QED  BY <1>1, <2>3, EscapeKept
<1>5. QED  BY <1>2, <1>3, <1>4

LEMMA EscapeLeaf ==
    ASSUME TypeOK, ThreadInv, EscapeInv, NEW f \in Futures, LeafStep(f)
    PROVE  EscapeInv'
<1>1. /\ UNCHANGED <<plan, cpc, todo, interrupted>> /\ thread[f] \in Working
      /\ \A g \in Futures : g # f => thread'[g] = thread[g]
  BY LeafEffect DEF ThreadInv, TypeOK
<1>2. ASSUME NEW q \in Queries, Missed(q)' PROVE Missed(q)
  <2>1. Top(q) \in Futures  BY PlanFutures DEF TypeOK
  <2>2. QED  BY <1>1, <1>2, <2>1 DEF Missed, Working
<1>3. QED  BY <1>1, <1>2, EscapeKept

LEMMA EscapeFan ==
    ASSUME TypeOK, ThreadInv, EscapeInv, NEW q \in Queries, FanStep(q)
    PROVE  EscapeInv'
<1>1. UNCHANGED <<plan, cpc, todo, interrupted>>  BY FanEffect
<1>2. ASSUME NEW r \in Queries, Missed(r)' PROVE Missed(r)
  <2>1. thread[Top(q)] \in {"spawn", "reap"}
        /\ \A s \in Queries : s # q => thread'[Top(s)] = thread[Top(s)]
    BY FanEffect
  <2>2. QED  BY <1>1, <1>2, <2>1 DEF Missed
<1>3. QED  BY <1>1, <1>2, EscapeKept

\* When Cancel has the mutex of the job, one query at most is not in its list: the one
\* that was started and is about to be chained.
LEMMA EscapeLock ==
    ASSUME TypeOK, JobInv, CancelLock
    PROVE  EscapeInv'
<1>1. /\ UNCHANGED <<plan, thread, interrupted>> /\ todo' = dependents
  BY DEF CancelLock, db
<1>2. SUFFICES ASSUME NEW q \in Queries, Missed(q)' PROVE q = at
  BY <1>1 DEF EscapeInv, Queries
<1>3. IsStarted(q) /\ ~IsFreed(q) /\ ~IsChained(q) /\ thread[Top(q)] # "set"
  BY <1>1, <1>2 DEF Missed, IsStarted, IsFreed, IsChained
<1>4. q \in Nat /\ at \in Nat  BY PlanFutures DEF TypeOK, Queries
<1>5. pc \in {"start", "chain", "wait", "remove", "free", "done"}  BY DEF TypeOK
<1>6. QED  BY <1>3, <1>4, <1>5 DEF JobInv, AtInv, StartedInv, DependentsInv

LEMMA EscapeCancel ==
    ASSUME TypeOK, JobInv, CancelInv, EscapeInv, CancelFlag \/ CancelStep
    PROVE  EscapeInv'
<1>1. CASE CancelLock  BY <1>1, EscapeLock
<1>2. CASE CancelFlag  BY <1>2 DEF CancelFlag, EscapeInv
<1>3. CASE CancelRaise
  <2>1. /\ UNCHANGED <<plan, thread>> /\ cpc = "inside"
        /\ interrupted' = [interrupted EXCEPT ![target] = TRUE]
        /\ todo' = IF target = First(todo) THEN todo \ {target} ELSE todo
    BY <1>3 DEF CancelRaise
  <2>2. ASSUME NEW q \in Queries, Missed(q)' PROVE Missed(q)
    <3>1. Top(q) \in Futures  BY PlanFutures DEF TypeOK
    <3>2. Top(q) # target /\ ~interrupted[Top(q)]  BY <2>1, <2>2, <3>1 DEF Missed, TypeOK
    <3>3. Top(q) \notin todo  BY <2>1, <2>2, <3>2 DEF Missed
    <3>4. QED  BY <2>1, <2>2, <3>2, <3>3 DEF Missed
  <2>3. QED  BY <2>1, <2>2, EscapeKept
<1>4. CASE CancelNext \/ CancelStatement \/ CancelEnd
  <2>1. /\ UNCHANGED <<plan, thread, interrupted, todo>> /\ cpc \in {"loop", "inside"}
    BY <1>4 DEF CancelNext, CancelStatement, CancelEnd, db
  <2>2. \A q \in Queries : Missed(q)' => Missed(q)  BY <2>1 DEF Missed
  <2>3. QED  BY <2>1, <2>2, EscapeKept
<1>5. QED  BY <1>1, <1>2, <1>3, <1>4 DEF CancelStep

-----------------------------------------------------------------------------
(* The invariant holds, and what follows from it.                          *)

LEMMA InvInit == Init => IInv
BY InitType, InitThread, InitJob, InitCancel, InitConn, InitQuiet, InitEscape
   DEF IInv, ThreadInv, JobInv

LEMMA InvParts == IInv <=> TypeOK /\ ThreadInv /\ JobInv /\ CancelInv /\ ConnInv /\ QuietInv /\ EscapeInv
BY DEF IInv, ThreadInv, JobInv

LEMMA InvNext == IInv /\ [Next]_vars => IInv'
<1> SUFFICES ASSUME IInv, [Next]_vars PROVE IInv'  OBVIOUS
<1>1. /\ TypeOK /\ ThreadInv /\ JobInv /\ CancelInv /\ ConnInv /\ QuietInv /\ EscapeInv
      /\ AtInv /\ StartedInv /\ DependentsInv
  BY InvParts DEF JobInv
<1>2. TypeOK' /\ ThreadInv' /\ JobInv' /\ CancelInv' /\ ConnInv' /\ QuietInv' /\ EscapeInv'
  <2>1. CASE JobStep
    <3>1. TypeOK' /\ ThreadInv' /\ JobInv'  BY <1>1, <2>1, JobType, ThreadJob, JobJob
    <3>2. CancelInv' /\ ConnInv'  BY <1>1, <2>1, CancelJob, ConnJob
    <3>3. QuietInv' /\ EscapeInv'  BY <1>1, <2>1, QuietJob, EscapeJob
    <3>4. QED  BY <3>1, <3>2, <3>3
  <2>2. CASE CancelFlag \/ CancelStep
    <3>1. UNCHANGED <<plan, thread, subs, status>>
      BY <2>2 DEF CancelFlag, CancelStep, CancelLock, CancelNext, CancelStatement, CancelRaise,
                  CancelEnd, db
    <3>2. TypeOK' /\ ThreadInv' /\ JobInv'  BY <1>1, <2>2, <3>1, CancelType, ThreadSame, JobCancel
    <3>3. CancelInv' /\ ConnInv'  BY <1>1, <2>2, CancelCancel, ConnCancel
    <3>4. QuietInv' /\ EscapeInv'  BY <1>1, <2>2, QuietCancel, EscapeCancel
    <3>5. QED  BY <3>2, <3>3, <3>4
  <2>3. ASSUME NEW f \in Futures, LeafStep(f)
        PROVE  TypeOK' /\ ThreadInv' /\ JobInv' /\ CancelInv' /\ ConnInv' /\ QuietInv' /\ EscapeInv'
    <3>1. TypeOK'  BY <1>1, <2>3, LeafType DEF ThreadInv
    <3>2. ThreadInv' /\ JobInv'  BY <1>1, <2>3, ThreadLeaf, JobLeaf
    <3>3. CancelInv' /\ ConnInv'  BY <1>1, <2>3, CancelLeaf, ConnLeaf
    <3>4. QuietInv' /\ EscapeInv'  BY <1>1, <2>3, QuietLeaf, EscapeLeaf
    <3>5. QED  BY <3>1, <3>2, <3>3, <3>4
  <2>4. ASSUME NEW q \in Queries, FanStep(q)
        PROVE  TypeOK' /\ ThreadInv' /\ JobInv' /\ CancelInv' /\ ConnInv' /\ QuietInv' /\ EscapeInv'
    <3>1. TypeOK' /\ ThreadInv' /\ JobInv'  BY <1>1, <2>4, FanType, ThreadFan, JobFan
    <3>2. CancelInv' /\ ConnInv'  BY <1>1, <2>4, CancelFan, ConnFan
    <3>3. QuietInv' /\ EscapeInv'  BY <1>1, <2>4, QuietFan, EscapeFan
    <3>4. QED  BY <3>1, <3>2, <3>3
  <2>5. CASE UNCHANGED vars
    <3>1. UNCHANGED <<plan, cancelled, dependents, pc, at, result, thread, interrupted, stopped,
                      conn, rows, status, subs, cpc, todo, inside, target>>
      BY <2>5 DEF vars, job, db, cancel
    <3>2. TypeOK'  BY <1>1, <3>1 DEF TypeOK
    <3>3. ThreadInv'  BY <1>1, <3>1, ThreadSame
    <3>4. JobInv'  BY <1>1, <3>1, JobKept
    <3>5. CancelInv'  BY <1>1, <3>1, CancelKept DEF CancelInv
    <3>6. ConnInv'  BY <1>1, <3>1 DEF ConnInv, StopsOnlyItsOwn, Running
    <3>7. QuietInv'  BY <1>1, <3>1 DEF QuietInv, SuccessIsComplete, Leaf, Fans, Subs, NotLaunched, FansTold
    <3>8. EscapeInv'  BY <1>1, <3>1 DEF EscapeInv, Missed, Queries
    <3>9. QED  BY <3>2, <3>3, <3>4, <3>5, <3>6, <3>7, <3>8
  <2>6. QED  BY <2>1, <2>2, <2>3, <2>4, <2>5 DEF Next, Queries
<1>3. QED  BY <1>2, InvParts DEF IInv, ThreadInv, JobInv

LEMMA InvHolds == Spec => []IInv
<1>1. Init => IInv  BY InvInit
<1>2. IInv /\ [Next]_vars => IInv'  BY InvNext
<1>3. QED  BY <1>1, <1>2, PTL DEF Spec

\* Every variable keeps its type.
THEOREM TypeCorrect == Spec => []TypeOK
<1>1. IInv => TypeOK  BY DEF IInv
<1>2. QED  BY <1>1, InvHolds, PTL

\* Cancel interrupts no database future that was freed: a dependent is removed under the
\* mutex of the controller Future, a sub-future under the one of its query.
THEOREM InterruptsOnlyLive == Spec => []InterruptsLiveFutures
<1>1. IInv => InterruptsLiveFutures
  <2>1. SUFFICES ASSUME IInv, NEW f \in todo \cup inside PROVE thread[f] # "freed"
    BY DEF InterruptsLiveFutures
  <2>2. TypeOK /\ ThreadInv /\ JobInv /\ CancelInv  BY <2>1, InvParts
  <2>3. ASSUME NEW g \in todo PROVE thread[g] # "freed"
    <3>1. PICK q \in Queries : g = Top(q)  BY <2>2 DEF CancelInv, JobInv, DependentsInv
    <3>2. IsChained(q)  BY <2>2, <3>1 DEF CancelInv, IsChained
    <3>3. q \in Nat /\ at \in Nat  BY <2>2, PlanFutures DEF TypeOK, Queries
    <3>4. pc \in {"start", "chain", "wait", "remove", "free", "done"}  BY <2>2 DEF TypeOK
    <3>5. ~IsFreed(q)  BY <2>2, <3>2, <3>3, <3>4 DEF JobInv, StartedInv, DependentsInv
    <3>6. QED  BY <3>1, <3>5 DEF IsFreed
  <2>4. CASE f \in todo  BY <2>3, <2>4
  <2>5. CASE f \in inside
    <3>1. cpc = "inside" /\ inside \subseteq {First(todo)} \cup subs[First(todo)[1]]
      BY <2>2, <2>5 DEF CancelInv
    <3>2. First(todo) \in todo /\ First(todo)[1] \in Queries
      BY <2>2, <3>1, NextDependent DEF JobInv
    <3>3. \A g \in subs[First(todo)[1]] : thread[g] # "freed"
      BY <2>2, <3>2 DEF ThreadInv, FanInv
    <3>4. QED  BY <2>3, <2>5, <3>1, <3>2, <3>3
  <2>6. QED  BY <2>4, <2>5
<1>2. QED  BY <1>1, InvHolds, PTL

\* An interruption stops no statement but the one of its own future: a future is linked
\* to its connection only while it holds it.
THEOREM StopsNoOther == Spec => []StopsOnlyItsOwn
<1>1. IInv => StopsOnlyItsOwn  BY DEF IInv, ConnInv
<1>2. QED  BY <1>1, InvHolds, PTL

\* A job that reports Success has every row of every statement of its plan.
THEOREM SuccessHasEveryRow == Spec => []SuccessIsComplete
<1>1. IInv => SuccessIsComplete  BY DEF IInv, QuietInv
<1>2. QED  BY <1>1, InvHolds, PTL

\* A job that has ended has freed whatever it started, cancelled or not.
THEOREM EndsWithNothingLeft == Spec => []NothingLeft
<1>1. IInv => NothingLeft
  <2>1. SUFFICES ASSUME IInv, pc = "done"
                 PROVE  dependents = {} /\ \A f \in Futures : thread[f] \in {"none", "freed"}
    BY DEF NothingLeft
  <2>2. TypeOK /\ ThreadInv /\ JobInv  BY <2>1, InvParts
  <2>3. ~Started(at)  BY <2>1, <2>2 DEF JobInv, AtInv
  <2>4. \A q \in Queries : IsStarted(q) => IsFreed(q) /\ ~IsChained(q)
    BY <2>1, <2>2, <2>3, EndFreed
  <2>5. dependents = {}
    <3>1. \A q \in Queries : ~IsChained(q)
      BY <2>1, <2>2, <2>4 DEF JobInv, DependentsInv
    <3>2. QED  BY <2>2, <3>1 DEF JobInv, DependentsInv, IsChained
  <2>6. ASSUME NEW f \in Futures, thread[f] # "none" PROVE thread[f] = "freed"
    <3>1. PICK q \in Queries : f = Top(q) \/ f \in Subs(q)
      BY <2>2, <2>6, TopOrSub DEF ThreadInv
    <3>2. IsStarted(q)  BY <2>2, <2>6, <3>1 DEF IsStarted, ThreadInv, FanInv
    <3>3. IsFreed(q)  BY <2>4, <3>2
    <3>4. QED  BY <2>2, <2>6, <3>1, <3>3, FreedWhole DEF IsFreed
  <2>7. QED  BY <2>5, <2>6
<1>2. QED  BY <1>1, InvHolds, PTL

\* A cancellation misses at most one query, however many the job has and wherever it is.
THEOREM OneEscapes == Spec => []AtMostOneEscapes
<1>1. IInv => AtMostOneEscapes
  <2>1. SUFFICES ASSUME IInv, cpc = "done" PROVE Cardinality(Escaped) <= 1
    BY DEF AtMostOneEscapes
  <2>2. todo = {} /\ \A q, r \in Queries : Missed(q) /\ Missed(r) => q = r
    BY <2>1 DEF IInv, CancelInv, EscapeInv
  <2>3. \A q, r \in Escaped : q = r  BY <2>2 DEF Escaped, Missed, Queries
  <2>4. CASE Escaped = {}  BY <2>4, FS_EmptySet
  <2>5. CASE Escaped # {}
    <3>1. PICK q \in Escaped : Escaped = {q}  BY <2>3, <2>5
    <3>2. Cardinality(Escaped) = 1  BY <3>1, FS_Singleton
    <3>3. QED  BY <3>2
  <2>6. QED  BY <2>4, <2>5
<1>2. QED  BY <1>1, InvHolds, PTL

=============================================================================
