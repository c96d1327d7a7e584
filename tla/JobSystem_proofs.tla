------------------------- MODULE JobSystem_proofs -------------------------
(***************************************************************************)
(* Proofs about JobSystem: its type invariant, that a pending job has one  *)
(* holder, that a JobFunction never runs on a freed future, and that the   *)
(* job system implements JobPromise.                                       *)
(***************************************************************************)
EXTENDS JobSystem, TLAPS, SequenceTheorems

-----------------------------------------------------------------------------
(* What the operations of the queue do to its elements.                    *)

In(q, x) == \E i \in DOMAIN q : q[i] = x

Distinct(q) == \A i, k \in DOMAIN q : q[i] = q[k] => i = k

\* push_back adds one element and keeps the elements distinct.
LEMMA AppendFacts ==
    ASSUME NEW S, NEW q \in Seq(S), NEW x \in S, Distinct(q), ~In(q, x)
    PROVE  /\ Append(q, x) \in Seq(S)
           /\ Distinct(Append(q, x))
           /\ \A y : In(Append(q, x), y) <=> (In(q, y) \/ y = x)
<1> DEFINE r == Append(q, x)
<1>1. /\ r \in Seq(S) /\ Len(r) = Len(q) + 1 /\ Len(q) \in Nat
      /\ DOMAIN r = 1 .. Len(q) + 1 /\ DOMAIN q = 1 .. Len(q)
      /\ \A i \in 1 .. Len(q) : r[i] = q[i]
      /\ r[Len(q) + 1] = x
  OBVIOUS
<1> HIDE DEF r
<1>2. Distinct(r)  BY <1>1 DEF Distinct, In
<1>3. ASSUME NEW y PROVE In(r, y) <=> (In(q, y) \/ y = x)
  <2>1. ASSUME In(r, y) PROVE In(q, y) \/ y = x
    <3>1. PICK i \in 1 .. Len(q) + 1 : r[i] = y  BY <1>1, <2>1 DEF In
    <3>2. i = Len(q) + 1 \/ i \in 1 .. Len(q)  BY <1>1, <3>1
    <3>3. QED  BY <1>1, <3>1, <3>2 DEF In
  <2>2. ASSUME In(q, y) \/ y = x PROVE In(r, y)
    <3>1. CASE y = x
      <4>1. Len(q) + 1 \in DOMAIN r  BY <1>1
      <4>2. QED  BY <1>1, <3>1, <4>1 DEF In
    <3>2. CASE In(q, y)
      <4>1. PICK i \in 1 .. Len(q) : q[i] = y  BY <1>1, <3>2 DEF In
      <4>2. i \in DOMAIN r /\ r[i] = y  BY <1>1, <4>1
      <4>3. QED  BY <4>2 DEF In
    <3>3. QED  BY <2>2, <3>1, <3>2
  <2>3. QED  BY <2>1, <2>2
<1>4. QED  BY <1>1, <1>2, <1>3 DEF r

\* Taking element k out of a queue of distinct elements leaves the others.
LEMMA ErasedFacts ==
    ASSUME NEW S, NEW q \in Seq(S), NEW k \in DOMAIN q, Distinct(q),
           NEW r \in Seq(S), Len(r) = Len(q) - 1,
           \A i \in 1 .. Len(q) - 1 : r[i] = IF i < k THEN q[i] ELSE q[i + 1]
    PROVE  /\ Distinct(r)
           /\ \A y : In(r, y) <=> (In(q, y) /\ y # q[k])
<1>1. /\ Len(q) \in Nat /\ DOMAIN q = 1 .. Len(q) /\ DOMAIN r = 1 .. Len(q) - 1
      /\ k \in 1 .. Len(q)
  OBVIOUS
<1>2. Distinct(r)
  <2> SUFFICES ASSUME NEW i \in 1 .. Len(q) - 1, NEW j \in 1 .. Len(q) - 1, r[i] = r[j]
               PROVE  i = j
    BY <1>1 DEF Distinct
  <2> DEFINE ii == IF i < k THEN i ELSE i + 1
             jj == IF j < k THEN j ELSE j + 1
  <2>1. ii \in DOMAIN q /\ jj \in DOMAIN q  BY <1>1
  <2>2. r[i] = q[ii] /\ r[j] = q[jj]  OBVIOUS
  <2>3. ii = jj  BY <2>1, <2>2 DEF Distinct
  <2>4. QED  BY <2>3, <1>1
<1>3. ASSUME NEW y PROVE In(r, y) <=> (In(q, y) /\ y # q[k])
  <2>1. ASSUME In(r, y) PROVE In(q, y) /\ y # q[k]
    <3>1. PICK i \in 1 .. Len(q) - 1 : r[i] = y  BY <1>1, <2>1 DEF In
    <3> DEFINE ii == IF i < k THEN i ELSE i + 1
    <3>2. ii \in DOMAIN q /\ q[ii] = y /\ ii # k  BY <1>1, <3>1
    <3>3. QED  BY <3>2 DEF In, Distinct
  <2>2. ASSUME In(q, y), y # q[k] PROVE In(r, y)
    <3>1. PICK i \in 1 .. Len(q) : q[i] = y  BY <1>1, <2>2 DEF In
    <3>2. i # k  BY <2>2, <3>1
    <3> DEFINE ii == IF i < k THEN i ELSE i - 1
    <3>3. ii \in 1 .. Len(q) - 1 /\ r[ii] = q[i]  BY <1>1, <3>1, <3>2
    <3>4. QED  BY <1>1, <3>1, <3>3 DEF In
  <2>3. QED  BY <2>1, <2>2
<1>4. QED  BY <1>2, <1>3

\* m_jobs.erase(begin) removes the head only.
LEMMA TailFacts ==
    ASSUME NEW S, NEW q \in Seq(S), q # <<>>, Distinct(q)
    PROVE  /\ Head(q) \in S /\ In(q, Head(q))
           /\ Tail(q) \in Seq(S)
           /\ Distinct(Tail(q))
           /\ \A y : In(Tail(q), y) <=> (In(q, y) /\ y # Head(q))
<1>1. /\ Head(q) \in S /\ Tail(q) \in Seq(S) /\ Len(Tail(q)) = Len(q) - 1
      /\ \A i \in 1 .. Len(Tail(q)) : Tail(q)[i] = q[i + 1]
  BY HeadTailProperties
<1>2. 1 \in DOMAIN q /\ Head(q) = q[1]  OBVIOUS
<1>3. \A i \in 1 .. Len(q) - 1 : Tail(q)[i] = IF i < 1 THEN q[i] ELSE q[i + 1]  BY <1>1
<1>4. /\ Distinct(Tail(q))
      /\ \A y : In(Tail(q), y) <=> (In(q, y) /\ y # q[1])
  BY <1>1, <1>2, <1>3, ErasedFacts
<1>5. QED  BY <1>1, <1>2, <1>4 DEF In

\* CancelJob removes the job it found and no other.
LEMMA RemoveAtFacts ==
    ASSUME NEW S, NEW q \in Seq(S), NEW k \in DOMAIN q, Distinct(q)
    PROVE  LET r == Seqs!RemoveAt(q, k) IN
           /\ r \in Seq(S)
           /\ Distinct(r)
           /\ \A y : In(r, y) <=> (In(q, y) /\ y # q[k])
<1> DEFINE a == SubSeq(q, 1, k - 1)
           b == SubSeq(q, k + 1, Len(q))
           r == a \o b
<1>1. k \in 1 .. Len(q) /\ Len(q) \in Nat /\ \A i \in 1 .. Len(q) : q[i] \in S
  BY ElementOfSeq
<1>2. /\ a \in Seq(S) /\ Len(a) = k - 1
      /\ \A i \in 1 .. k - 1 : a[i] = q[i]
  <2>1. /\ a \in Seq(S) /\ Len(a) = IF 1 <= k - 1 THEN (k - 1) - 1 + 1 ELSE 0
        /\ \A i \in 1 .. (k - 1) - 1 + 1 : a[i] = q[1 + i - 1]
    BY <1>1, SubSeqProperties
  <2>2. QED  BY <1>1, <2>1
<1>3. /\ b \in Seq(S) /\ Len(b) = Len(q) - k
      /\ \A i \in 1 .. Len(q) - k : b[i] = q[k + i]
  <2>1. /\ b \in Seq(S) /\ Len(b) = IF k + 1 <= Len(q) THEN Len(q) - (k + 1) + 1 ELSE 0
        /\ \A i \in 1 .. Len(q) - (k + 1) + 1 : b[i] = q[(k + 1) + i - 1]
    BY <1>1, SubSeqProperties
  <2>2. QED  BY <1>1, <2>1
<1> HIDE DEF a, b
<1>4. /\ r \in Seq(S) /\ Len(r) = Len(a) + Len(b)
      /\ \A i \in 1 .. Len(a) + Len(b) : r[i] = IF i <= Len(a) THEN a[i] ELSE b[i - Len(a)]
  BY <1>2, <1>3, ConcatProperties
<1> HIDE DEF r
<1>5. Len(r) = Len(q) - 1  BY <1>1, <1>2, <1>3, <1>4
<1>6. ASSUME NEW i \in 1 .. Len(q) - 1
      PROVE  r[i] = IF i < k THEN q[i] ELSE q[i + 1]
  <2>1. i \in 1 .. Len(a) + Len(b)  BY <1>1, <1>2, <1>3
  <2>2. CASE i < k
    <3>1. i \in 1 .. k - 1 /\ i <= Len(a)  BY <1>1, <1>2, <2>2
    <3>2. QED  BY <1>2, <1>4, <2>1, <2>2, <3>1
  <2>3. CASE ~(i < k)
    <3> DEFINE m == i - (k - 1)
    <3>1. m \in 1 .. Len(q) - k /\ ~(i <= Len(a)) /\ i - Len(a) = m /\ k + m = i + 1
      BY <1>1, <1>2, <2>3
    <3>2. r[i] = b[m]  BY <1>4, <2>1, <3>1
    <3>3. b[m] = q[k + m]  BY <1>3, <3>1
    <3>4. QED  BY <2>3, <3>1, <3>2, <3>3
  <2>4. QED  BY <2>2, <2>3
<1>7. Distinct(r) /\ \A y : In(r, y) <=> (In(q, y) /\ y # q[k])
  BY <1>4, <1>5, <1>6, ErasedFacts
<1>8. QED  BY <1>4, <1>7 DEF Seqs!RemoveAt, r, a, b

-----------------------------------------------------------------------------
(* Types.                                                                  *)

LEMMA NotifiedType ==
    ASSUME TypeOK, NEW S
    PROVE  Notified(S) \in [Jobs -> {"none", "issuing", "owner", "asleep", "awake", "freed"}]
BY DEF TypeOK, Notified

\* Every step keeps the variables well typed.
LEMMA TypeStep == TypeOK /\ [Next]_vars => TypeOK'
<1> SUFFICES ASSUME TypeOK, [Next]_vars PROVE TypeOK'
  OBVIOUS
<1> USE ConstantsAssumption DEF TypeOK
<1>1. CASE UNCHANGED vars  BY <1>1 DEF vars
<1>2. ASSUME NEW j \in Jobs, CallerStep(j) PROVE TypeOK'
  <2>1. CASE Issue(j)  BY <2>1 DEF Issue
  <2>2. CASE EndIssue(j)
    <3>1. PICK woken \in WokenByIssue(Sleeping) :
            worker' = [w \in Workers |-> IF w \in woken THEN "ready" ELSE worker[w]]
      BY <2>2 DEF EndIssue
    <3>2. QED  BY <2>2, <3>1 DEF EndIssue
  <2>3. CASE Poll(j)  BY <2>3 DEF Poll
  <2>4. CASE Block(j)  BY <2>4 DEF Block
  <2>5. CASE Return(j)  BY <2>5 DEF Return
  <2>6. CASE Cancel(j)
    <3>1. queue' \in Seq(Jobs)
      <4>1. PICK k \in DOMAIN queue : queue' = Seqs!RemoveAt(queue, k)
        BY <2>6 DEF Cancel, Cancellable, Erased, Queued
      <4>2. k \in 1 .. Len(queue) /\ Len(queue) \in Nat  OBVIOUS
      <4>3. SubSeq(queue, 1, k - 1) \in Seq(Jobs) /\ SubSeq(queue, k + 1, Len(queue)) \in Seq(Jobs)
        BY <4>2, SubSeqProperties
      <4>4. QED  BY <4>1, <4>3, ConcatProperties DEF Seqs!RemoveAt
    <3>2. QED  BY <2>6, <3>1, NotifiedType DEF Cancel
  <2>7. QED  BY <1>2, <2>1, <2>2, <2>3, <2>4, <2>5, <2>6 DEF CallerStep
<1>3. ASSUME NEW w \in Workers, WorkerStep(w) PROVE TypeOK'
  <2>1. CASE Take(w)
    <3>1. Head(queue) \in Jobs /\ Tail(queue) \in Seq(Jobs)
      BY <2>1, HeadTailProperties DEF Take
    <3>2. QED  BY <2>1, <3>1 DEF Take, Dequeued
  <2>2. CASE Sleep(w)  BY <2>2 DEF Sleep
  <2>3. CASE Exit(w)  BY <2>3 DEF Exit
  <2>4. CASE Finish(w)
    <3>1. PICK r \in Results : result' = [result EXCEPT ![job[w]] = r]  BY <2>4 DEF Finish
    <3>2. result' \in [Jobs -> Results \cup {"none", "Pending"}]  BY <3>1
    <3>3. worker' = [worker EXCEPT ![w] = "notifying"]  BY <2>4, Zenon DEF Finish
    <3>4. UNCHANGED <<queue, shutdown, job, caller>>  BY <2>4, Zenon DEF Finish
    <3>5. QED  BY <3>2, <3>3, <3>4
  <2>5. CASE Notify(w)  BY <2>5, NotifiedType DEF Notify
  <2>6. QED  BY <1>3, <2>1, <2>2, <2>3, <2>4, <2>5 DEF WorkerStep
<1>4. CASE Drain
  <2>1. <<>> \in Seq(Jobs)  OBVIOUS
  <2>2. QED  BY <1>4, <2>1, NotifiedType DEF Drain
<1>5. CASE WakeWorkers  BY <1>5 DEF WakeWorkers
<1>6. CASE Join  BY <1>6 DEF Join
<1>7. QED  BY <1>1, <1>2, <1>3, <1>4, <1>5, <1>6 DEF Next

LEMMA TypeInit == Init => TypeOK
BY DEF Init, TypeOK

\* Every variable has its type in every reachable state.
THEOREM TypeCorrect == Spec => []TypeOK
<1>1. QED  BY TypeInit, TypeStep, PTL DEF Spec

-----------------------------------------------------------------------------
(* One holder per pending job.                                             *)

\* The future is freed only when its job has resolved, and before it is issued
\* the job does not exist: what OneHolder needs to know of the owners.
OwnerInv ==
    /\ \A j \in Jobs : caller[j] = "freed" => result[j] # "Pending"
    /\ \A j \in Jobs : caller[j] = "none" <=> result[j] = "none"

\* Inductive.
IInv == TypeOK /\ OneHolder /\ OwnerInv

Running(j) == \E w \in Workers : Runs(w, j)

LEMMA ResultsApart ==
    /\ "none" \notin Results /\ "Pending" \notin Results /\ "Cancelled" \in Results
    /\ "queued" \notin Results /\ "running" \notin Results
BY ConstantsAssumption

LEMMA InvInit == Init => IInv
<1> SUFFICES ASSUME Init PROVE IInv
  OBVIOUS
<1>1. queue = <<>> /\ DOMAIN queue = {}  BY DEF Init
<1>2. OneHolder  BY <1>1 DEF Init, OneHolder, Queued, Runs
<1>3. OwnerInv  BY DEF Init, OwnerInv
<1>4. QED  BY <1>2, <1>3, TypeInit DEF IInv

\* What Notified changes cannot be told apart by OwnerInv.
LEMMA NotifiedFacts ==
    ASSUME TypeOK, NEW S, NEW j \in Jobs
    PROVE  /\ Notified(S)[j] = "freed" <=> caller[j] = "freed"
           /\ Notified(S)[j] = "none" <=> caller[j] = "none"
BY DEF Notified, TypeOK

\* A step that leaves the queue alone, resolves no job and starts none.
LEMMA SameHolders ==
    ASSUME IInv, TypeOK', UNCHANGED <<queue, result>>,
           \A w \in Workers : worker'[w] = "running" <=> worker[w] = "running",
           \A w \in Workers : worker[w] = "running" => job'[w] = job[w]
    PROVE  OneHolder'
<1>1. \A x : \A w \in Workers : Runs(w, x)' <=> Runs(w, x)  BY DEF Runs
<1>2. \A x : Queued(x)' <=> Queued(x)  BY DEF Queued
<1>3. \A v, w \in Workers : (Runs(v, job[w]) /\ Runs(w, job[w]))' => v = w
  BY <1>1 DEF IInv, OneHolder, Runs
<1>4. QED  BY <1>1, <1>2, <1>3 DEF IInv, OneHolder

\* The inductive step, one action at a time.
LEMMA InvStep == IInv /\ [Next]_vars => IInv'
<1> SUFFICES ASSUME IInv, [Next]_vars PROVE OneHolder' /\ OwnerInv'
  BY TypeStep DEF IInv
<1> USE ResultsApart
<1>0. TypeOK /\ TypeOK' /\ OneHolder /\ OwnerInv  BY TypeStep DEF IInv
<1>q. /\ Distinct(queue)
      /\ \A x : Queued(x) <=> In(queue, x)
      /\ \A x : Queued(x)' <=> In(queue', x)
      /\ \A x \in Jobs : Queued(x) => result[x] = "Pending"
  BY <1>0 DEF OneHolder, Distinct, Queued, In
<1>1. CASE UNCHANGED vars
  BY <1>0, <1>1, SameHolders DEF vars, OwnerInv
<1>2. ASSUME NEW j \in Jobs, Issue(j) PROVE OneHolder' /\ OwnerInv'
  <2>1. result[j] = "none" /\ ~In(queue, j) /\ queue \in Seq(Jobs)
    BY <1>0, <1>2, <1>q DEF Issue, OwnerInv, TypeOK
  <2>2. Distinct(queue') /\ \A x : Queued(x)' <=> (Queued(x) \/ x = j)
    BY <1>2, <1>q, <2>1, AppendFacts DEF Issue
  <2>3. \A x : \A w \in Workers : Runs(w, x)' <=> Runs(w, x)  BY <1>2 DEF Issue, Runs
  <2>4. \A x \in Jobs : result'[x] = IF x = j THEN "Pending" ELSE result[x]
    BY <1>0, <1>2 DEF Issue, TypeOK
  <2>5. \A w \in Workers : worker[w] = "running" => job[w] # j
    BY <1>0, <2>1 DEF OneHolder, Runs
  <2>6. OneHolder'
    <3>1. \A x \in Jobs : (result[x] = "Pending" <=> (Queued(x) \/ \E w \in Workers : Runs(w, x)))'
      BY <1>0, <2>2, <2>3, <2>4 DEF OneHolder
    <3>2. \A w \in Workers : (worker[w] = "running" => job[w] \in Jobs /\ ~Queued(job[w]))'
      BY <1>0, <1>2, <2>2, <2>5 DEF OneHolder, Issue
    <3>3. \A v, w \in Workers : (Runs(v, job[w]) /\ Runs(w, job[w]) => v = w)'
      BY <1>0, <1>2, <2>3 DEF OneHolder, Issue, Runs
    <3>4. QED  BY <2>2, <3>1, <3>2, <3>3 DEF OneHolder, Distinct
  <2>7. OwnerInv'  BY <1>0, <1>2, <2>4 DEF OwnerInv, Issue, TypeOK
  <2>8. QED  BY <2>6, <2>7
<1>3. ASSUME NEW j \in Jobs, EndIssue(j) PROVE OneHolder' /\ OwnerInv'
  <2>1. PICK woken \in WokenByIssue(Sleeping) :
          worker' = [w \in Workers |-> IF w \in woken THEN "ready" ELSE worker[w]]
    BY <1>3 DEF EndIssue
  <2>2. \A w \in woken : w \in Workers /\ worker[w] = "asleep"
    BY <2>1 DEF WokenByIssue, Sleeping
  <2>3. \A w \in Workers : worker'[w] = "running" <=> worker[w] = "running"
    BY <2>1, <2>2
  <2>4. OneHolder'  BY <1>0, <1>3, <2>3, SameHolders DEF EndIssue
  <2>5. OwnerInv'  BY <1>0, <1>3 DEF OwnerInv, EndIssue, TypeOK
  <2>6. QED  BY <2>4, <2>5
<1>4. ASSUME NEW j \in Jobs, Poll(j) \/ Block(j) \/ Return(j) PROVE OneHolder' /\ OwnerInv'
  <2>1. OneHolder'  BY <1>0, <1>4, SameHolders DEF Poll, Block, Return
  <2>2. OwnerInv'  BY <1>0, <1>4 DEF OwnerInv, Poll, Block, Return, TypeOK
  <2>3. QED  BY <2>1, <2>2
<1>5. ASSUME NEW j \in Jobs, Cancel(j) PROVE OneHolder' /\ OwnerInv'
  <2>1. Distinct(queue') /\ \A x : Queued(x)' <=> (Queued(x) /\ x # j)
    <3>1. PICK k \in DOMAIN queue : queue[k] = j /\ queue' = Seqs!RemoveAt(queue, k)
      BY <1>5 DEF Cancel, Cancellable, Erased, Queued
    <3>2. queue \in Seq(Jobs)  BY <1>0 DEF TypeOK
    <3>3. QED  BY <1>q, <3>1, <3>2, RemoveAtFacts
  <2>2. \A x : \A w \in Workers : Runs(w, x)' <=> Runs(w, x)  BY <1>5 DEF Cancel, Runs
  <2>3. \A x \in Jobs : result'[x] = IF x = j THEN "Cancelled" ELSE result[x]
    BY <1>0, <1>5 DEF Cancel, TypeOK
  <2>4. Queued(j) /\ ~Running(j)
    BY <1>0, <1>5 DEF Cancel, Cancellable, OneHolder, Running, Runs
  <2>5. OneHolder'
    <3>1. \A x \in Jobs : (result[x] = "Pending" <=> (Queued(x) \/ \E w \in Workers : Runs(w, x)))'
      BY <1>0, <2>1, <2>2, <2>3, <2>4 DEF OneHolder, Running
    <3>2. \A w \in Workers : (worker[w] = "running" => job[w] \in Jobs /\ ~Queued(job[w]))'
      BY <1>0, <1>5, <2>1 DEF OneHolder, Cancel
    <3>3. \A v, w \in Workers : (Runs(v, job[w]) /\ Runs(w, job[w]) => v = w)'
      BY <1>0, <1>5, <2>2 DEF OneHolder, Cancel, Runs
    <3>4. QED  BY <2>1, <3>1, <3>2, <3>3 DEF OneHolder, Distinct
  <2>6. OwnerInv'
    <3>1. result[j] # "none"  BY <1>q, <2>4
    <3>2. QED  BY <1>0, <1>5, <2>3, <3>1, NotifiedFacts DEF OwnerInv, Cancel
  <2>7. QED  BY <2>5, <2>6
<1>6. ASSUME NEW w \in Workers, Take(w) PROVE OneHolder' /\ OwnerInv'
  <2> DEFINE h == Head(queue)
  <2>1. /\ h \in Jobs /\ Queued(h) /\ Distinct(queue')
        /\ \A x : Queued(x)' <=> (Queued(x) /\ x # h)
    BY <1>0, <1>6, <1>q, TailFacts DEF Take, Dequeued, TypeOK
  <2>2. /\ worker[w] = "ready"
        /\ \A v \in Workers : worker'[v] = IF v = w THEN "running" ELSE worker[v]
        /\ \A v \in Workers : job'[v] = IF v = w THEN h ELSE job[v]
        /\ result' = result /\ caller' = caller
    BY <1>0, <1>6 DEF Take, TypeOK
  <2> HIDE DEF h
  <2>3. \A x : \A v \in Workers : Runs(v, x)' <=> (Runs(v, x) \/ (v = w /\ x = h))
    BY <2>2 DEF Runs
  <2>4. ~Running(h)  BY <1>0, <2>1 DEF OneHolder, Running, Runs
  <2>5. OneHolder'
    <3>1. \A x \in Jobs : (result[x] = "Pending" <=> (Queued(x) \/ \E v \in Workers : Runs(v, x)))'
      BY <1>0, <2>1, <2>2, <2>3 DEF OneHolder
    <3>2. \A v \in Workers : (worker[v] = "running" => job[v] \in Jobs /\ ~Queued(job[v]))'
      BY <1>0, <2>1, <2>2 DEF OneHolder
    <3>3. \A u, v \in Workers : (Runs(u, job[v]) /\ Runs(v, job[v]) => u = v)'
      <4> SUFFICES ASSUME NEW u \in Workers, NEW v \in Workers,
                          Runs(u, job[v])', Runs(v, job[v])'
                   PROVE  u = v
        OBVIOUS
      <4>1. CASE job'[v] = h
        BY <2>3, <2>4, <4>1 DEF Running
      <4>2. CASE job'[v] # h
        <5>1. v # w /\ u # w  BY <2>2, <4>2 DEF Runs
        <5>2. QED  BY <1>0, <2>2, <5>1 DEF OneHolder, Runs
      <4>3. QED  BY <4>1, <4>2
    <3>4. QED  BY <2>1, <3>1, <3>2, <3>3 DEF OneHolder, Distinct
  <2>6. OwnerInv'  BY <1>0, <2>2 DEF OwnerInv
  <2>7. QED  BY <2>5, <2>6
<1>7. ASSUME NEW w \in Workers, Sleep(w) \/ Exit(w) PROVE OneHolder' /\ OwnerInv'
  <2>1. OneHolder'
    <3>1. \A v \in Workers : worker'[v] = "running" <=> worker[v] = "running"
      BY <1>0, <1>7 DEF Sleep, Exit, TypeOK
    <3>2. QED  BY <1>0, <1>7, <3>1, SameHolders DEF Sleep, Exit
  <2>2. OwnerInv'  BY <1>0, <1>7 DEF OwnerInv, Sleep, Exit
  <2>3. QED  BY <2>1, <2>2
<1>8. ASSUME NEW w \in Workers, Finish(w) PROVE OneHolder' /\ OwnerInv'
  <2> DEFINE k == job[w]
  <2>1. worker[w] = "running" /\ k \in Jobs /\ ~Queued(k) /\ Runs(w, k) /\ result[k] = "Pending"
    BY <1>0, <1>8 DEF Finish, OneHolder, Runs
  <2>2. PICK r \in Results : result' = [result EXCEPT ![k] = r]  BY <1>8 DEF Finish
  <2>3. /\ \A x \in Jobs : result'[x] = IF x = k THEN r ELSE result[x]
        /\ \A v \in Workers : worker'[v] = IF v = w THEN "notifying" ELSE worker[v]
        /\ queue' = queue /\ job' = job /\ caller' = caller
    BY <1>0, <1>8, <2>2 DEF Finish, TypeOK
  <2>4. /\ \A x : Queued(x)' <=> Queued(x)
        /\ \A x : \A v \in Workers : Runs(v, x)' <=> (Runs(v, x) /\ v # w)
    BY <2>3 DEF Queued, Runs
  <2>5. \A v \in Workers : Runs(v, k) => v = w
    BY <1>0, <2>1 DEF OneHolder
  <2> HIDE DEF k
  <2>6. \A x \in Jobs : Runs(w, x) => x = k  BY <2>1 DEF Runs
  <2>7. OneHolder'
    <3>1. \A x \in Jobs : (result[x] = "Pending" <=> (Queued(x) \/ \E v \in Workers : Runs(v, x)))'
      <4>1. r # "Pending"  BY <2>2
      <4>2. QED  BY <1>0, <2>1, <2>3, <2>4, <2>5, <2>6, <4>1 DEF OneHolder
    <3>2. \A v \in Workers : (worker[v] = "running" => job[v] \in Jobs /\ ~Queued(job[v]))'
      BY <1>0, <2>3, <2>4 DEF OneHolder
    <3>3. \A u, v \in Workers : (Runs(u, job[v]) /\ Runs(v, job[v]) => u = v)'
      BY <1>0, <2>3, <2>4 DEF OneHolder
    <3>4. QED  BY <1>0, <2>3, <3>1, <3>2, <3>3 DEF OneHolder
  <2>8. OwnerInv'
    <3>1. r # "none" /\ r # "Pending"  BY <2>2
    <3>2. QED  BY <1>0, <2>1, <2>3, <3>1 DEF OwnerInv
  <2>9. QED  BY <2>7, <2>8
<1>9. ASSUME NEW w \in Workers, Notify(w) PROVE OneHolder' /\ OwnerInv'
  <2>1. /\ worker[w] = "notifying"
        /\ \A v \in Workers : worker'[v] = IF v = w THEN "ready" ELSE worker[v]
        /\ \A v \in Workers : v # w => job'[v] = job[v]
        /\ queue' = queue /\ result' = result
    BY <1>0, <1>9 DEF Notify, TypeOK
  <2>2. OneHolder'  BY <1>0, <2>1, SameHolders DEF IInv
  <2>3. OwnerInv'  BY <1>0, <1>9, <2>1, NotifiedFacts DEF OwnerInv, Notify
  <2>4. QED  BY <2>2, <2>3
<1>10. CASE Drain
  <2>1. /\ \A x \in Jobs : result'[x] = IF Queued(x) THEN "Cancelled" ELSE result[x]
        /\ queue' = <<>> /\ worker' = worker /\ job' = job
        /\ caller' = Notified(Dropped)
    BY <1>10 DEF Drain, Dropped
  <2>2. DOMAIN queue' = {} /\ \A x : ~Queued(x)'  BY <2>1 DEF Queued
  <2>3. \A x : \A v \in Workers : Runs(v, x)' <=> Runs(v, x)  BY <2>1 DEF Runs
  <2>4. OneHolder'
    <3>1. \A x \in Jobs : (result[x] = "Pending" <=> (Queued(x) \/ \E v \in Workers : Runs(v, x)))'
      BY <1>0, <2>1, <2>2, <2>3 DEF OneHolder, Runs
    <3>2. \A v, w \in Workers : (Runs(v, job[w]) /\ Runs(w, job[w]) => v = w)'
      BY <1>0, <2>1, <2>3 DEF OneHolder
    <3>3. QED  BY <1>0, <2>1, <2>2, <3>1, <3>2 DEF OneHolder
  <2>5. OwnerInv'  BY <1>0, <1>q, <2>1, NotifiedFacts DEF OwnerInv
  <2>6. QED  BY <2>4, <2>5
<1>11. CASE WakeWorkers \/ Join
  <2>1. \A v \in Workers : worker'[v] = "running" <=> worker[v] = "running"
    BY <1>11 DEF WakeWorkers, Join, WokenByShutdown, Sleeping
  <2>2. OneHolder'  BY <1>0, <1>11, <2>1, SameHolders DEF WakeWorkers, Join, IInv
  <2>3. OwnerInv'  BY <1>0, <1>11 DEF OwnerInv, WakeWorkers, Join
  <2>4. QED  BY <2>2, <2>3
<1>12. QED
  BY <1>1, <1>2, <1>3, <1>4, <1>5, <1>6, <1>7, <1>8, <1>9, <1>10, <1>11
     DEF Next, CallerStep, WorkerStep

\* A pending job is held by the queue or by exactly one worker, a resolved one by
\* none, for any number of jobs, workers and cancellations.
THEOREM PendingHasOneHolder == Spec => []OneHolder
<1>1. IInv => OneHolder  BY DEF IInv
<1>2. QED  BY InvInit, InvStep, <1>1, PTL DEF Spec

\* The future a JobFunction was given stays alive while the function runs.
THEOREM JobsRunOnLiveFutures == Spec => []RunsOnLiveFuture
<1>1. IInv => RunsOnLiveFuture
  BY DEF IInv, OneHolder, OwnerInv, RunsOnLiveFuture, Runs
<1>2. QED  BY InvInit, InvStep, <1>1, PTL DEF Spec

-----------------------------------------------------------------------------
(* Refinement of JobPromise.                                               *)

\* The promise of a job, spelled out.
LEMMA PromisedFacts ==
    /\ DOMAIN Promised = Jobs /\ DOMAIN Promised' = Jobs
    /\ \A x \in Jobs : Promised[x] = IF result[x] # "Pending" THEN result[x]
                                      ELSE IF Queued(x) THEN "queued" ELSE "running"
    /\ \A x \in Jobs : Promised'[x] = IF result'[x] # "Pending" THEN result'[x]
                                       ELSE IF Queued(x)' THEN "queued" ELSE "running"
    /\ Promised = [x \in Jobs |-> Promised[x]]
    /\ Promised' = [x \in Jobs |-> Promised'[x]]
BY DEF Promised

\* A step that changes the promise of one job at most.
LEMMA OneChanged ==
    ASSUME NEW j \in Jobs, NEW p, Promised'[j] = p,
           \A x \in Jobs \ {j} : Promised'[x] = Promised[x]
    PROVE  Promised' = [Promised EXCEPT ![j] = p]
<1>1. \A x \in Jobs : Promised'[x] = [Promised EXCEPT ![j] = p][x]
  BY PromisedFacts
<1>2. [Promised EXCEPT ![j] = p] = [x \in Jobs |-> [Promised EXCEPT ![j] = p][x]]
  BY PromisedFacts
<1>3. QED  BY <1>1, <1>2, PromisedFacts

\* A step that changes no promise.
LEMMA NoneChanged ==
    ASSUME \A x \in Jobs : Promised'[x] = Promised[x]
    PROVE  Promised' = Promised
BY PromisedFacts

LEMMA RefinementInit == Init => Promise!Init
BY DEF Init, Promise!Init, Promised

LEMMA RefinementStep == IInv /\ IInv' /\ [Next]_vars => [Promise!Next]_Promised
<1> SUFFICES ASSUME IInv, IInv', [Next]_vars PROVE Promise!Next \/ Promised' = Promised
  OBVIOUS
<1> USE ResultsApart
<1>0. TypeOK /\ TypeOK' /\ OneHolder /\ OwnerInv  BY DEF IInv
<1>q. /\ Distinct(queue)
      /\ \A x : Queued(x) <=> In(queue, x)
      /\ \A x : Queued(x)' <=> In(queue', x)
      /\ \A x \in Jobs : Queued(x) => result[x] = "Pending"
  BY <1>0 DEF OneHolder, Distinct, Queued, In
<1>s. ASSUME UNCHANGED <<queue, result>> PROVE Promised' = Promised
  BY <1>s DEF Promised, Queued
<1>1. CASE UNCHANGED vars  BY <1>1, <1>s DEF vars
<1>2. ASSUME NEW j \in Jobs, Issue(j) PROVE Promise!Issue(j)
  <2>1. result[j] = "none" /\ ~In(queue, j) /\ queue \in Seq(Jobs)
    BY <1>0, <1>2, <1>q DEF Issue, OwnerInv, TypeOK
  <2>2. \A x : Queued(x)' <=> (Queued(x) \/ x = j)
    BY <1>2, <1>q, <2>1, AppendFacts DEF Issue
  <2>3. \A x \in Jobs : result'[x] = IF x = j THEN "Pending" ELSE result[x]
    BY <1>0, <1>2 DEF Issue, TypeOK
  <2>4. Promised' = [Promised EXCEPT ![j] = "queued"]
    BY <2>1, <2>2, <2>3, PromisedFacts, OneChanged
  <2>5. Promised[j] = "none"  BY <2>1, PromisedFacts
  <2>6. QED  BY <2>4, <2>5 DEF Promise!Issue
<1>3. ASSUME NEW j \in Jobs, EndIssue(j) \/ Poll(j) \/ Block(j) \/ Return(j)
      PROVE  Promised' = Promised
  BY <1>3, <1>s DEF EndIssue, Poll, Block, Return
<1>4. ASSUME NEW j \in Jobs, Cancel(j) PROVE Promise!Drop({j})
  <2>1. \A x : Queued(x)' <=> (Queued(x) /\ x # j)
    <3>1. PICK k \in DOMAIN queue : queue[k] = j /\ queue' = Seqs!RemoveAt(queue, k)
      BY <1>4 DEF Cancel, Cancellable, Erased, Queued
    <3>2. queue \in Seq(Jobs)  BY <1>0 DEF TypeOK
    <3>3. QED  BY <1>q, <3>1, <3>2, RemoveAtFacts
  <2>2. \A x \in Jobs : result'[x] = IF x = j THEN "Cancelled" ELSE result[x]
    BY <1>0, <1>4 DEF Cancel, TypeOK
  <2>3. Promised[j] = "queued"
    BY <1>q, <1>4, PromisedFacts DEF Cancel, Cancellable
  <2>4. \A x \in Jobs : Promised'[x] = IF x \in {j} THEN "Cancelled" ELSE Promised[x]
    BY <2>1, <2>2, PromisedFacts
  <2>5. QED  BY <2>3, <2>4, PromisedFacts DEF Promise!Drop
<1>5. ASSUME NEW w \in Workers, Take(w) PROVE \E j \in Jobs : Promise!Start(j)
  <2> DEFINE h == Head(queue)
  <2>1. /\ h \in Jobs /\ Queued(h) /\ \A x : Queued(x)' <=> (Queued(x) /\ x # h)
    BY <1>0, <1>5, <1>q, TailFacts DEF Take, Dequeued, TypeOK
  <2>2. result' = result  BY <1>5 DEF Take
  <2> HIDE DEF h
  <2>3. Promised[h] = "queued"  BY <1>q, <2>1, PromisedFacts
  <2>4. Promised' = [Promised EXCEPT ![h] = "running"]
    BY <1>q, <2>1, <2>2, PromisedFacts, OneChanged
  <2>5. QED  BY <2>1, <2>3, <2>4 DEF Promise!Start
<1>6. ASSUME NEW w \in Workers, Sleep(w) \/ Exit(w) \/ Notify(w) PROVE Promised' = Promised
  BY <1>6, <1>s DEF Sleep, Exit, Notify
<1>7. ASSUME NEW w \in Workers, Finish(w) PROVE \E j \in Jobs : Promise!Finish(j)
  <2> DEFINE k == job[w]
  <2>1. k \in Jobs /\ ~Queued(k) /\ result[k] = "Pending"
    BY <1>0, <1>7 DEF Finish, OneHolder, Runs
  <2>2. PICK r \in Results : result' = [result EXCEPT ![k] = r]  BY <1>7 DEF Finish
  <2>3. /\ \A x \in Jobs : result'[x] = IF x = k THEN r ELSE result[x]
        /\ \A x : Queued(x)' <=> Queued(x)
    BY <1>0, <1>7, <2>2 DEF Finish, TypeOK, Queued
  <2> HIDE DEF k
  <2>4. Promised[k] = "running"  BY <2>1, PromisedFacts
  <2>5. Promised' = [Promised EXCEPT ![k] = r]
    <3>1. Promised'[k] = r  BY <2>1, <2>2, <2>3, PromisedFacts
    <3>2. QED  BY <2>1, <2>3, <3>1, PromisedFacts, OneChanged
  <2>6. QED  BY <2>1, <2>2, <2>4, <2>5 DEF Promise!Finish
<1>8. CASE Drain
  <2> DEFINE S == { x \in Jobs : Queued(x) }
  <2>1. /\ \A x \in Jobs : result'[x] = IF Queued(x) THEN "Cancelled" ELSE result[x]
        /\ queue' = <<>>
    BY <1>8 DEF Drain, Dropped
  <2>2. \A x : ~Queued(x)'  BY <2>1 DEF Queued
  <2>3. \A x \in S : Promised[x] = "queued"  BY <1>q, PromisedFacts
  <2>4. \A x \in Jobs : Promised'[x] = IF x \in S THEN "Cancelled" ELSE Promised[x]
    <3>1. ASSUME NEW x \in Jobs PROVE Promised'[x] = IF x \in S THEN "Cancelled" ELSE Promised[x]
      <4>1. CASE Queued(x)  BY <2>1, <4>1, PromisedFacts
      <4>2. CASE ~Queued(x)  BY <2>1, <2>2, <4>2, PromisedFacts
      <4>3. QED  BY <4>1, <4>2
    <3>2. QED  BY <3>1
  <2>5. Promise!Drop(S)  BY <2>3, <2>4, PromisedFacts DEF Promise!Drop
  <2>6. S \in SUBSET Jobs  OBVIOUS
  <2>7. QED  BY <2>5, <2>6 DEF Promise!Next
<1>9. CASE WakeWorkers \/ Join  BY <1>9, <1>s DEF WakeWorkers, Join
<1>10. QED
  BY <1>1, <1>2, <1>3, <1>4, <1>5, <1>6, <1>7, <1>8, <1>9
     DEF Next, CallerStep, WorkerStep, Promise!Next

\* The job system implements JobPromise: no job starts twice, none is dropped once
\* it runs, and each resolves once.
THEOREM SystemImplementsPromise == Spec => ImplementsPromise
<1>1. QED
  BY InvInit, InvStep, RefinementInit, RefinementStep, PTL
     DEF Spec, ImplementsPromise, Promise!Spec

\* The result of a job never changes once it has one: what the owner of the future
\* reads after a successful wait is what the JobFunction returned.
THEOREM ResultsAreFinal == Spec => Promise!ResultIsFinal
<1>1. [Promise!Next]_Promised
      => [\A j \in Jobs : Promised[j] \in Results => Promised'[j] = Promised[j]]_Promised
  <2> SUFFICES ASSUME Promise!Next, NEW j \in Jobs, Promised[j] \in Results
               PROVE  Promised'[j] = Promised[j]
    OBVIOUS
  <2>1. Promised[j] \notin {"none", "queued", "running"}  BY ResultsApart
  <2>2. DOMAIN Promised = Jobs  BY PromisedFacts
  <2> HIDE DEF Promised
  <2>3. ASSUME NEW i \in Jobs, Promise!Issue(i) \/ Promise!Start(i) \/ Promise!Finish(i)
        PROVE  Promised'[j] = Promised[j]
    BY <2>1, <2>2, <2>3 DEF Promise!Issue, Promise!Start, Promise!Finish
  <2>4. ASSUME NEW S \in SUBSET Jobs, Promise!Drop(S) PROVE Promised'[j] = Promised[j]
    BY <2>1, <2>4 DEF Promise!Drop
  <2>5. QED  BY <2>3, <2>4 DEF Promise!Next
<1>2. QED
  BY <1>1, SystemImplementsPromise, PTL DEF ImplementsPromise, Promise!Spec, Promise!ResultIsFinal
=============================================================================
