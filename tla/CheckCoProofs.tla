---------------------------- MODULE CheckCoProofs -----------------------------
(***************************************************************************)
(* The order of the messages of a transaction, for any number of clients   *)
(* and any size of the queue: when a commit is handled all that its        *)
(* transaction did has been handled, and Stop comes last.                  *)
(***************************************************************************)
EXTENDS CheckCo, FiniteSetTheorems, SequenceTheorems, TLAPS

(* Which thread calls what, and for which transaction. *)
Shape(m) ==
    \/ m.op = "start" /\ m.tran = NoTran /\ m.by \in Clients
    \/ m.op \in {"access", "commit", "abort"} /\ m.by \in Clients /\ m.tran = m.by
    \/ m.op \in {"runExcl", "persist", "stop"} /\ m.tran = NoTran /\ m.by = Admin
    \/ m.op = "tick" /\ m.tran = NoTran /\ m.by = Ticker

Shapes ==
    /\ \A j \in DOMAIN items : Shape(items[j])
    /\ \A p \in Threads : at[p] = "putting" =>
          call[p] \in Message /\ Shape(call[p]) /\ call[p].by = p

(* Nothing is called for a transaction before its start is answered, and   *)
(* the start is called once.                                               *)
Starting ==
    /\ \A p \in Clients : tran[p] = "none" => unseen[p] = 0
    /\ \A j \in DOMAIN items : items[j].tran \in Clients => tran[items[j].tran] # "none"
    /\ \A j \in DOMAIN items : items[j].op = "start" =>
          tran[items[j].by] = "none" /\ at[items[j].by] = "waiting"
    /\ \A j, k \in DOMAIN items :
          items[j].op = "start" /\ items[k].op = "start" /\ items[j].by = items[k].by => j = k
    /\ \A p \in Clients : at[p] = "putting" =>
          (call[p].op = "start" <=> tran[p] = "none")

(* The client waits for the answer to a commit, so no message of the       *)
(* transaction is behind it.                                               *)
Committing ==
    \A j \in DOMAIN items : items[j].op = "commit" =>
        /\ at[items[j].by] = "waiting"
        /\ \A k \in DOMAIN items : items[k].tran = items[j].tran => k <= j

(* The reads and writes of p that the checker has not seen yet: on the     *)
(* queue, or waiting for room on it.                                       *)
AccessesAt(s, p) == {j \in 1 .. Len(s) : s[j].op = "access" /\ s[j].by = p}
Accesses(s, p) == Cardinality(AccessesAt(s, p))
Waiting(p) == IF at[p] = "putting" /\ call[p].op = "access" THEN 1 ELSE 0

Counting ==
    \A p \in Clients :
        /\ tran[p] = "active" => unseen[p] = Accesses(items, p) + Waiting(p)
        /\ tran[p] = "committed" => unseen[p] = 0 /\ at[p] = "done"

IInv == TypeOK /\ Shapes /\ Starting /\ Committing /\ Counting
------------------------------------------------------------------------------
(* A non-empty set of natural numbers has a least element. *)
LEMMA LeastExists ==
    ASSUME NEW S \in SUBSET Nat, S # {}
    PROVE  \E m \in S : \A k \in S : m <= k
<1> DEFINE R == {ss \in Nat \X Nat : ss[1] < ss[2]}
<1>1. IsWellFoundedOn(R, Nat)
  BY NatLessThanWellFounded, Zenon DEF OpToRel
<1> HIDE DEF R
<1>2. PICK x \in S : \A y \in S : ~ (<<y, x>> \in R)
  BY <1>1, WFMin, Zenon
<1>3. \A y \in S : ~ (y < x)
  BY Zenon, <1>2 DEF R
<1>4. QED
  BY <1>3

(* Delete closes the gap. *)
LEMMA DeleteProperties ==
    ASSUME NEW S, NEW s \in Seq(S), NEW i \in 1 .. Len(s)
    PROVE  /\ Delete(s, i) \in Seq(S)
           /\ Len(Delete(s, i)) = Len(s) - 1
           /\ DOMAIN Delete(s, i) = 1 .. (Len(s) - 1)
           /\ \A j \in 1 .. (Len(s) - 1) :
                 Delete(s, i)[j] = IF j < i THEN s[j] ELSE s[j + 1]
<1> DEFINE a == SubSeq(s, 1, i - 1)
           b == SubSeq(s, i + 1, Len(s))
<1>0. Len(s) \in Nat /\ \A j \in 1 .. Len(s) : s[j] \in S
  BY ElementOfSeq
<1>1. a \in Seq(S) /\ Len(a) = i - 1 /\ \A j \in 1 .. (i - 1) : a[j] = s[j]
  BY <1>0, SubSeqProperties
<1>2. /\ b \in Seq(S) /\ Len(b) = Len(s) - i
      /\ \A j \in 1 .. (Len(s) - i) : b[j] = s[i + j]
  BY <1>0, SubSeqProperties
<1> HIDE DEF a, b
<1>3. /\ a \o b \in Seq(S) /\ Len(a \o b) = Len(s) - 1
      /\ \A j \in 1 .. (Len(s) - 1) :
            (a \o b)[j] = IF j <= i - 1 THEN a[j] ELSE b[j - (i - 1)]
  <2>1. /\ a \o b \in Seq(S) /\ Len(a \o b) = Len(a) + Len(b)
        /\ \A j \in 1 .. Len(a) + Len(b) :
              (a \o b)[j] = IF j <= Len(a) THEN a[j] ELSE b[j - Len(a)]
    BY Zenon, <1>1, <1>2, ConcatProperties
  <2>2. Len(a) + Len(b) = Len(s) - 1
    BY <1>0, <1>1, <1>2
  <2>3. QED
    BY <1>1, <2>1, <2>2
<1>4. Delete(s, i) = a \o b
  BY DEF Delete, a, b
<1>5. ASSUME NEW j \in 1 .. (Len(s) - 1)
      PROVE  (a \o b)[j] = IF j < i THEN s[j] ELSE s[j + 1]
  <2>1. CASE j < i
    BY <1>0, <1>1, <1>3, <2>1
  <2>2. CASE ~(j < i)
    <3>1. j - (i - 1) \in 1 .. (Len(s) - i) /\ i + (j - (i - 1)) = j + 1
      BY <1>0, <2>2
    <3>2. QED
      BY <1>0, <1>2, <1>3, <2>2, <3>1
  <2>3. QED
    BY Zenon, <2>1, <2>2
<1>6. DOMAIN (a \o b) = 1 .. (Len(s) - 1)
  BY <1>3, LenProperties
<1>7. QED
  BY <1>3, <1>4, <1>5, <1>6

(* The queue has finitely many reads and writes of a transaction. *)
LEMMA AccessesFinite ==
    ASSUME NEW s \in Seq(Message), NEW p
    PROVE  IsFiniteSet(AccessesAt(s, p)) /\ Accesses(s, p) \in Nat
<1>1. Len(s) \in Nat /\ AccessesAt(s, p) \in SUBSET (1 .. Len(s))
  BY DEF AccessesAt
<1>2. IsFiniteSet(1 .. Len(s))
  BY <1>1, FS_Interval
<1>3. IsFiniteSet(AccessesAt(s, p))
  BY <1>1, <1>2, FS_Subset
<1>4. QED
  BY <1>3, FS_CardinalityType DEF Accesses

LEMMA AccessesAppend ==
    ASSUME NEW s \in Seq(Message), NEW m \in Message, NEW p
    PROVE  Accesses(Append(s, m), p) =
              Accesses(s, p) + (IF m.op = "access" /\ m.by = p THEN 1 ELSE 0)
<1> DEFINE t == Append(s, m)
           k == Len(s) + 1
<1>1. /\ Len(s) \in Nat /\ Len(t) = k /\ t[k] = m
      /\ \A j \in 1 .. Len(s) : t[j] = s[j]
  BY AppendProperties
<1>2. k \notin AccessesAt(s, p)
  BY <1>1 DEF AccessesAt
<1>6. IsFiniteSet(AccessesAt(s, p)) /\ Accesses(s, p) \in Nat
  BY AccessesFinite
<1> HIDE DEF t
<1>3. CASE m.op = "access" /\ m.by = p
  <2>1. AccessesAt(t, p) = AccessesAt(s, p) \cup {k}
    BY <1>1, <1>3 DEF AccessesAt
  <2>2. QED
    BY ZenonT(60), <1>2, <1>6, <1>3, <2>1, FS_AddElement DEF Accesses, t
<1>4. CASE ~(m.op = "access" /\ m.by = p)
  <2>1. AccessesAt(t, p) = AccessesAt(s, p)
    BY <1>1, <1>4 DEF AccessesAt
  <2>2. QED
    BY <1>6, <1>4, <2>1 DEF Accesses, t
<1>7. QED
  BY <1>3, <1>4

LEMMA AccessesDelete ==
    ASSUME NEW s \in Seq(Message), NEW i \in 1 .. Len(s), NEW p
    PROVE  Accesses(Delete(s, i), p) =
              Accesses(s, p) - (IF s[i].op = "access" /\ s[i].by = p THEN 1 ELSE 0)
<1> DEFINE t == Delete(s, i)
           A == AccessesAt(s, p) \ {i}
           f == [j \in AccessesAt(t, p) |-> IF j < i THEN j ELSE j + 1]
<1>1. /\ Len(s) \in Nat /\ t \in Seq(Message) /\ Len(t) = Len(s) - 1
      /\ \A j \in 1 .. (Len(s) - 1) : t[j] = IF j < i THEN s[j] ELSE s[j + 1]
  <2>1. Len(s) \in Nat
    OBVIOUS
  <2>2. QED
    BY <2>1, DeleteProperties, Zenon
<1> HIDE DEF t
<1>2. f \in [AccessesAt(t, p) -> A]
  BY <1>1 DEF AccessesAt
<1>3. \A j, k \in AccessesAt(t, p) : f[j] = f[k] => j = k
  BY <1>1 DEF AccessesAt
<1>4. \A k \in A : \E j \in AccessesAt(t, p) : f[j] = k
  <2> SUFFICES ASSUME NEW k \in A PROVE \E j \in AccessesAt(t, p) : f[j] = k
    OBVIOUS
  <2>1. k \in 1 .. Len(s) /\ k # i /\ s[k].op = "access" /\ s[k].by = p
    BY DEF AccessesAt
  <2>2. CASE k < i
    <3>1. k \in AccessesAt(t, p)
      BY <1>1, <2>1, <2>2 DEF AccessesAt
    <3>2. QED
      BY <2>2, <3>1
  <2>3. CASE ~(k < i)
    <3>1. k - 1 \in 1 .. (Len(s) - 1) /\ ~(k - 1 < i) /\ (k - 1) + 1 = k
      BY <1>1, <2>1, <2>3
    <3>2. k - 1 \in AccessesAt(t, p)
      BY <1>1, <2>1, <3>1 DEF AccessesAt
    <3>3. QED
      BY <3>1, <3>2
  <2>4. QED
    BY <2>2, <2>3
<1>5. IsFiniteSet(AccessesAt(t, p)) /\ IsFiniteSet(AccessesAt(s, p)) /\ Accesses(s, p) \in Nat
  BY <1>1, AccessesFinite
<1> HIDE DEF f
<1>6. f \in Bijection(AccessesAt(t, p), A)
  BY <1>2, <1>3, <1>4 DEF Bijection, Injection, Surjection, IsInjective
<1> HIDE DEF A
<1>7. Cardinality(A) = Cardinality(AccessesAt(t, p))
  BY <1>5, <1>6, FS_Bijection DEF ExistsBijection
<1>8. Cardinality(A) = IF i \in AccessesAt(s, p) THEN Cardinality(AccessesAt(s, p)) - 1
                       ELSE Cardinality(AccessesAt(s, p))
  BY Zenon, <1>5, FS_RemoveElement DEF A
<1>9. i \in AccessesAt(s, p) <=> s[i].op = "access" /\ s[i].by = p
  BY DEF AccessesAt
<1>10. QED
  BY <1>5, <1>7, <1>8, <1>9 DEF Accesses, t

(* Get finds an item: one that is the oldest of its transaction, and no    *)
(* oldest item has a higher priority.                                      *)
LEMMA BestProperties ==
    ASSUME TypeOK, items # <<>>
    PROVE  /\ best \in DOMAIN items /\ isOldest(best)
           /\ \A j \in DOMAIN items : isOldest(j) =>
                 priority(items[j].op) <= priority(items[best].op)
<1> DEFINE C == {i \in DOMAIN items : isOldest(i)}
           p(i) == priority(items[i].op)
           L == {3 - p(i) : i \in C}
           Better(i, j) == p(j) < p(i) \/ (p(j) = p(i) /\ i <= j)
<1>1. Len(items) \in Nat \ {0} /\ DOMAIN items = 1 .. Len(items)
  BY EmptySeq, LenProperties DEF TypeOK
<1>2. \A i \in C : p(i) \in 0 .. 3
  BY DEF priority
<1>3. 1 \in C
  BY <1>1 DEF isOldest
<1>4. C \in SUBSET Nat
  BY <1>1
<1> HIDE DEF C, p
<1>5. L \in SUBSET Nat /\ L # {}
  BY <1>2, <1>3
<1>6. PICK l \in L : \A k \in L : l <= k
  <2> HIDE DEF L
  <2> QED
    BY <1>5, LeastExists
<1> DEFINE D == {i \in C : 3 - p(i) = l}
<1>7. D \in SUBSET Nat /\ D # {}
  BY Zenon, <1>4, <1>6
<1>8. PICK b \in D : \A j \in D : b <= j
  <2> HIDE DEF D
  <2> QED
    BY <1>7, LeastExists
<1>9. b \in C /\ \A j \in C : Better(b, j)
  <2>1. b \in C /\ 3 - p(b) = l
    OBVIOUS
  <2>2. ASSUME NEW j \in C PROVE Better(b, j)
    <3>1. 3 - p(j) \in L /\ l <= 3 - p(j)
      BY <1>6
    <3>2. CASE 3 - p(j) = l
      BY <1>2, <1>8, <2>1, <3>2
    <3>3. CASE 3 - p(j) # l
      <4>1. p(j) \in Int /\ p(b) \in Int
        BY <1>2, <2>1
      <4>2. p(j) < p(b)
        BY <2>1, <3>1, <3>3, <4>1
      <4>3. QED
        BY <4>2
    <3>4. QED
      BY <3>2, <3>3
  <2>3. QED
    BY <2>1, <2>2
<1>10. best = CHOOSE i \in C : \A j \in C : Better(i, j)
  BY DEF best, C, p
<1> HIDE DEF Better
<1>11. best \in C /\ \A j \in C : Better(best, j)
  BY <1>9, <1>10, Zenon
<1>12. \A j \in C : p(j) <= p(best)
  BY <1>2, <1>11 DEF Better
<1>13. QED
  BY <1>11, <1>12 DEF C, p

(* What is left on the queue after Get keeps its order. *)
LEMMA Shift ==
    ASSUME TypeOK, NEW i \in DOMAIN items, items' = Delete(items, i)
    PROVE  /\ items' \in Seq(Message) /\ Len(items') <= bufSize
           /\ \A j, k \in DOMAIN items' : \E a, b \in DOMAIN items :
                 /\ a # i /\ b # i /\ items'[j] = items[a] /\ items'[k] = items[b]
                 /\ (a = b <=> j = k) /\ (a <= b <=> j <= k)
           /\ \A j \in DOMAIN items' : \E a \in DOMAIN items : a # i /\ items'[j] = items[a]
           /\ \A p : Accesses(items', p) = Accesses(items, p)
                       - (IF items[i].op = "access" /\ items[i].by = p THEN 1 ELSE 0)
<1> DEFINE g(j) == IF j < i THEN j ELSE j + 1
<1>1. /\ items \in Seq(Message) /\ Len(items) \in Nat /\ Len(items) <= bufSize
      /\ DOMAIN items = 1 .. Len(items) /\ i \in 1 .. Len(items)
  BY LenProperties DEF TypeOK
<1>2. /\ items' \in Seq(Message) /\ Len(items') = Len(items) - 1
      /\ DOMAIN items' = 1 .. (Len(items) - 1)
      /\ \A j \in 1 .. (Len(items) - 1) :
            items'[j] = IF j < i THEN items[j] ELSE items[j + 1]
  <2>1. items \in Seq(Message) /\ i \in 1 .. Len(items)
    BY <1>1
  <2>2. QED
    BY <2>1, DeleteProperties, Zenon
<1>3. \A j \in DOMAIN items' : g(j) \in DOMAIN items /\ g(j) # i /\ items'[j] = items[g(j)]
  BY <1>1, <1>2
<1>4. \A j, k \in DOMAIN items' : (g(j) = g(k) <=> j = k) /\ (g(j) <= g(k) <=> j <= k)
  BY <1>1, <1>2
<1>5. Len(items') <= bufSize
  BY <1>1, <1>2, CheckCoAssumption
<1>6. \A p : Accesses(items', p) = Accesses(items, p)
               - (IF items[i].op = "access" /\ items[i].by = p THEN 1 ELSE 0)
  BY <1>1, AccessesDelete
<1> HIDE DEF g
<1>7. QED
  BY ZenonT(60), <1>2, <1>3, <1>4, <1>5, <1>6

(* No item before the oldest of a transaction, and none after its commit. *)
LEMMA CommitIsAlone ==
    ASSUME IInv, NEW i \in DOMAIN items, isOldest(i), items[i].op = "commit",
           NEW k \in DOMAIN items, items[k].tran = items[i].tran
    PROVE  k = i
<1>1. DOMAIN items = 1 .. Len(items) /\ Len(items) \in Nat
  BY LenProperties DEF IInv, TypeOK
<1>2. k <= i
  BY DEF IInv, Committing
<1>3. ~(k < i)
  BY <1>1 DEF isOldest
<1>4. QED
  BY <1>1, <1>2, <1>3

(* A transaction that no item of the queue is about has no reads or writes *)
(* on it.                                                                  *)
LEMMA NoAccesses ==
    ASSUME TypeOK, Shapes, NEW p \in Clients,
           \A k \in DOMAIN items : items[k].op = "access" => items[k].tran # p
    PROVE  Accesses(items, p) = 0
<1>1. DOMAIN items = 1 .. Len(items)
  BY LenProperties DEF TypeOK
<1>2. AccessesAt(items, p) = {}
  BY <1>1 DEF AccessesAt, Shapes, Shape
<1>3. QED
  BY <1>2, FS_EmptySet DEF Accesses
------------------------------------------------------------------------------
(* What thread p may call. *)
MayCall(p, m) ==
    /\ m \in Message /\ Shape(m) /\ m.by = p
    /\ p \in Clients => (m.op = "start" <=> tran[p] = "none")

(* A message is queued, by a call that finds room or by the rest of a Put. *)
Queued(p, m) ==
    /\ at[p] \in {"idle", "putting"} /\ (at[p] = "putting" => call[p] = m)
    /\ HasRoom /\ items' = Append(items, m) /\ at' = [at EXCEPT ![p] = After(m.op)]
    /\ call' = call \/ call' = [call EXCEPT ![p] = NoCall]
    /\ UNCHANGED <<tran, age, busy, stopped>>

(* unseen counts the call, unless it did when the Put began to wait. *)
Counted(p, m) ==
    /\ unseen' \in [Clients -> Nat]
    /\ \A q \in Clients : q # p => unseen'[q] = unseen[q]
    /\ p \in Clients => unseen'[p] + Waiting(p) =
                            unseen[p] + (IF m.op = "access" THEN 1 ELSE 0)

LEMMA Enqueue ==
    ASSUME IInv, NEW p \in Threads, NEW m, MayCall(p, m), Queued(p, m), Counted(p, m)
    PROVE  IInv'
<1> DEFINE n == Len(items) + 1
<1>a. /\ m \in Message /\ Shape(m) /\ m.by = p
      /\ p \in Clients => (m.op = "start" <=> tran[p] = "none")
  BY DEF MayCall
<1>b. /\ at[p] \in {"idle", "putting"} /\ (at[p] = "putting" => call[p] = m)
      /\ HasRoom /\ items' = Append(items, m) /\ at' = [at EXCEPT ![p] = After(m.op)]
      /\ call' = call \/ call' = [call EXCEPT ![p] = NoCall]
  BY DEF Queued
<1>c. tran' = tran /\ age' = age /\ busy' = busy /\ stopped' = stopped
  BY DEF Queued
<1>1. /\ Len(items) \in Nat /\ DOMAIN items = 1 .. Len(items) /\ Len(items') = n
      /\ DOMAIN items' = 1 .. n /\ items' \in Seq(Message) /\ items'[n] = m
      /\ \A j \in DOMAIN items : j \in DOMAIN items' /\ j # n /\ items'[j] = items[j]
      /\ \A j \in DOMAIN items' : j # n => j \in DOMAIN items
  <2>1. items \in Seq(Message)
    BY DEF IInv, TypeOK
  <2>2. QED
    BY <1>a, <1>b, <2>1, AppendProperties, LenProperties
<1>2. /\ After(m.op) \in {"idle", "waiting", "done"}
      /\ at'[p] = After(m.op) /\ \A q \in Threads : q # p => at'[q] = at[q]
      /\ at' \in [Threads -> {"idle", "putting", "waiting", "done"}]
  BY <1>b DEF IInv, TypeOK, After
<1>3. /\ call' \in [Threads -> Message \cup {NoCall}]
      /\ \A q \in Threads : q # p => call'[q] = call[q]
  <2>1. call \in [Threads -> Message \cup {NoCall}]
    BY DEF IInv, TypeOK
  <2>2. CASE call' = call
    BY <2>1, <2>2
  <2>3. CASE call' = [call EXCEPT ![p] = NoCall]
    BY <2>1, <2>3
  <2>4. QED
    BY <1>b, <2>2, <2>3
<1>4. TypeOK'
  <2>1. Len(items') <= bufSize
    BY <1>1, <1>b, CheckCoAssumption DEF HasRoom
  <2>2. QED
    BY <1>c, <1>1, <1>2, <1>3, <2>1 DEF IInv, TypeOK, Counted
<1>5. Shapes /\ Starting /\ Committing /\ Clients \subseteq Threads
  BY DEF IInv, Threads
<1>6. Shapes'
  <2>1. \A j \in DOMAIN items' : Shape(items'[j])
    BY <1>a, <1>1, <1>5 DEF Shapes
  <2>2. \A q \in Threads : at'[q] = "putting" =>
           call'[q] \in Message /\ Shape(call'[q]) /\ call'[q].by = q
    BY <1>2, <1>3, <1>5 DEF Shapes
  <2>3. QED
    BY <2>1, <2>2 DEF Shapes, Shape
<1>7. \A j \in DOMAIN items : items[j].op = "start" => items[j].by # p
  BY <1>b, <1>5 DEF Starting
<1>8. Starting'
  <2>1. \A q \in Clients : tran[q] = "none" => unseen'[q] = 0
    <3>1. p \in Clients /\ tran[p] = "none" => m.op = "start" /\ Waiting(p) = 0
      BY <1>a, <1>b DEF Waiting
    <3>2. p \in Clients /\ tran[p] = "none" => unseen'[p] = unseen[p]
      BY <3>1 DEF Counted, IInv, TypeOK
    <3>3. QED
      BY <1>5, <3>2 DEF Starting, Counted
  <2>2. \A j \in DOMAIN items' : items'[j].tran \in Clients => tran[items'[j].tran] # "none"
    <3>1. m.tran \in Clients => tran[m.tran] # "none"
      BY <1>a, ThreadsAssumption DEF Shape
    <3>2. QED
      BY <1>1, <1>5, <3>1 DEF Starting
  <2>3. \A j \in DOMAIN items' : items'[j].op = "start" =>
           tran[items'[j].by] = "none" /\ at'[items'[j].by] = "waiting"
    <3>1. m.op = "start" => tran[m.by] = "none" /\ at'[m.by] = "waiting"
      BY <1>a, <1>2 DEF Shape, After
    <3>2. \A j \in DOMAIN items : items[j].op = "start" =>
             items[j].by \in Threads /\ items[j].by # p
             /\ tran[items[j].by] = "none" /\ at[items[j].by] = "waiting"
      BY <1>5, <1>7 DEF Starting, Shapes, Shape
    <3>3. QED
      BY <1>1, <1>2, <3>1, <3>2
  <2>4. \A j, k \in DOMAIN items' :
           items'[j].op = "start" /\ items'[k].op = "start" /\ items'[j].by = items'[k].by
           => j = k
    BY <1>a, <1>1, <1>5, <1>7 DEF Starting
  <2>5. \A q \in Clients : at'[q] = "putting" => (call'[q].op = "start" <=> tran[q] = "none")
    BY <1>2, <1>3, <1>5 DEF Starting
  <2>6. QED
    BY <1>c, <2>1, <2>2, <2>3, <2>4, <2>5 DEF Starting
<1>9. Committing'
  <2> SUFFICES ASSUME NEW j \in DOMAIN items', items'[j].op = "commit"
               PROVE  /\ at'[items'[j].by] = "waiting"
                      /\ \A k \in DOMAIN items' : items'[k].tran = items'[j].tran => k <= j
    BY DEF Committing
  <2>1. CASE j = n
    BY <1>a, <1>1, <1>2, <2>1 DEF After
  <2>2. CASE j # n
    <3>1. j \in DOMAIN items /\ items'[j] = items[j]
      BY <1>1, <2>2
    <3>2. items[j].tran = items[j].by /\ items[j].by \in Clients
      BY <1>5, <3>1 DEF Shapes, Shape
    <3>3. at[items[j].by] = "waiting" /\ items[j].by # p
      BY <1>b, <1>5, <3>1 DEF Committing
    <3>4. at'[items[j].by] = "waiting"
      BY <1>2, <1>5, <3>2, <3>3
    <3>5. m.tran # items[j].tran
      BY <1>a, <3>2, <3>3, ThreadsAssumption DEF Shape
    <3>6. \A k \in DOMAIN items : items[k].tran = items[j].tran => k <= j
      BY <1>5, <3>1 DEF Committing
    <3>7. QED
      BY <1>1, <3>1, <3>4, <3>5, <3>6
  <2>3. QED
    BY <2>1, <2>2
<1>10. Counting'
  <2> SUFFICES ASSUME NEW q \in Clients
               PROVE  /\ tran[q] = "active" =>
                            unseen'[q] = Accesses(items', q) + Waiting(q)'
                      /\ tran[q] = "committed" => unseen'[q] = 0 /\ at'[q] = "done"
    BY <1>c DEF Counting
  <2>1. /\ unseen[q] \in Nat
        /\ tran[q] = "active" => unseen[q] = Accesses(items, q) + Waiting(q)
        /\ tran[q] = "committed" => unseen[q] = 0 /\ at[q] = "done"
        /\ unseen'[q] \in Nat
    BY DEF IInv, TypeOK, Counting, Counted
  <2>2. /\ Accesses(items, q) \in Nat
        /\ Accesses(items', q) = Accesses(items, q) +
              (IF m.op = "access" /\ m.by = q THEN 1 ELSE 0)
    BY SMTT(60), <1>a, <1>b, AccessesFinite, AccessesAppend DEF IInv, TypeOK
  <2>3. CASE q # p
    <3>1. Waiting(q)' = Waiting(q) /\ at'[q] = at[q] /\ unseen'[q] = unseen[q]
      BY SMTT(60), <1>2, <1>3, <1>5, <2>3 DEF Waiting, Counted
    <3>2. QED
      BY SMTT(60), <1>a, <2>1, <2>2, <2>3, <3>1
  <2>4. CASE q = p
    <3>1. Waiting(q)' = 0 /\ Waiting(q) \in {0, 1} /\ (Waiting(q) = 1 => m.op = "access")
      BY <1>b, <1>2, <2>4 DEF Waiting
    <3>2. tran[q] # "committed"
      BY <1>b, <2>1, <2>4
    <3>3. CASE m.op = "access"
      <4>1. Accesses(items', q) = Accesses(items, q) + 1 /\ unseen'[q] + Waiting(q) = unseen[q] + 1
        BY <1>a, <2>2, <2>4, <3>3 DEF Counted
      <4>2. QED
        BY <2>1, <2>2, <3>1, <3>2, <4>1
    <3>4. CASE m.op # "access"
      <4>1. Accesses(items', q) = Accesses(items, q) /\ unseen'[q] = unseen[q] /\ Waiting(q) = 0
        BY <2>1, <2>2, <2>4, <3>1, <3>4 DEF Counted
      <4>2. QED
        BY SMTT(60), <2>1, <2>2, <3>1, <3>2, <4>1
    <3>5. QED
      BY <3>3, <3>4
  <2>5. QED
    BY <2>3, <2>4
<1>11. QED
  BY <1>4, <1>6, <1>8, <1>9, <1>10 DEF IInv

(* A call up to its Put. *)
LEMMA CallKeeps ==
    ASSUME IInv, NEW p \in Threads, NEW m, MayCall(p, m), Call(p, m),
           unseen' = IF m.op = "access" THEN [unseen EXCEPT ![p] = @ + 1] ELSE unseen,
           m.op = "access" => p \in Clients
    PROVE  IInv'
<1>1. at[p] = "idle" /\ UNCHANGED <<tran, age, busy, stopped>>
  BY DEF Call
<1>2. Waiting(p) = 0
  BY <1>1 DEF Waiting
<1>3. Counted(p, m)
  <2>1. unseen \in [Clients -> Nat]
    BY DEF IInv, TypeOK
  <2>2. CASE m.op = "access"
    <3>1. unseen[p] + 1 \in Nat
      BY <2>1, <2>2
    <3>2. QED
      BY <1>2, <2>1, <2>2, <3>1 DEF Counted
  <2>3. CASE m.op # "access"
    BY <1>2, <2>1, <2>3 DEF Counted
  <2>4. QED
    BY <2>2, <2>3
<1>4. CASE HasRoom
  <2>1. Queued(p, m)
    BY <1>1, <1>4 DEF Call, Queued
  <2>2. QED
    BY <1>3, <2>1, Enqueue
<1>5. CASE ~HasRoom
  <2>1. /\ items' = items /\ at' = [at EXCEPT ![p] = "putting"]
        /\ call' = [call EXCEPT ![p] = m]
    BY <1>5 DEF Call
  <2>2. /\ at' \in [Threads -> {"idle", "putting", "waiting", "done"}]
        /\ call' \in [Threads -> Message \cup {NoCall}]
        /\ at'[p] = "putting" /\ call'[p] = m
        /\ \A q \in Threads : q # p => at'[q] = at[q] /\ call'[q] = call[q]
    BY <2>1 DEF IInv, TypeOK, MayCall
  <2>3. Shapes /\ Starting /\ Committing /\ Clients \subseteq Threads
    BY DEF IInv, Threads
  <2>4. TypeOK'
    BY SMTT(60), <1>1, <1>3, <2>1, <2>2 DEF IInv, TypeOK, Counted
  <2>5. Shapes'
    BY SMTT(60), <2>1, <2>2, <2>3 DEF Shapes, Shape, MayCall
  <2>6. Starting'
    <3>1. \A q \in Clients : tran[q] = "none" => unseen'[q] = 0
      BY SMTT(60), <2>3, CheckCoAssumption DEF Starting, MayCall, IInv, TypeOK
    <3>2. \A j \in DOMAIN items : items[j].op = "start" =>
             tran[items[j].by] = "none" /\ at'[items[j].by] = "waiting"
      <4>1. \A j \in DOMAIN items : items[j].op = "start" =>
               items[j].by \in Threads /\ tran[items[j].by] = "none"
               /\ at[items[j].by] = "waiting"
        BY <2>3 DEF Starting, Shapes, Shape
      <4>2. QED
        BY SMTT(60), <1>1, <2>2, <4>1
    <3>3. \A q \in Clients : at'[q] = "putting" => (call'[q].op = "start" <=> tran[q] = "none")
      BY <2>2, <2>3 DEF Starting, MayCall
    <3>4. QED
      BY SMTT(60), <1>1, <2>1, <2>3, <3>1, <3>2, <3>3 DEF Starting
  <2>7. Committing'
    <3>1. \A j \in DOMAIN items : items[j].op = "commit" =>
             items[j].by \in Threads /\ at[items[j].by] = "waiting"
      BY <2>3 DEF Committing, Shapes, Shape
    <3>2. \A j \in DOMAIN items : items[j].op = "commit" => at'[items[j].by] = "waiting"
      BY SMTT(60), <1>1, <2>2, <3>1
    <3>3. QED
      BY <2>1, <2>3, <3>2 DEF Committing
  <2>8. Counting'
    <3> SUFFICES ASSUME NEW q \in Clients
                 PROVE  /\ tran[q] = "active" =>
                              unseen'[q] = Accesses(items, q) + Waiting(q)'
                        /\ tran[q] = "committed" => unseen'[q] = 0 /\ at'[q] = "done"
      BY <1>1, <2>1 DEF Counting
    <3>1. /\ unseen[q] \in Nat
          /\ tran[q] = "active" => unseen[q] = Accesses(items, q) + Waiting(q)
          /\ tran[q] = "committed" => unseen[q] = 0 /\ at[q] = "done"
          /\ unseen'[q] \in Nat /\ Accesses(items, q) \in Nat
      BY SMTT(60), <1>3, AccessesFinite DEF IInv, TypeOK, Counting, Counted
    <3>2. CASE q # p
      <4>1. Waiting(q)' = Waiting(q) /\ at'[q] = at[q] /\ unseen'[q] = unseen[q]
        BY SMTT(60), <1>3, <2>2, <2>3, <3>2 DEF Waiting, Counted
      <4>2. QED
        BY <3>1, <4>1
    <3>3. CASE q = p
      <4>1. Waiting(q)' = (IF m.op = "access" THEN 1 ELSE 0) /\ Waiting(q) = 0
        BY SMTT(60), <1>2, <2>2, <3>3 DEF Waiting
      <4>2. unseen'[q] = unseen[q] + (IF m.op = "access" THEN 1 ELSE 0)
        BY <1>2, <1>3, <3>1, <3>3 DEF Counted
      <4>3. tran[q] # "committed"
        BY <1>1, <3>1, <3>3
      <4>4. QED
        BY SMTT(60), <3>1, <4>1, <4>2, <4>3
    <3>4. QED
      BY <3>2, <3>3
  <2>9. QED
    BY <2>4, <2>5, <2>6, <2>7, <2>8 DEF IInv
<1>6. QED
  BY <1>4, <1>5

(* The rest of a Put that had to wait. *)
LEMMA PutKeeps ==
    ASSUME IInv, NEW p \in Threads, Put(p)
    PROVE  IInv'
<1>1. MayCall(p, call[p])
  BY DEF Put, IInv, Shapes, Starting, MayCall
<1>2. Queued(p, call[p])
  BY DEF Put, Queued
<1>3. Counted(p, call[p])
  <2>1. Waiting(p) = (IF call[p].op = "access" THEN 1 ELSE 0)
    BY DEF Put, Waiting
  <2>2. unseen' = unseen /\ unseen \in [Clients -> Nat]
    BY DEF Put, IInv, TypeOK
  <2>3. QED
    BY <2>1, <2>2 DEF Counted
<1>4. QED
  BY <1>1, <1>2, <1>3, Enqueue
------------------------------------------------------------------------------
(* The checker gets item i; the callers do nothing. *)
Gets(i) ==
    isOldest(i) /\ items' = Delete(items, i) /\ call' = call

(* It may answer the caller of a start or a commit, and only a start       *)
(* begins a transaction.                                                   *)
Answers(i) ==
    /\ \A p \in Threads : at'[p] = at[p] \/
          (/\ p = items[i].by /\ items[i].op \in {"start", "commit"}
           /\ at'[p] \in {"idle", "done"})
    /\ \A q \in Clients : tran'[q] = "none" => tran[q] = "none" /\ unseen'[q] = unseen[q]
    /\ \A q \in Clients : tran[q] = "none" =>
          tran'[q] = "none" \/ (q = items[i].by /\ items[i].op = "start")

(* What Get keeps whatever the message is. *)
LEMMA RemoveKeeps ==
    ASSUME IInv, NEW i \in DOMAIN items, Gets(i), Answers(i)
    PROVE  /\ items' \in Seq(Message) /\ Len(items') <= bufSize
           /\ \A p : Accesses(items', p) = Accesses(items, p)
                       - (IF items[i].op = "access" /\ items[i].by = p THEN 1 ELSE 0)
           /\ Shapes' /\ Starting' /\ Committing'
<1>1. TypeOK /\ Shapes /\ Starting /\ Committing /\ Clients \subseteq Threads
  BY DEF IInv, Threads
<1>2. \A j, k \in DOMAIN items' : \E a, b \in DOMAIN items :
         /\ a # i /\ b # i /\ items'[j] = items[a] /\ items'[k] = items[b]
         /\ (a = b <=> j = k) /\ (a <= b <=> j <= k)
  BY <1>1, Shift DEF Gets
<1>3. \A j \in DOMAIN items' : \E a \in DOMAIN items : a # i /\ items'[j] = items[a]
  BY <1>1, Shift DEF Gets
<1>4. /\ \A p \in Threads : at'[p] = "putting" => at[p] = "putting"
      /\ call' = call
  BY SMTT(60) DEF Answers, Gets
<1>5. Shapes'
  <2>1. \A j \in DOMAIN items' : Shape(items'[j])
    BY SMTT(60), <1>1, <1>3 DEF Shapes
  <2>2. QED
    BY SMTT(60), <1>1, <1>4, <2>1 DEF Shapes, Shape
<1>6. items[i].op = "start" =>
         items[i].by \in Clients /\ tran[items[i].by] = "none" /\ at[items[i].by] = "waiting"
  BY SMTT(60), <1>1 DEF Starting, Shapes, Shape
<1>7. items[i].op = "commit" =>
         items[i].by \in Clients /\ items[i].tran = items[i].by /\ tran[items[i].by] # "none"
  BY <1>1 DEF Starting, Shapes, Shape
<1>8. Starting'
  <2>1. \A q \in Clients : tran'[q] = "none" => unseen'[q] = 0
    BY <1>1, <1>4 DEF Starting, Answers
  <2>2. \A j \in DOMAIN items' : items'[j].tran \in Clients => tran'[items'[j].tran] # "none"
    BY <1>1, <1>3 DEF Starting, Answers
  <2>3. \A j \in DOMAIN items' : items'[j].op = "start" =>
           tran'[items'[j].by] = "none" /\ at'[items'[j].by] = "waiting"
    <3> SUFFICES ASSUME NEW a \in DOMAIN items, a # i, items[a].op = "start"
                 PROVE  tran'[items[a].by] = "none" /\ at'[items[a].by] = "waiting"
      BY <1>3
    <3>1. /\ items[a].by \in Clients /\ items[a].by \in Threads
          /\ tran[items[a].by] = "none" /\ at[items[a].by] = "waiting"
      BY SMTT(60), <1>1 DEF Starting, Shapes, Shape
    <3>2. items[i].op = "start" => items[a].by # items[i].by
      BY <1>1 DEF Starting
    <3>3. items[i].op = "commit" => items[a].by # items[i].by
      BY SMTT(60), <1>7, <3>1
    <3>4. QED
      BY <3>1, <3>2, <3>3 DEF Answers
  <2>4. \A j, k \in DOMAIN items' :
           items'[j].op = "start" /\ items'[k].op = "start" /\ items'[j].by = items'[k].by
           => j = k
    <3> SUFFICES ASSUME NEW j \in DOMAIN items', NEW k \in DOMAIN items',
                        items'[j].op = "start", items'[k].op = "start",
                        items'[j].by = items'[k].by
                 PROVE  j = k
      OBVIOUS
    <3>1. PICK a, b \in DOMAIN items :
             items'[j] = items[a] /\ items'[k] = items[b] /\ (a = b <=> j = k)
      BY <1>2
    <3>2. QED
      BY <1>1, <3>1 DEF Starting
  <2>5. \A q \in Clients : at'[q] = "putting" => (call'[q].op = "start" <=> tran'[q] = "none")
    <3> SUFFICES ASSUME NEW q \in Clients, at'[q] = "putting"
                 PROVE  call[q].op = "start" <=> tran'[q] = "none"
      BY <1>4
    <3>1. at[q] = "putting" /\ (call[q].op = "start" <=> tran[q] = "none")
      BY <1>1, <1>4 DEF Starting
    <3>2. tran[q] = "none" <=> tran'[q] = "none"
      BY <1>6, <3>1 DEF Answers
    <3>3. QED
      BY <3>1, <3>2
  <2>6. QED
    BY SMTT(60), <2>1, <2>2, <2>3, <2>4, <2>5 DEF Starting
<1>9. Committing'
  <2> SUFFICES ASSUME NEW j \in DOMAIN items', items'[j].op = "commit"
               PROVE  /\ at'[items'[j].by] = "waiting"
                      /\ \A k \in DOMAIN items' : items'[k].tran = items'[j].tran => k <= j
    BY DEF Committing
  <2>1. at'[items'[j].by] = "waiting"
    <3>1. PICK a \in DOMAIN items : a # i /\ items'[j] = items[a]
      BY SMTT(60), <1>3
    <3>2. /\ items[a].by \in Threads /\ items[a].by \in Clients
          /\ items[a].tran = items[a].by /\ at[items[a].by] = "waiting"
      BY SMTT(60), <1>1, <3>1 DEF Committing, Shapes, Shape
    <3>3. items[i].op = "start" => items[a].by # items[i].by
      BY SMTT(60), <1>1, <1>6, <3>2 DEF Starting
    <3>4. items[i].op = "commit" => items[a].by # items[i].by
      BY SMTT(60), <1>7, <3>1, <3>2, CommitIsAlone DEF Gets
    <3>5. QED
      BY <3>1, <3>2, <3>3, <3>4 DEF Answers
  <2>2. ASSUME NEW k \in DOMAIN items', items'[k].tran = items'[j].tran
        PROVE  k <= j
    <3>1. PICK a, b \in DOMAIN items :
             items'[k] = items[a] /\ items'[j] = items[b] /\ (a <= b <=> k <= j)
      BY <1>2
    <3>2. QED
      BY <1>1, <2>2, <3>1 DEF Committing
  <2>3. QED
    BY <2>1, <2>2
<1>10. QED
  BY <1>1, <1>5, <1>8, <1>9, Shift DEF Gets

(* Active transactions may fail. *)
MayFail ==
    /\ tran' \in [Clients -> {"none", "active", "failed", "committed"}]
    /\ \A q \in Clients : tran'[q] = tran[q] \/ (tran[q] = "active" /\ tran'[q] = "failed")

(* The messages after which a transaction is as it was, or failed. *)
LEMMA GetQuiet ==
    ASSUME IInv, NEW i \in DOMAIN items, Gets(i), MayFail, UNCHANGED <<at, unseen>>,
           items[i].op = "access" => tran[items[i].by] # "active",
           age' \in [Clients -> 0 .. (MaxAge - 1)],
           busy' \in BOOLEAN, stopped' \in BOOLEAN
    PROVE  IInv'
<1>1. Answers(i)
  BY DEF Answers, MayFail
<1>2. Shapes' /\ Starting' /\ Committing' /\ call' = call
  BY SMTT(60), <1>1, RemoveKeeps DEF Gets
<1>3. TypeOK'
  BY SMTT(60), <1>1, <1>2, RemoveKeeps DEF IInv, TypeOK, MayFail
<1>4. Counting'
  <2> SUFFICES ASSUME NEW q \in Clients
               PROVE  /\ tran'[q] = "active" =>
                            unseen[q] = Accesses(items', q) + Waiting(q)'
                      /\ tran'[q] = "committed" => unseen[q] = 0 /\ at[q] = "done"
    BY <1>2 DEF Counting
  <2>1. Waiting(q)' = Waiting(q)
    BY <1>2 DEF Waiting
  <2>2. Accesses(items, q) \in Nat
    BY SMTT(60), AccessesFinite DEF IInv, TypeOK
  <2>3. tran'[q] \in {"active", "committed"} => tran'[q] = tran[q]
    BY SMTT(60) DEF MayFail
  <2>4. tran'[q] = "active" => Accesses(items', q) = Accesses(items, q)
    BY <1>1, <2>2, <2>3, RemoveKeeps
  <2>5. QED
    BY SMTT(60), <2>1, <2>3, <2>4 DEF IInv, Counting
<1>5. QED
  BY <1>2, <1>3, <1>4 DEF IInv

(* The start of a transaction: nothing has been called for it before. *)
LEMMA GetStart ==
    ASSUME IInv, NEW i \in DOMAIN items, Gets(i), Get(items[i]), items[i].op = "start"
    PROVE  IInv'
<1> DEFINE p == items[i].by
<1>1. TypeOK /\ Shapes /\ Starting /\ Counting /\ Clients \subseteq Threads
  BY SMTT(60) DEF IInv, Threads
<1>2. p \in Clients /\ tran[p] = "none" /\ unseen[p] = 0
  BY SMTT(60), <1>1 DEF Starting, Shapes, Shape
<1>3. /\ tran' = [tran EXCEPT ![p] = "active"] /\ at' = [at EXCEPT ![p] = "idle"]
      /\ UNCHANGED <<call, age, unseen, busy, stopped>>
  BY SMTT(60) DEF Get, Dispatch, Answer
<1>4. /\ tran' \in [Clients -> {"none", "active", "failed", "committed"}]
      /\ at' \in [Threads -> {"idle", "putting", "waiting", "done"}]
      /\ tran'[p] = "active" /\ at'[p] = "idle"
      /\ \A q \in Clients : q # p => tran'[q] = tran[q]
      /\ \A q \in Threads : q # p => at'[q] = at[q]
  BY SMTT(60), <1>1, <1>2, <1>3 DEF TypeOK
<1>5. Answers(i)
  BY SMTT(60), <1>3, <1>4 DEF Answers
<1>6. TypeOK'
  BY SMTT(60), <1>1, <1>3, <1>4, <1>5, RemoveKeeps DEF TypeOK
<1>7. Accesses(items, p) = 0
  BY SMTT(60), <1>1, <1>2, NoAccesses DEF Starting
<1>8. Counting'
  <2> SUFFICES ASSUME NEW q \in Clients
               PROVE  /\ tran'[q] = "active" =>
                            unseen[q] = Accesses(items', q) + Waiting(q)'
                      /\ tran'[q] = "committed" => unseen[q] = 0 /\ at'[q] = "done"
    BY SMTT(60), <1>3 DEF Counting
  <2>1. Accesses(items, q) \in Nat
    BY SMTT(60), <1>1, AccessesFinite DEF TypeOK
  <2>2. Accesses(items', q) = Accesses(items, q)
    BY SMTT(60), <1>5, <2>1, RemoveKeeps
  <2>3. CASE q # p
    <3>1. Waiting(q)' = Waiting(q) /\ at'[q] = at[q] /\ tran'[q] = tran[q]
      BY SMTT(60), <1>1, <1>3, <1>4, <2>3 DEF Waiting
    <3>2. QED
      BY SMTT(60), <1>1, <2>2, <3>1 DEF Counting
  <2>4. CASE q = p
    <3>1. Waiting(q)' = 0
      BY SMTT(60), <1>4, <2>4 DEF Waiting
    <3>2. QED
      BY SMTT(60), <1>2, <1>4, <1>7, <2>2, <2>4, <3>1
  <2>5. QED
    BY SMTT(60), <2>3, <2>4
<1>9. QED
  BY <1>5, <1>6, <1>8, RemoveKeeps DEF IInv

(* A read or write of an active transaction. *)
LEMMA GetAccess ==
    ASSUME IInv, NEW i \in DOMAIN items, Gets(i), MayFail,
           items[i].op = "access", Found(items[i].tran),
           unseen' = [unseen EXCEPT ![items[i].tran] = @ - 1],
           UNCHANGED <<at, age, busy, stopped>>
    PROVE  IInv'
<1> DEFINE p == items[i].by
<1>1. TypeOK /\ Shapes /\ Counting /\ call' = call
  BY DEF IInv, Gets
<1>2. p \in Clients /\ items[i].tran = p /\ tran[p] = "active"
  BY SMTT(60), <1>1 DEF Shapes, Shape, Found
<1>3. \A q \in Clients : q # p => unseen'[q] = unseen[q]
  BY SMTT(60), <1>1, <1>2 DEF TypeOK
<1>4. Answers(i)
  BY SMTT(60), <1>2, <1>3 DEF Answers, MayFail
<1>5. /\ Accesses(items', p) = Accesses(items, p) - 1
      /\ Accesses(items, p) \in Nat /\ Accesses(items', p) \in Nat
  <2>1. items' \in Seq(Message) /\ Accesses(items', p) = Accesses(items, p) - 1
    BY SMTT(60), <1>4, RemoveKeeps
  <2>2. QED
    BY SMTT(60), <1>1, <2>1, AccessesFinite DEF TypeOK
<1>6. unseen[p] = Accesses(items, p) + Waiting(p) /\ Waiting(p) \in {0, 1}
  BY SMTT(60), <1>1, <1>2 DEF Counting, Waiting
<1>7. unseen[p] \in Nat
  BY SMTT(60), <1>1, <1>2 DEF TypeOK
<1>8. unseen[p] - 1 \in Nat
  BY SMTT(60), <1>5, <1>6, <1>7
<1>9. unseen' \in [Clients -> Nat] /\ unseen'[p] = unseen[p] - 1
  BY SMTT(60), <1>1, <1>2, <1>8 DEF TypeOK
<1>10. TypeOK'
  BY SMTT(60), <1>1, <1>4, <1>9, RemoveKeeps DEF TypeOK, MayFail
<1>11. Counting'
  <2> SUFFICES ASSUME NEW q \in Clients
               PROVE  /\ tran'[q] = "active" =>
                            unseen'[q] = Accesses(items', q) + Waiting(q)'
                      /\ tran'[q] = "committed" => unseen'[q] = 0 /\ at[q] = "done"
    BY <1>1 DEF Counting
  <2>1. Waiting(q)' = Waiting(q)
    BY SMTT(60), <1>1 DEF Waiting
  <2>2. CASE q # p
    <3>1. Accesses(items, q) \in Nat
      BY SMTT(60), <1>1, AccessesFinite DEF TypeOK
    <3>2. Accesses(items', q) = Accesses(items, q)
      BY SMTT(60), <1>4, <2>2, <3>1, RemoveKeeps
    <3>3. tran'[q] \in {"active", "committed"} => tran'[q] = tran[q]
      BY SMTT(60) DEF MayFail
    <3>4. QED
      BY SMTT(60), <1>1, <1>3, <2>1, <2>2, <3>2, <3>3 DEF Counting
  <2>3. CASE q = p
    <3>1. unseen'[p] = Accesses(items', p) + Waiting(p)
      BY SMTT(60), <1>5, <1>6, <1>7, <1>9
    <3>2. tran'[p] # "committed"
      BY <1>2 DEF MayFail
    <3>3. QED
      BY SMTT(60), <1>8, <1>9, <2>1, <2>3, <3>1, <3>2
  <2>4. QED
    BY SMTT(60), <2>2, <2>3
<1>12. QED
  BY SMTT(60), <1>4, <1>10, <1>11, RemoveKeeps DEF IInv

(* A commit: nothing of the transaction is left on the queue. *)
LEMMA GetCommit ==
    ASSUME IInv, NEW i \in DOMAIN items, Gets(i), Get(items[i]), items[i].op = "commit"
    PROVE  IInv'
<1> DEFINE p == items[i].by
<1>1. TypeOK /\ Shapes /\ Starting /\ Committing /\ Counting /\ Clients \subseteq Threads
  BY SMTT(60) DEF IInv, Threads
<1>2. p \in Clients /\ items[i].tran = p
  BY SMTT(60), <1>1 DEF Shapes, Shape
<1>3. at[p] = "waiting" /\ tran[p] # "none"
  BY SMTT(60), <1>1, <1>2 DEF Starting, Committing
<1>4. /\ tran' = [tran EXCEPT ![p] = IF tran[p] = "active" THEN "committed" ELSE @]
      /\ at' = [at EXCEPT ![p] = "done"]
      /\ UNCHANGED <<call, age, unseen, busy, stopped>>
  BY SMTT(60), <1>2 DEF Get, Dispatch, Answer, CommitAnswer, Found
<1>5. /\ tran' \in [Clients -> {"none", "active", "failed", "committed"}]
      /\ at' \in [Threads -> {"idle", "putting", "waiting", "done"}]
      /\ tran'[p] = (IF tran[p] = "active" THEN "committed" ELSE tran[p])
      /\ at'[p] = "done"
      /\ \A q \in Clients : q # p => tran'[q] = tran[q]
      /\ \A q \in Threads : q # p => at'[q] = at[q]
  BY SMTT(60), <1>1, <1>2, <1>4 DEF TypeOK
<1>6. Answers(i)
  BY SMTT(60), <1>3, <1>4, <1>5 DEF Answers
<1>7. TypeOK'
  BY ZenonT(60), <1>1, <1>4, <1>5, <1>6, RemoveKeeps DEF TypeOK
<1>8. tran[p] = "active" => unseen[p] = 0
  <2>1. \A k \in DOMAIN items : items[k].op = "access" => items[k].tran # p
    BY <1>2, CommitIsAlone DEF Gets
  <2>2. Accesses(items, p) = 0 /\ Waiting(p) = 0
    BY SMTT(60), <1>1, <1>2, <1>3, <2>1, NoAccesses DEF Waiting
  <2>3. QED
    BY SMTT(60), <1>1, <1>2, <2>2 DEF Counting
<1>9. Counting'
  <2> SUFFICES ASSUME NEW q \in Clients
               PROVE  /\ tran'[q] = "active" =>
                            unseen[q] = Accesses(items', q) + Waiting(q)'
                      /\ tran'[q] = "committed" => unseen[q] = 0 /\ at'[q] = "done"
    BY <1>4 DEF Counting
  <2>1. CASE q # p
    <3>1. Waiting(q)' = Waiting(q) /\ at'[q] = at[q] /\ tran'[q] = tran[q]
      BY SMTT(60), <1>1, <1>4, <1>5, <2>1 DEF Waiting
    <3>2. Accesses(items, q) \in Nat
      BY SMTT(60), <1>1, AccessesFinite DEF TypeOK
    <3>3. Accesses(items', q) = Accesses(items, q)
      BY SMTT(60), <1>6, <3>2, RemoveKeeps
    <3>4. QED
      BY SMTT(60), <1>1, <3>1, <3>3 DEF Counting
  <2>2. CASE q = p
    <3>1. tran'[p] # "active" /\ (tran'[p] = "committed" => tran[p] \in {"active", "committed"})
      BY <1>5
    <3>2. QED
      BY SMTT(60), <1>1, <1>5, <1>8, <2>2, <3>1 DEF Counting
  <2>3. QED
    BY SMTT(60), <2>1, <2>2
<1>10. QED
  BY <1>6, <1>7, <1>9, RemoveKeeps DEF IInv

(* Aborting some active transactions. *)
LEMMA FailType ==
    ASSUME TypeOK, NEW S, tran' = Fail(S)
    PROVE  MayFail
  BY SMTT(60) DEF TypeOK, Fail, active, MayFail

(* The checker goroutine handles one message. *)
LEMMA DispatchKeeps ==
    ASSUME IInv, NEW i \in DOMAIN items, isOldest(i), items' = Delete(items, i),
           Get(items[i]) \/ GetRun(items[i]) \/ GetStop(items[i])
    PROVE  IInv'
<1> DEFINE m == items[i]
<1>1. TypeOK /\ Shapes /\ Gets(i)
  BY Zenon DEF IInv, Gets, Get, GetRun, GetStop
<1>2. /\ age \in [Clients -> 0 .. (MaxAge - 1)] /\ busy \in BOOLEAN /\ stopped \in BOOLEAN
      /\ (tran' = tran => MayFail)
  BY SMTT(60), <1>1 DEF TypeOK, MayFail
<1>3. CASE Get(m) /\ m.op \in {"start", "commit"}
  BY <1>1, <1>3, GetStart, GetCommit
<1>4. CASE Get(m) /\ m.op = "access"
  <2>1. UNCHANGED <<busy, stopped, age, at>>
    BY ZenonT(60), <1>4 DEF Get, Dispatch
  <2>2. CASE Found(m.tran)
    <3>1. /\ unseen' = [unseen EXCEPT ![m.tran] = @ - 1]
          /\ \E S \in SUBSET active : tran' = Fail(S)
      BY Zenon, <1>4, <2>2 DEF Get, Dispatch
    <3>2. QED
      BY ZenonT(60), <1>1, <1>4, <2>1, <2>2, <3>1, FailType, GetAccess
  <2>3. CASE ~Found(m.tran)
    <3>1. UNCHANGED <<unseen, tran>>
      BY ZenonT(60), <1>4, <2>3 DEF Get, Dispatch
    <3>2. tran[m.by] # "active"
      BY SMTT(60), <1>1, <1>4, <2>3 DEF Shapes, Shape, Found
    <3>3. QED
      BY ZenonT(60), <1>1, <1>2, <2>1, <3>1, <3>2, GetQuiet
  <2>4. QED
    BY SMTT(60), <2>2, <2>3
<1>5. CASE Get(m) /\ m.op = "abort"
  <2>1. tran' = Fail({m.tran}) /\ UNCHANGED <<age, unseen, at, busy, stopped>>
    BY ZenonT(60), <1>5 DEF Get, Dispatch
  <2>2. QED
    BY ZenonT(60), <1>1, <1>2, <1>5, <2>1, FailType, GetQuiet
<1>6. CASE Get(m) /\ m.op = "tick"
  <2>1. /\ tran' = Fail({p \in active : TooOld(p)})
        /\ UNCHANGED <<unseen, at, busy, stopped>>
        /\ age' = [p \in Clients |->
                     IF p \in active /\ age[p] + 1 < MaxAge THEN age[p] + 1 ELSE age[p]]
    BY Zenon, <1>6 DEF Get, Dispatch
  <2>2. age' \in [Clients -> 0 .. (MaxAge - 1)]
    BY SMTT(60), <1>2, <2>1, CheckCoAssumption
  <2>3. QED
    BY ZenonT(60), <1>1, <1>2, <1>6, <2>1, <2>2, FailType, GetQuiet
<1>7. CASE GetRun(m)
  <2>1. /\ m.op # "access" /\ busy' \in BOOLEAN /\ UNCHANGED <<at, age, unseen, stopped>>
        /\ tran' = tran \/ \E S \in SUBSET active : tran' = Fail(S)
    BY SMTT(60), <1>7 DEF GetRun
  <2>2. MayFail
    BY SMTT(60), <1>1, <1>2, <2>1, FailType
  <2>3. QED
    BY SMTT(60), <1>1, <1>2, <2>1, <2>2, GetQuiet
<1>8. CASE GetStop(m)
  <2>1. m.op # "access" /\ stopped' \in BOOLEAN /\ UNCHANGED <<at, tran, age, unseen, busy>>
    BY <1>8 DEF GetStop
  <2>2. QED
    BY SMTT(60), <1>1, <1>2, <2>1, GetQuiet
<1>9. QED
  BY ZenonT(60), <1>3, <1>4, <1>5, <1>6, <1>7, <1>8 DEF Get, Dispatch

(* The merger has done what the checker waited for. *)
LEMMA RunDoneKeeps ==
    ASSUME IInv, RunDone
    PROVE  IInv'
<1>1. /\ busy' = FALSE /\ at' = [at EXCEPT ![Admin] = "idle"]
      /\ UNCHANGED <<items, call, tran, age, unseen, stopped>>
  BY DEF RunDone, Answer
<1>2. /\ at' \in [Threads -> {"idle", "putting", "waiting", "done"}]
      /\ \A p \in Threads : at'[p] = "putting" => at[p] = "putting"
      /\ \A p \in Clients : p \in Threads /\ at'[p] = at[p]
  BY <1>1, ThreadsAssumption DEF IInv, TypeOK, Threads
<1>3. TypeOK'
  BY ZenonT(60), <1>1, <1>2 DEF IInv, TypeOK
<1>4. Shapes'
  BY SMTT(60), <1>1, <1>2 DEF IInv, Shapes, Shape
<1>5. \A j \in DOMAIN items : items[j].op \in {"start", "commit"} => items[j].by \in Clients
  BY DEF IInv, Shapes, Shape
<1>6. Starting'
  BY SMTT(60), <1>1, <1>2, <1>5 DEF IInv, Starting
<1>7. Committing'
  BY <1>1, <1>2, <1>5 DEF IInv, Committing
<1>8. \A p \in Clients : Waiting(p)' = Waiting(p)
  BY <1>1, <1>2 DEF Waiting
<1>9. Counting'
  BY <1>1, <1>2, <1>8 DEF IInv, Counting
<1>10. QED
  BY <1>3, <1>4, <1>6, <1>7, <1>9 DEF IInv
------------------------------------------------------------------------------
LEMMA InitHolds == Init => IInv
<1> SUFFICES ASSUME Init PROVE IInv
  OBVIOUS
<1>1. items = <<>> /\ Len(items) = 0 /\ DOMAIN items = {} /\ items \in Seq(Message)
  BY EmptySeq, LenProperties DEF Init
<1>2. TypeOK
  <2>1. Len(items) <= bufSize /\ 0 \in 0 .. (MaxAge - 1) /\ 0 \in Nat
    BY <1>1, CheckCoAssumption
  <2>2. /\ at \in [Threads -> {"idle", "putting", "waiting", "done"}]
        /\ tran \in [Clients -> {"none", "active", "failed", "committed"}]
        /\ call \in [Threads -> Message \cup {NoCall}]
    BY Zenon DEF Init
  <2>3. QED
    BY Zenon, <1>1, <2>1, <2>2 DEF Init, TypeOK
<1>3. \A p \in Clients : p \in Threads /\ at[p] = "idle"
                      /\ tran[p] = "none" /\ unseen[p] = 0
  BY Zenon DEF Init, Threads
<1>4. \A p \in Threads : at[p] = "idle"
  BY Zenon DEF Init
<1>5. Shapes
  BY <1>1, <1>4 DEF Shapes
<1>6. Starting
  BY <1>1, <1>3 DEF Starting
<1>7. Committing
  BY <1>1 DEF Committing
<1>8. Counting
  BY <1>3, Zenon DEF Counting
<1>9. QED
  BY <1>2, <1>5, <1>6, <1>7, <1>8 DEF IInv

LEMMA NextKeeps == IInv /\ [Next]_vars => IInv'
<1> SUFFICES ASSUME IInv, [Next]_vars PROVE IInv'
  OBVIOUS
<1> USE ThreadsAssumption
<1>1. CASE checker
  <2>1. CASE RunDone
    BY <2>1, RunDoneKeeps
  <2>2. ASSUME NEW i, i = best, items # <<>>, items' = Delete(items, i),
               Get(items[i]) \/ GetRun(items[i]) \/ GetStop(items[i])
        PROVE  IInv'
    <3>1. i \in DOMAIN items /\ isOldest(i)
      BY <2>2, BestProperties DEF IInv
    <3>2. QED
      BY <2>2, <3>1, DispatchKeeps
  <2>3. QED
    BY <1>1, <2>1, <2>2 DEF checker
<1>2. ASSUME NEW p \in Threads, Put(p) PROVE IInv'
  BY <1>2, PutKeeps
<1>3. ASSUME NEW p \in Clients, CallStart(p) PROVE IInv'
  <2>1. p \in Threads /\ MayCall(p, Msg("start", NoTran, p))
    BY <1>3 DEF CallStart, Threads, Msg, Message, Shape, MayCall
  <2>2. QED
    BY <1>3, <2>1, CallKeeps DEF CallStart, Msg
<1>4. ASSUME NEW p \in Clients, CallAccess(p) PROVE IInv'
  <2>1. p \in Threads /\ MayCall(p, Msg("access", p, p))
    BY <1>4 DEF CallAccess, Threads, Msg, Message, Shape, MayCall
  <2>2. QED
    BY Zenon, <1>4, <2>1, CallKeeps DEF CallAccess, Msg
<1>5. ASSUME NEW p \in Clients, CallCommit(p) PROVE IInv'
  <2>1. p \in Threads /\ MayCall(p, Msg("commit", p, p))
    BY <1>5 DEF CallCommit, Threads, Msg, Message, Shape, MayCall
  <2>2. QED
    BY <1>5, <2>1, CallKeeps DEF CallCommit, Msg
<1>6. ASSUME NEW p \in Clients, CallAbort(p) PROVE IInv'
  <2>1. p \in Threads /\ MayCall(p, Msg("abort", p, p))
    BY <1>6 DEF CallAbort, Threads, Msg, Message, Shape, MayCall
  <2>2. QED
    BY <1>6, <2>1, CallKeeps DEF CallAbort, Msg
<1>7. ASSUME NEW op \in {"runExcl", "persist", "stop"}, Call(Admin, Msg(op, NoTran, Admin)),
             UNCHANGED unseen
      PROVE  IInv'
  <2>1. Admin \in Threads /\ MayCall(Admin, Msg(op, NoTran, Admin))
    BY DEF Threads, Msg, Message, Shape, MayCall
  <2>2. QED
    BY SMTT(60), <1>7, <2>1, CallKeeps DEF Msg
<1>8. CASE CallTick
  <2>1. Ticker \in Threads /\ MayCall(Ticker, Msg("tick", NoTran, Ticker))
    BY DEF Threads, Msg, Message, Shape, MayCall
  <2>2. QED
    BY SMTT(60), <1>8, <2>1, CallKeeps DEF CallTick, Msg
<1>9. CASE UNCHANGED vars
  <2> USE <1>9 DEF vars, IInv
  <2>1. TypeOK'
    BY SMTT(60) DEF TypeOK
  <2>2. Shapes'
    BY SMTT(60) DEF Shapes, Shape
  <2>3. Starting' /\ Committing'
    BY ZenonT(60) DEF Starting, Committing
  <2>4. Counting'
    BY Zenon DEF Counting, Waiting
  <2>5. QED
    BY SMTT(60), <2>1, <2>2, <2>3, <2>4
<1>10. QED
  BY SMTT(60), <1>1, <1>2, <1>3, <1>4, <1>5, <1>6, <1>7, <1>8, <1>9 DEF Next, CallAdmin, Stop

(* The types of the state of the queue, the threads and the transactions. *)
THEOREM TypeCorrect == Spec => []TypeOK
<1>1. IInv => TypeOK
  BY SMTT(60) DEF IInv
<1>2. QED
  BY <1>1, InitHolds, NextKeeps, PTL DEF Spec

(* When the checker commits a transaction it has seen every read and write *)
(* that the transaction issued, for any number of clients and any size of  *)
(* the queue, although a commit has a higher priority than they have.      *)
THEOREM CommitsAreComplete == Spec => []CommitHasEverything
<1>1. IInv => CommitHasEverything
  BY DEF IInv, Counting, CommitHasEverything
<1>2. QED
  BY <1>1, InitHolds, NextKeeps, PTL DEF Spec

(* Only a stop has priority 0, so when Get picks one every oldest item is  *)
(* a stop, and the oldest item of a transaction is none.                   *)
LEMMA StopStep ==
    ASSUME IInv, Next, stopped', ~stopped, NEW j \in DOMAIN items'
    PROVE  items'[j].tran = NoTran
<1>1. /\ best \in DOMAIN items /\ items[best].op = "stop" /\ items' = Delete(items, best)
      /\ items # <<>>
  <2>1. \A p, m : ~Call(p, m)
    BY Zenon DEF Call
  <2>2. checker /\ ~RunDone
    BY Zenon, <2>1 DEF Next, Put, CallStart, CallAccess, CallCommit, CallAbort, CallAdmin,
                CallTick, Stop, RunDone
  <2>3. /\ items # <<>> /\ items' = Delete(items, best)
        /\ Get(items[best]) \/ GetRun(items[best]) \/ GetStop(items[best])
    BY <2>2 DEF checker
  <2>4. GetStop(items[best])
    BY Zenon, <2>3 DEF Get, GetRun
  <2>5. QED
    BY <2>3, <2>4, BestProperties DEF GetStop, IInv
<1>2. PICK a \in DOMAIN items : items'[j] = items[a]
  BY <1>1, Shift DEF IInv
<1> DEFINE K == {k \in DOMAIN items : items[k].tran = items[a].tran}
<1>3. DOMAIN items = 1 .. Len(items) /\ Len(items) \in Nat
  BY LenProperties DEF IInv, TypeOK
<1>4. PICK k \in K : \A l \in K : k <= l
  <2>1. K \in SUBSET Nat /\ K # {}
    BY <1>3
  <2> HIDE DEF K
  <2>2. QED
    BY <2>1, LeastExists
<1>5. isOldest(k)
  BY <1>3, <1>4 DEF isOldest
<1>6. priority(items[k].op) <= 0
  BY <1>1, <1>5, BestProperties DEF IInv, priority
<1>7. items[k].op = "stop"
  BY SMTT(60), <1>6 DEF priority
<1>8. items[k].tran = NoTran
  BY <1>7 DEF IInv, Shapes, Shape
<1>9. QED
  BY SMTT(60), <1>2, <1>4, <1>8

(* When the checker returns no message of a transaction is left on the     *)
(* queue: Stop has the lowest priority.                                    *)
THEOREM StopIsLast == Spec => StopComesLast
<1>1. IInv /\ [Next]_vars =>
         [stopped' /\ ~stopped => \A i \in DOMAIN items' : items'[i].tran = NoTran]_vars
  BY StopStep DEF vars
<1>2. QED
  BY <1>1, InitHolds, NextKeeps, PTL DEF Spec, StopComesLast
==============================================================================
