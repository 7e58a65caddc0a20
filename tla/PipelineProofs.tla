---------------------------- MODULE PipelineProofs ----------------------------
(***************************************************************************)
(* The safety properties of Pipeline, and that it implements Store, for    *)
(* any tables, any capacity of the channel and any number of transactions. *)
(*                                                                         *)
(* The invariant names three points of the sequence of the transactions:   *)
(*    f  the ones up to here are in the file,                              *)
(*    d  the ones up to here have been merged into the base layers,        *)
(*    e  the ones up to here have been taken off the channel and counted   *)
(*       in a merge, which may still be computed,                          *)
(* with f <= d <= e.  What is in the Info of a table, in the results that  *)
(* the merger computed outside of the mutex and in the channel follows     *)
(* from the transactions and these points.                                 *)
(***************************************************************************)
EXTENDS Pipeline, InfoProofs

(* The transactions of the first n that wrote table t, as Store has it.      *)
Writes(l, t, n) == Abstract!Writes(l, t, n)

(* g[n] is what Writes gives for n, and the steps from each to the next.     *)
WritesAlong(l, t, N, g) ==
    /\ g[0] = <<>>
    /\ \A i \in 1 .. N : g[i] = IF t \in l[i] THEN Append(g[i - 1], i) ELSE g[i - 1]
    /\ \A n \in 0 .. N : Writes(l, t, n) = g[n]

(* The next transaction is added to the content of the tables that it wrote. *)
LEMMA WritesStep ==
    ASSUME NEW l, NEW t, NEW n \in Nat
    PROVE  /\ Writes(l, t, 0) = <<>> /\ Writes(l, t, n) \in Seq(Nat)
           /\ Writes(l, t, n + 1) =
                IF t \in l[n + 1] THEN Append(Writes(l, t, n), n + 1) ELSE Writes(l, t, n)
(* Writes is computed one transaction at a time.                             *)
<1>WritesAre. ASSUME NEW N \in Nat
              PROVE  \E g \in [0 .. N -> Seq(Nat)] : WritesAlong(l, t, N, g)
  <2> DEFINE step == [i \in 1 .. N |-> [v \in Seq(Nat) |->
                         IF t \in l[i] THEN Append(v, i) ELSE v]]
  <2>1. <<>> \in Seq(Nat) /\ step \in [1 .. N -> [Seq(Nat) -> Seq(Nat)]]
      OBVIOUS
  <2>2. PICK g \in [0 .. N -> Seq(Nat)] : Follows(g, N, <<>>, step)
    <3> HIDE DEF step
    <3> QED
      BY Zenon, <2>1, Recursion
  <2>3. g[0] = <<>>
      BY Zenon, <2>2 DEF Follows
  <2>4. ASSUME NEW i \in 1 .. N
        PROVE  g[i] = IF t \in l[i] THEN Append(g[i - 1], i) ELSE g[i - 1]
    <3>1. g[i] = step[i][g[i - 1]]
      BY Zenon, <2>2 DEF Follows
    <3>2. g[i - 1] \in Seq(Nat)
      OBVIOUS
    <3> QED
      BY Zenon, <3>1, <3>2
  <2>5. ASSUME NEW m \in 0 .. N
        PROVE  Writes(l, t, m) = g[m]
    <3> DEFINE P(f) == f = [i \in 0 .. m |->
                   IF i = 0 THEN <<>>
                   ELSE IF t \in l[i] THEN Append(f[i - 1], i) ELSE f[i - 1]]
               h == [i \in 0 .. m |-> g[i]]
               writes == CHOOSE f : P(f)
    <3>1. P(h)
      <4>1. ASSUME NEW i \in 0 .. m
            PROVE  h[i] = IF i = 0 THEN <<>>
                          ELSE IF t \in l[i] THEN Append(h[i - 1], i) ELSE h[i - 1]
        <5>1. CASE i = 0
          BY Zenon, <2>3, <5>1
        <5>2. CASE i # 0
          <6>1. i \in 1 .. N /\ i - 1 \in 0 .. m
            BY <5>2
          <6>2. h[i] = g[i] /\ h[i - 1] = g[i - 1]
            BY Zenon, <6>1
          <6> QED
            BY <2>4, <5>2, <6>1, <6>2, Zenon
        <5> QED
          BY Zenon, <5>1, <5>2
      <4> QED
        BY Zenon, <4>1
    <3>2. Writes(l, t, m) = writes[m]
      BY Zenon DEF Writes, Abstract!Writes
    <3>3. P(writes)
      <4> HIDE DEF P
      <4> QED
        BY Zenon, <3>1
    <3> HIDE DEF writes
    <3>4. writes[0] = <<>> /\ \A i \in 1 .. m : writes[i] =
              IF t \in l[i] THEN Append(writes[i - 1], i) ELSE writes[i - 1]
      <4>1. \A i \in 0 .. m : writes[i] = IF i = 0 THEN <<>>
               ELSE IF t \in l[i] THEN Append(writes[i - 1], i) ELSE writes[i - 1]
        BY <3>3, Zenon
      <4>2. 0 \in 0 .. m /\ \A i \in 1 .. m : i \in 0 .. m /\ i # 0
        OBVIOUS
      <4> QED
        BY <4>1, <4>2, Zenon
    <3>5. AgreeOn(writes, g, m)
      <4>1. \A i \in 1 .. m : i \in 1 .. N
        OBVIOUS
      <4> QED
        BY <2>3, <2>4, <3>4, <4>1, Zenon DEF AgreeOn
    <3>6. m \in Nat /\ m \in 0 .. m
      OBVIOUS
    <3>7. \A i \in 0 .. m : writes[i] = g[i]
      BY <3>5, <3>6, Agree
    <3> QED
      BY <3>2, <3>6, <3>7, Zenon
  <2> QED
      BY <2>3, <2>4, <2>5, Zenon DEF WritesAlong
<1>1. n + 1 \in Nat /\ n \in 0 .. n + 1 /\ n + 1 \in 1 .. n + 1 /\ n + 1 \in 0 .. n + 1
      /\ 0 \in 0 .. n + 1 /\ (n + 1) - 1 = n
    OBVIOUS
<1>2. PICK g \in [0 .. n + 1 -> Seq(Nat)] : WritesAlong(l, t, n + 1, g)
    BY Zenon, <1>1, <1>WritesAre
<1>3. /\ Writes(l, t, 0) = g[0] /\ Writes(l, t, n) = g[n] /\ Writes(l, t, n + 1) = g[n + 1]
      /\ g[0] = <<>>
    BY <1>1, <1>2, Zenon DEF WritesAlong
<1>4. g[n] \in Seq(Nat)
    BY Zenon, <1>1
<1>5. g[n + 1] = IF t \in l[n + 1] THEN Append(g[n], n + 1) ELSE g[n]
    BY <1>1, <1>2, Zenon DEF WritesAlong
<1> QED
    BY <1>3, <1>4, <1>5, Zenon

(* A sequence, and the same sequence with or without one more element.       *)
LEMMA Appended ==
    ASSUME NEW a \in Seq(Nat), NEW b, NEW y \in Nat, b = a \/ b = Append(a, y)
    PROVE  /\ b \in Seq(Nat) /\ Len(a) <= Len(b) /\ Len(b) <= Len(a) + 1
           /\ \A x \in 1 .. Len(a) : b[x] = a[x]
           /\ \A x \in 1 .. Len(b) : x \in 1 .. Len(a) \/ b[x] = y
    BY SMTT(60)

(* The entries of the first n transactions are their numbers.                *)
LEMMA WritesBounded ==
    ASSUME NEW l, NEW t, NEW n \in Nat
    PROVE  \A x \in 1 .. Len(Writes(l, t, n)) : Writes(l, t, n)[x] \in 1 .. n
<1> DEFINE W(m) == Writes(l, t, m)
           S == {m \in Nat : \A x \in 1 .. Len(W(m)) : W(m)[x] \in 1 .. m}
<1>1. \A m \in Nat : /\ W(0) = <<>> /\ W(m) \in Seq(Nat)
                     /\ W(m + 1) = IF t \in l[m + 1] THEN Append(W(m), m + 1) ELSE W(m)
    BY Zenon, WritesStep
<1> HIDE DEF W
<1>2. 0 \in S
    BY <1>1
<1>3. ASSUME NEW m \in Nat, m \in S
      PROVE  m + 1 \in S
  <2>1. W(m) \in Seq(Nat) /\ (W(m + 1) = W(m) \/ W(m + 1) = Append(W(m), m + 1))
    BY Zenon, <1>1
  <2>2. \A x \in 1 .. Len(W(m)) : W(m)[x] \in 1 .. m
    BY Zenon, <1>3
  <2>3. \A x \in 1 .. Len(W(m + 1)) : W(m + 1)[x] \in 1 .. m + 1
    <3>1. m + 1 \in Nat /\ m + 1 \in 1 .. m + 1 /\ \A z \in 1 .. m : z \in 1 .. m + 1
      OBVIOUS
    <3>2. /\ \A x \in 1 .. Len(W(m)) : W(m + 1)[x] = W(m)[x]
          /\ \A x \in 1 .. Len(W(m + 1)) : x \in 1 .. Len(W(m)) \/ W(m + 1)[x] = m + 1
      BY <2>1, <3>1, Appended, Zenon
    <3> QED
      BY <2>2, <3>1, <3>2, Zenon
  <2> QED
    BY <2>3
<1> HIDE DEF S
<1>4. n \in S
    BY Zenon, <1>2, <1>3, SetInduction
<1> QED
    BY Zenon, <1>4 DEF S, W

(* The content after fewer transactions is a prefix of the content after     *)
(* more.                                                                     *)
LEMMA WritesGrow ==
    ASSUME NEW l, NEW t, NEW m \in Nat, NEW n \in Nat, m <= n
    PROVE  /\ Len(Writes(l, t, m)) <= Len(Writes(l, t, n))
           /\ \A x \in 1 .. Len(Writes(l, t, m)) : Writes(l, t, n)[x] = Writes(l, t, m)[x]
           /\ SubSeq(Writes(l, t, n), 1, Len(Writes(l, t, m))) = Writes(l, t, m)
<1> DEFINE W(k) == Writes(l, t, k)
           Pre(a, b) == Len(a) <= Len(b) /\ \A x \in 1 .. Len(a) : b[x] = a[x]
           S == {k \in Nat : Pre(W(m), W(m + k))}
<1>1. \A k \in Nat : /\ W(0) = <<>> /\ W(k) \in Seq(Nat)
                     /\ W(k + 1) = IF t \in l[k + 1] THEN Append(W(k), k + 1) ELSE W(k)
    BY Zenon, WritesStep
<1> HIDE DEF W
<1>2. 0 \in S
    BY <1>1
<1>3. ASSUME NEW k \in Nat, k \in S
      PROVE  k + 1 \in S
  <2>1. m + k \in Nat /\ (m + k) + 1 \in Nat /\ m + (k + 1) = (m + k) + 1
    OBVIOUS
  <2>2. Pre(W(m), W(m + k))
    BY Zenon, <1>3
  <2>3. /\ W(m) \in Seq(Nat) /\ W(m + k) \in Seq(Nat)
        /\ W((m + k) + 1) = W(m + k) \/ W((m + k) + 1) = Append(W(m + k), (m + k) + 1)
    BY <1>1, <2>1, Zenon
  <2>4. /\ W((m + k) + 1) \in Seq(Nat) /\ Len(W(m + k)) <= Len(W((m + k) + 1))
        /\ \A x \in 1 .. Len(W(m + k)) : W((m + k) + 1)[x] = W(m + k)[x]
    BY <2>1, <2>3, Appended
  <2>5. Pre(W(m), W((m + k) + 1))
    BY <2>2, <2>3, <2>4
  <2> QED
    BY <2>1, <2>5
<1> HIDE DEF S
<1>4. n - m \in S /\ m + (n - m) = n
    BY <1>2, <1>3, SetInduction
<1>5. Pre(W(m), W(n))
    BY Zenon, <1>4 DEF S
<1>6. W(m) \in Seq(Nat) /\ W(n) \in Seq(Nat)
    BY Zenon, <1>1
<1>7. SubSeq(W(n), 1, Len(W(m))) = W(m)
    BY <1>5, <1>6
<1> QED
    BY Zenon, <1>5, <1>7 DEF W

(* The content depends on the transactions up to n only.                     *)
LEMMA WritesSame ==
    ASSUME NEW l, NEW k, NEW t, NEW n \in Nat, \A i \in 1 .. n : l[i] = k[i]
    PROVE  Writes(l, t, n) = Writes(k, t, n)
<1> DEFINE S == {m \in Nat : m <= n => Writes(l, t, m) = Writes(k, t, m)}
<1>1. 0 \in S
    BY Zenon, WritesStep
<1>2. ASSUME NEW m \in Nat, m \in S
      PROVE  m + 1 \in S
  <2> SUFFICES ASSUME m + 1 <= n PROVE Writes(l, t, m + 1) = Writes(k, t, m + 1)
    OBVIOUS
  <2>1. l[m + 1] = k[m + 1] /\ Writes(l, t, m) = Writes(k, t, m)
    BY <1>2
  <2>2. /\ Writes(l, t, m + 1) = IF t \in l[m + 1] THEN Append(Writes(l, t, m), m + 1)
                                 ELSE Writes(l, t, m)
        /\ Writes(k, t, m + 1) = IF t \in k[m + 1] THEN Append(Writes(k, t, m), m + 1)
                                 ELSE Writes(k, t, m)
    BY Zenon, WritesStep
  <2> QED
    BY <2>1, <2>2
<1> HIDE DEF S
<1>3. n \in S
    BY Zenon, <1>1, <1>2, SetInduction
<1> QED
    BY <1>3 DEF S

(* The length of a sequence of entries.                                      *)
LEMMA LenNat ==
    ASSUME NEW s \in Seq(Nat)
    PROVE  Len(s) \in Nat
    OBVIOUS

(* Appending an entry adds one to the length.                                *)
LEMMA LenAppend ==
    ASSUME NEW a \in Seq(Nat), NEW x \in Nat
    PROVE  Len(a) \in Nat /\ Len(Append(a, x)) = Len(a) + 1
    OBVIOUS

(* Counting the transactions that wrote the table gives the number of the    *)
(* entries, as TableCounts does for the merge.                               *)
LEMMA WritesCounted ==
    ASSUME NEW l, NEW t, NEW d \in Nat, NEW ones \in Seq(Nat),
           \A i \in 1 .. Len(ones) : ones[i] = IF t \in l[d + i] THEN 1 ELSE 0
    PROVE  SumSeq(ones) = Len(Writes(l, t, d + Len(ones))) - Len(Writes(l, t, d))
<1> DEFINE L(k) == Len(Writes(l, t, k))
<1>1. PICK f \in [0 .. Len(ones) -> Nat] :
              /\ f[0] = 0
              /\ \A i \in 1 .. Len(ones) : f[i] = f[i - 1] + ones[i]
              /\ SumSeq(ones) = f[Len(ones)]
    BY Zenon, SumIs
<1>2. \A k \in Nat : /\ L(k) \in Nat
                     /\ L(k + 1) = IF t \in l[k + 1] THEN L(k) + 1 ELSE L(k)
  <2> TAKE k \in Nat
  <2>1. /\ Writes(l, t, k) \in Seq(Nat)
        /\ Writes(l, t, k + 1) = IF t \in l[k + 1] THEN Append(Writes(l, t, k), k + 1)
                                 ELSE Writes(l, t, k)
    BY WritesStep, Zenon
  <2>2. k + 1 \in Nat
    OBVIOUS
  <2> QED
    BY <2>1, <2>2, LenAppend, Zenon
<1> HIDE DEF L
<1> DEFINE T == {k \in Nat : k <= Len(ones) => f[k] = L(d + k) - L(d)}
<1>3. 0 \in T
  <2>1. d + 0 = d
    OBVIOUS
  <2>2. L(d) \in Nat
    BY <1>2, Zenon
  <2> QED
    BY <1>1, <2>1, <2>2
<1>4. ASSUME NEW k \in Nat, k \in T
      PROVE  k + 1 \in T
  <2> SUFFICES ASSUME k + 1 <= Len(ones)
               PROVE  f[k + 1] = L(d + (k + 1)) - L(d)
    OBVIOUS
  <2>1. /\ k + 1 \in 1 .. Len(ones) /\ (k + 1) - 1 = k
        /\ d + k \in Nat /\ d + (k + 1) = (d + k) + 1
    OBVIOUS
  <2>2. f[k + 1] = f[k] + ones[k + 1]
    BY <1>1, <2>1, Zenon
  <2>3. f[k] = L(d + k) - L(d)
    BY <1>4
  <2>4. ones[k + 1] = IF t \in l[(d + k) + 1] THEN 1 ELSE 0
    BY <2>1, Zenon
  <2>5. /\ L(d) \in Nat /\ L(d + k) \in Nat
        /\ L(d + (k + 1)) = IF t \in l[(d + k) + 1] THEN L(d + k) + 1 ELSE L(d + k)
    BY <1>2, <2>1, Zenon
  <2> QED
    BY <2>2, <2>3, <2>4, <2>5
<1> HIDE DEF T
<1>5. Len(ones) \in Nat
    OBVIOUS
<1>6. Len(ones) \in T
    BY <1>3, <1>4, <1>5, SetInduction, Zenon
<1> QED
    BY <1>1, <1>5, <1>6 DEF T, L

(* Transactions that did not write the table leave its content as it is.     *)
LEMMA WritesUnchanged ==
    ASSUME NEW l, NEW t, NEW d \in Nat, NEW q \in Nat,
           \A i \in 1 .. q : t \notin l[d + i]
    PROVE  Writes(l, t, d + q) = Writes(l, t, d)
<1> DEFINE T == {k \in Nat : k <= q => Writes(l, t, d + k) = Writes(l, t, d)}
<1>1. 0 \in T
    OBVIOUS
<1>2. ASSUME NEW k \in Nat, k \in T
      PROVE  k + 1 \in T
  <2> SUFFICES ASSUME k + 1 <= q
               PROVE  Writes(l, t, d + (k + 1)) = Writes(l, t, d)
    OBVIOUS
  <2>1. /\ k + 1 \in 1 .. q /\ d + k \in Nat /\ d + (k + 1) = (d + k) + 1
        /\ Writes(l, t, d + k) = Writes(l, t, d)
    BY <1>2
  <2>2. Writes(l, t, (d + k) + 1) = IF t \in l[(d + k) + 1]
            THEN Append(Writes(l, t, d + k), (d + k) + 1) ELSE Writes(l, t, d + k)
    BY <2>1, WritesStep, Zenon
  <2> QED
    BY <2>1, <2>2, Zenon
<1> HIDE DEF T
<1>3. q \in T
    BY Zenon, <1>1, <1>2, SetInduction
<1> QED
    BY <1>3 DEF T

(* The messages of mergeChan.                                                *)
Todos == [kind : {"merge"}, tables : (SUBSET Tables) \ {{}}]
            \cup {[kind |-> "persist"], [kind |-> "run"]}

(* The values of the variables, and the bounds of the channel and of the     *)
(* log.                                                                      *)
Shapes ==
    /\ log \in Seq((SUBSET Tables) \ {{}})
    /\ info \in [Tables -> Infos] /\ disk \in [Tables -> Infos]
    /\ mergeChan \in Seq(Todos)
    /\ checker \in [pc : {"idle", "sending", "waiting", "stopped"}, todo : Todos \cup {NoTodo}]
    /\ merger.pc \in {"select", "todo", "merge", "persist", "last", "done"}
    /\ merger.td \in Todos \cup {NoTodo}
    /\ admin \in [pc : {"none", "building", "built", "running"},
                  table : Tables \cup {"none"}, ov : Ovs]
    /\ changed \in BOOLEAN
    /\ Len(log) <= MaxCommits /\ Len(mergeChan) <= chanBuffers

(* Where the checker, the channel and the merger are with a call to Persist  *)
(* or RunExclusive: the checker waits, so the call is the last message, and  *)
(* the merger has it only when the channel is empty.                         *)
Orders ==
    /\ checker.pc = "sending" => checker.todo.kind # "none"
    /\ checker.pc = "waiting" => checker.todo.kind \in {"persist", "run"}
    /\ \A i \in DOMAIN mergeChan : mergeChan[i].kind # "merge" =>
         i = Len(mergeChan) /\ checker.pc = "waiting" /\ mergeChan[i] = checker.todo
    /\ merger.td.kind \in {"persist", "run"} =>
         mergeChan = <<>> /\ checker.pc = "waiting" /\ checker.todo = merger.td
    /\ merger.pc = "todo" => merger.td.kind # "none"
    /\ merger.pc \in {"select", "last", "done"} => merger.td = NoTodo
    /\ merger.pc = "persist" => merger.td.kind \in {"none", "persist"}
    /\ merger.pc \in {"last", "done"} => mergeChan = <<>> /\ checker.pc = "stopped"
    /\ merger.pc = "done" => ~changed

(* The index that buildIndexes makes has a layer for every layer that        *)
(* commits made since, because the table is exclusive; and with no admin     *)
(* thread a table has one index.                                             *)
Building ==
    /\ checker.pc \in {"sending", "waiting"} /\ checker.todo.kind = "run" => admin.pc = "running"
    /\ admin.pc # "none" => admin.table \in Tables
    /\ admin.pc \in {"built", "running"} =>
         Len(admin.ov.layers) >= Len(info[admin.table].Deltas)
    /\ ~Alter => /\ admin.pc = "none"
                 /\ \A t \in Tables : DOMAIN info[t].Indexes = {1} /\ DOMAIN disk[t].Indexes = {1}

(* The commits that the merger, the checker and the channel hold, which are  *)
(* not merged yet. Calls is 1 if the last message is not a commit.           *)
InHand == IF merger.td.kind = "merge" THEN 1 ELSE 0

ToSend == IF checker.pc = "sending" /\ checker.todo.kind = "merge" THEN 1 ELSE 0

Calls == IF mergeChan # <<>> /\ mergeChan[Len(mergeChan)].kind # "merge" THEN 1 ELSE 0

(* The commits after e are, in their order, with the merger, in the channel  *)
(* and with the checker, and no commit is missing or there twice.            *)
Queue(e) ==
    /\ e + InHand + Len(mergeChan) + ToSend = Len(log) + Calls
    /\ merger.td.kind = "merge" => merger.td.tables = log[e + 1]
    /\ \A i \in DOMAIN mergeChan :
         mergeChan[i].kind = "merge" => mergeChan[i].tables = log[e + InHand + i]
    /\ ToSend = 1 => checker.todo.tables = log[Len(log)]

(* The results of the merge that is being computed: for each table they are  *)
(* the entries after the btree and up to e, and the tables that are not      *)
(* merged were not written.                                                  *)
Merging(d, e) ==
    /\ DOMAIN merger.merges \subseteq Tables
    /\ \A t \in Tables \ DOMAIN merger.merges : Writes(log, t, d) = Writes(log, t, e)
    /\ \A t \in DOMAIN merger.merges :
         /\ merger.merges[t] = Len(Writes(log, t, e)) - Len(Writes(log, t, d))
         /\ \A i \in DOMAIN info[t].Indexes : merger.results[t][i] \in Seq(Nat)
         /\ merger.results[t][1] =
              SubSeq(Writes(log, t, e), Len(info[t].Indexes[1].bt) + 1, Len(Writes(log, t, e)))

(* The results of the persist that is being computed: the tables whose base  *)
(* layer is not empty, each with what was merged.                            *)
Persisting(d) ==
    /\ DOMAIN merger.results = {t \in Tables : Modified(info[t])}
    /\ \A t \in DOMAIN merger.results :
         /\ \A i \in DOMAIN info[t].Indexes : merger.results[t][i] \in Seq(Nat)
         /\ merger.results[t][1] = Writes(log, t, d)

(* What the merger computed is for the state as it was, and still fits it:   *)
(* only commits have happened since.                                         *)
Work(d, e) ==
    /\ d <= e /\ e <= Len(log)
    /\ merger.pc # "merge" => d = e
    /\ merger.pc = "merge" => Merging(d, e)
    /\ merger.pc \in {"persist", "last"} => Persisting(d)

(* The Info of each table has all transactions with the ones up to d merged, *)
(* and the file has the ones up to f. Without a change since the last        *)
(* persist, all that is merged is in the file.                               *)
Base(f, d) ==
    /\ f <= d /\ d <= Len(log)
    /\ \A t \in Tables :
         /\ Layered(info[t], Writes(log, t, Len(log)), Len(Writes(log, t, d)))
         /\ Layered(disk[t], Writes(log, t, f), Len(Writes(log, t, f))) /\ ~Modified(disk[t])
    /\ ~changed => f = d /\ \A t \in Tables : ~Modified(info[t])

(* The invariant at the points f, d and e.                                   *)
Held(f, d, e) == Shapes /\ Orders /\ Building /\ Base(f, d) /\ Queue(e) /\ Work(d, e)

(* The invariant.                                                            *)
IInv == \E f, d, e \in Nat : Held(f, d, e)

(* The content of a table is a sequence of numbers.                          *)
LEMMA WritesSeq ==
    ASSUME NEW l, NEW t, NEW n \in Nat
    PROVE  Writes(l, t, n) \in Seq(Nat) /\ Len(Writes(l, t, n)) \in Nat
<1>1. Writes(l, t, n) \in Seq(Nat)
    BY Zenon, WritesStep
<1> QED
    BY <1>1

(* The kinds of the messages.                                                *)
LEMMA TodoKinds ==
    /\ \A td \in Todos : td.kind \in {"merge", "persist", "run"}
    /\ \A td \in Todos \cup {NoTodo} :
         /\ td.kind \in {"merge", "persist", "run", "none"}
         /\ td.kind = "none" <=> td = NoTodo
         /\ td.kind # "none" <=> td \in Todos
    /\ \A ts \in (SUBSET Tables) \ {{}} : [kind |-> "merge", tables |-> ts] \in Todos
    /\ [kind |-> "persist"] \in Todos /\ [kind |-> "run"] \in Todos
    /\ NoTodo.kind = "none"
    BY DEF Todos, NoTodo

(* The Overlay of a new table.                                               *)
LEMMA NoEntries == Overlay(<<>>, 1) \in Ovs /\ Len(Overlay(<<>>, 1).layers) = 1
<1>1. <<>> \in Seq(Nat) /\ 1 \in Nat
    OBVIOUS
<1> QED
    BY <1>1, OverlayIs, Zenon

(* A step that changes neither the state nor the file.                       *)
LEMMA SameBase ==
    ASSUME NEW f, NEW d, Base(f, d), UNCHANGED <<info, disk, changed, log>>
    PROVE  Base(f, d)'
    BY Zenon DEF Base

(* A step that changes neither the state nor what the merger computed.       *)
LEMMA SameWork ==
    ASSUME NEW d, NEW e, Work(d, e), UNCHANGED <<info, log, merger>>
    PROVE  Work(d, e)'
    BY Zenon DEF Work, Merging, Persisting

(* The checker takes a call to Persist: it comes after all commits, so the   *)
(* channel has no call yet.                                                  *)
LEMMA CallPersistKeeps ==
    ASSUME NEW f, NEW d, NEW e, Held(f, d, e), CallPersist
    PROVE  Held(f, d, e)'
<1> DEFINE new == [pc |-> "sending", todo |-> [kind |-> "persist"]]
<1>1. /\ checker' = new /\ checker.pc = "idle"
      /\ UNCHANGED <<info, disk, mergeChan, merger, changed, admin, log>>
    BY Zenon DEF CallPersist, Sending
<1>2. checker'.pc = "sending" /\ checker'.todo.kind = "persist"
    BY Zenon, <1>1
<1>3. Shapes /\ Orders /\ Building /\ Base(f, d) /\ Queue(e) /\ Work(d, e)
    BY Zenon DEF Held
<1>4. Shapes'
    BY Zenon, <1>1, <1>3, TodoKinds DEF Shapes
<1>5. Orders'
    BY Zenon, <1>1, <1>2, <1>3 DEF Orders
<1>6. Building'
    BY Zenon, <1>1, <1>2, <1>3 DEF Building
<1>7. Queue(e)'
    BY <1>1, <1>2, <1>3 DEF Queue, InHand, ToSend, Calls
<1> QED
    BY Zenon, <1>1, <1>3, <1>4, <1>5, <1>6, <1>7, SameBase, SameWork DEF Held

(* The checker stops: it has nothing left to send.                           *)
LEMMA StopKeeps ==
    ASSUME NEW f, NEW d, NEW e, Held(f, d, e), Stop
    PROVE  Held(f, d, e)'
<1>1. Shapes /\ Orders /\ Building /\ Base(f, d) /\ Queue(e) /\ Work(d, e)
    BY Zenon DEF Held
<1>2. /\ checker' = [checker EXCEPT !.pc = "stopped"] /\ checker.pc = "idle"
      /\ UNCHANGED <<info, disk, mergeChan, merger, changed, admin, log>>
    BY Zenon DEF Stop
<1>3. checker'.pc = "stopped"
    BY Zenon, <1>1, <1>2 DEF Shapes
<1>4. Shapes'
    BY Zenon, <1>1, <1>2 DEF Shapes
<1>5. Orders'
    BY Zenon, <1>1, <1>2, <1>3 DEF Orders
<1>6. Building'
    BY Zenon, <1>1, <1>2, <1>3 DEF Building
<1>7. Queue(e)'
    BY <1>1, <1>2, <1>3 DEF Queue, InHand, ToSend, Calls
<1> QED
    BY Zenon, <1>1, <1>2, <1>4, <1>5, <1>6, <1>7, SameBase, SameWork DEF Held

(* The admin thread makes a table exclusive before it builds an index.       *)
LEMMA AddExclusiveKeeps ==
    ASSUME NEW f, NEW d, NEW e, NEW t \in Tables, Held(f, d, e), AddExclusive(t)
    PROVE  Held(f, d, e)'
<1>1. Shapes /\ Orders /\ Building /\ Base(f, d) /\ Queue(e) /\ Work(d, e)
    BY Zenon DEF Held
<1>2. /\ admin' = [NoAdmin EXCEPT !.pc = "building", !.table = t]
      /\ Alter /\ checker.pc = "idle"
      /\ UNCHANGED <<info, disk, mergeChan, checker, merger, changed, log>>
    BY Zenon DEF AddExclusive
<1>3. /\ admin'.pc = "building" /\ admin'.table = t
      /\ admin' = [pc |-> "building", table |-> t, ov |-> Overlay(<<>>, 1)]
    BY Zenon, <1>2 DEF NoAdmin
<1>4. Overlay(<<>>, 1) \in Ovs
    BY Zenon, NoEntries
<1>5. Shapes'
    BY <1>1, <1>2, <1>3, <1>4 DEF Shapes
<1>6. Orders'
    BY Zenon, <1>1, <1>2 DEF Orders
<1>7. Building'
    BY Zenon, <1>1, <1>2, <1>3 DEF Building
<1>8. Queue(e)'
    BY Zenon, <1>1, <1>2 DEF Queue, InHand, ToSend, Calls
<1> QED
    BY Zenon, <1>1, <1>2, <1>5, <1>6, <1>7, <1>8, SameBase, SameWork DEF Held

(* The admin thread calls RunEndExclusive.                                   *)
LEMMA RunEndExclusiveKeeps ==
    ASSUME NEW f, NEW d, NEW e, Held(f, d, e), RunEndExclusive
    PROVE  Held(f, d, e)'
<1>1. Shapes /\ Orders /\ Building /\ Base(f, d) /\ Queue(e) /\ Work(d, e)
    BY Zenon DEF Held
<1>2. /\ checker' = [pc |-> "sending", todo |-> [kind |-> "run"]] /\ checker.pc = "idle"
      /\ admin.pc = "built" /\ admin' = [admin EXCEPT !.pc = "running"]
      /\ UNCHANGED <<info, disk, mergeChan, merger, changed, log>>
    BY Zenon DEF RunEndExclusive, Sending
<1>3. checker'.pc = "sending" /\ checker'.todo.kind = "run"
    BY Zenon, <1>2
<1>4. admin'.pc = "running" /\ admin'.table = admin.table /\ admin'.ov = admin.ov
    BY Zenon, <1>1, <1>2 DEF Shapes
<1>5. Shapes'
    BY Zenon, <1>1, <1>2, TodoKinds DEF Shapes
<1>6. Orders'
    BY Zenon, <1>1, <1>2, <1>3 DEF Orders
<1>7. Building'
    BY Zenon, <1>1, <1>2, <1>3, <1>4 DEF Building
<1>8. Queue(e)'
    BY <1>1, <1>2, <1>3 DEF Queue, InHand, ToSend, Calls
<1> QED
    BY SMTT(60), <1>1, <1>2, <1>5, <1>6, <1>7, <1>8, SameBase, SameWork DEF Held

(* The checker sends its message: the message is then the last one in the    *)
(* channel instead of with the checker.                                      *)
LEMMA SendKeeps ==
    ASSUME NEW f, NEW d, NEW e \in Nat, Held(f, d, e), Send
    PROVE  Held(f, d, e)'
(* A message moves from the checker to the channel.                          *)
<1>OneMore. ASSUME NEW i1 \in Nat, NEW i2 \in Nat, NEW i3 \in Nat, NEW i4 \in Nat,
                   i1 + i2 + i3 + 0 = i4 + 0
            PROVE  i1 + i2 + (i3 + 1) + 0 = i4 + 1
      BY <1>OneMore
<1> DEFINE q == mergeChan
           n == Len(q)
           todo == checker.todo
<1>1. Shapes /\ Orders /\ Building /\ Base(f, d) /\ Queue(e) /\ Work(d, e)
    BY Zenon DEF Held
<1>2. /\ checker.pc = "sending" /\ n < chanBuffers /\ mergeChan' = Append(q, todo)
      /\ checker' = IF todo.kind = "merge" THEN Idle ELSE [checker EXCEPT !.pc = "waiting"]
      /\ UNCHANGED <<info, disk, merger, changed, admin, log>>
    BY Zenon DEF Send
<1>3. q \in Seq(Todos) /\ n \in Nat /\ todo \in Todos /\ todo.kind \in {"merge", "persist", "run"}
    BY <1>1, <1>2, TodoKinds DEF Shapes, Orders
<1>4. /\ \A i \in 1 .. n : q[i].kind = "merge" /\ i \in DOMAIN q
      /\ Len(log) \in Nat /\ InHand \in {0, 1}
    BY <1>1, <1>2, <1>3 DEF Orders, Shapes, InHand
<1>5. /\ mergeChan' \in Seq(Todos) /\ Len(mergeChan') = n + 1 /\ mergeChan'[n + 1] = todo
      /\ mergeChan' # <<>> /\ DOMAIN mergeChan' = 1 .. n + 1
      /\ \A i \in 1 .. n : mergeChan'[i] = q[i]
    BY <1>2, <1>3
<1>6. Calls = 0
  <2>1. q # <<>> => Len(q) \in 1 .. n
    BY <1>3
  <2> QED
    BY <1>4, <2>1, Zenon DEF Calls
<1>7. CASE todo.kind = "merge"
  <2>1. checker' = Idle /\ checker'.pc = "idle" /\ checker'.todo = NoTodo
    BY Zenon, <1>2, <1>7 DEF Idle
  <2>2. Shapes'
    BY <1>1, <1>2, <1>3, <1>5, <2>1, PipelineAssumption DEF Shapes, Idle
  <2>3. \A i \in DOMAIN mergeChan' : mergeChan'[i].kind = "merge"
    BY <1>3, <1>4, <1>5, <1>7
  <2>4. Orders'
    BY Zenon, <1>1, <1>2, <2>1, <2>3 DEF Orders
  <2>5. Building'
    BY Zenon, <1>1, <1>2, <2>1 DEF Building
  <2>6. ToSend = 1 /\ ToSend' = 0 /\ Calls' = 0 /\ InHand' = InHand
    BY Zenon, <1>2, <1>5, <1>7, <2>1 DEF ToSend, Calls, InHand
  <2>7. e + InHand + n + 1 = Len(log)
    BY <1>1, <1>3, <1>4, <1>6, <2>6 DEF Queue
  <2>8. ASSUME NEW i \in DOMAIN mergeChan'
        PROVE  mergeChan'[i].tables = log[e + InHand + i]
    <3>1. CASE i = n + 1
      <4>1. todo.tables = log[Len(log)]
        BY Zenon, <1>1, <2>6 DEF Queue
      <4>2. e + InHand + i = Len(log)
        BY <1>3, <1>4, <2>7, <3>1
      <4> QED
        BY <1>5, <3>1, <4>1, <4>2, Zenon
    <3>2. CASE i # n + 1
      <4>1. i \in 1 .. n
        BY <1>3, <1>5, <3>2
      <4> QED
        BY <1>1, <1>4, <1>5, <4>1, Zenon DEF Queue
    <3> QED
      BY Zenon, <3>1, <3>2
  <2>9. e + InHand' + Len(mergeChan') + ToSend' = Len(log') + Calls'
    BY <1>2, <1>3, <1>4, <1>5, <2>6, <2>7
  <2>10. Queue(e)'
    <3>1. (merger.td.kind = "merge" => merger.td.tables = log[e + 1])'
      BY <1>1, <1>2, Zenon DEF Queue
    <3>2. ToSend' # 1
      BY <2>6
    <3>3. \A i \in DOMAIN mergeChan' :
            mergeChan'[i].kind = "merge" => mergeChan'[i].tables = log'[e + InHand' + i]
      BY <1>2, <2>6, <2>8, Zenon
    <3> QED
      BY <2>9, <3>1, <3>2, <3>3, Zenon DEF Queue
  <2> QED
    BY SMTT(60), <1>1, <1>2, <2>2, <2>4, <2>5, <2>10, SameBase, SameWork DEF Held
<1>8. CASE todo.kind # "merge"
  <2>1. checker' = [pc |-> "waiting", todo |-> todo]
    BY Zenon, <1>1, <1>2, <1>8 DEF Shapes
  <2>2. checker'.pc = "waiting" /\ checker'.todo = todo
    BY Zenon, <2>1
  <2>3. Shapes'
    BY <1>1, <1>2, <1>3, <1>5, <2>1, PipelineAssumption DEF Shapes
  <2>4. \A i \in DOMAIN mergeChan' : mergeChan'[i].kind # "merge" =>
           i = Len(mergeChan') /\ mergeChan'[i] = todo
    BY <1>3, <1>4, <1>5
  <2>5. Orders'
    BY Zenon, <1>1, <1>2, <1>3, <1>8, <2>2, <2>4 DEF Orders
  <2>6. Building'
    BY Zenon, <1>1, <1>2, <2>2 DEF Building
  <2>7. ToSend = 0 /\ ToSend' = 0 /\ Calls' = 1 /\ InHand' = InHand
    BY <1>2, <1>5, <1>8, <2>2 DEF ToSend, Calls, InHand
  <2>8. e + InHand + n + 0 = Len(log) + 0
    BY Zenon, <1>1, <1>6, <2>7 DEF Queue
  <2>9. e + InHand' + Len(mergeChan') + ToSend' = Len(log') + Calls'
    <3>1. InHand \in Nat /\ n \in Nat /\ Len(log) \in Nat
      BY <1>3, <1>4
    <3>2. e + InHand + (n + 1) + 0 = Len(log) + 1
      BY <2>8, <3>1, <1>OneMore
    <3>3. Len(mergeChan') = n + 1 /\ log' = log
      BY Zenon, <1>2, <1>5
    <3> QED
      BY <2>7, <3>2, <3>3, Zenon
  <2>10. ASSUME NEW i \in DOMAIN mergeChan', mergeChan'[i].kind = "merge"
         PROVE  mergeChan'[i].tables = log'[e + InHand' + i]
    <3>1. i \in 1 .. n
      BY <1>3, <1>5, <1>8, <2>10
    <3> QED
      BY <1>1, <1>2, <1>4, <1>5, <2>7, <3>1, Zenon DEF Queue
  <2>11. Queue(e)'
    <3>1. (merger.td.kind = "merge" => merger.td.tables = log[e + 1])'
      BY <1>1, <1>2, Zenon DEF Queue
    <3>2. ToSend' # 1
      BY <2>7
    <3> QED
      BY <2>9, <2>10, <3>1, <3>2, Zenon DEF Queue
  <2> QED
    BY Zenon, <1>1, <1>2, <2>3, <2>5, <2>6, <2>11, SameBase, SameWork DEF Held
<1> QED
    BY Zenon, <1>7, <1>8

(* The merger takes the first message of the channel.                        *)
LEMMA ReceiveKeeps ==
    ASSUME NEW f, NEW d, NEW e \in Nat, Held(f, d, e), Receive
    PROVE  Held(f, d, e)'
<1> DEFINE q == mergeChan
           n == Len(q)
           td == q[1]
<1>1. Shapes /\ Orders /\ Building /\ Base(f, d) /\ Queue(e) /\ Work(d, e)
    BY Zenon DEF Held
<1>2. /\ merger.pc = "select" /\ q # <<>> /\ mergeChan' = Tail(q)
      /\ merger' = [Select EXCEPT !.pc = "todo", !.td = Head(mergeChan)]
      /\ UNCHANGED <<info, disk, checker, changed, admin, log>>
    BY Zenon DEF Receive
<1>3. q \in Seq(Todos) /\ n \in Nat /\ n >= 1 /\ Len(log) \in Nat /\ ToSend \in {0, 1}
    BY <1>1, <1>2 DEF Shapes, ToSend
<1>4. /\ mergeChan' \in Seq(Todos) /\ Len(mergeChan') = n - 1 /\ DOMAIN mergeChan' = 1 .. n - 1
      /\ \A i \in 1 .. n - 1 : mergeChan'[i] = q[i + 1] /\ i + 1 \in 1 .. n
      /\ td \in Todos /\ Head(q) = td /\ 1 \in 1 .. n /\ DOMAIN q = 1 .. n
    BY <1>2, <1>3
<1>5. merger'.pc = "todo" /\ merger'.td = td
    BY Zenon, <1>2, <1>4 DEF Select
<1>6. td.kind \in {"merge", "persist", "run"} /\ merger.td.kind = "none"
    BY <1>1, <1>2, <1>4, TodoKinds DEF Orders
<1>7. Shapes'
    BY <1>1, <1>2, <1>3, <1>4, <1>5, PipelineAssumption DEF Shapes
<1>8. \A i \in DOMAIN mergeChan' : mergeChan'[i].kind # "merge" =>
         i = Len(mergeChan') /\ checker.pc = "waiting" /\ mergeChan'[i] = checker.todo
  <2> TAKE i \in DOMAIN mergeChan'
  <2> HAVE mergeChan'[i].kind # "merge"
  <2>1. i \in Nat /\ mergeChan'[i] = q[i + 1] /\ i + 1 \in DOMAIN q
    BY <1>3, <1>4
  <2>2. i + 1 = n /\ checker.pc = "waiting" /\ q[i + 1] = checker.todo
    BY Zenon, <1>1, <2>1 DEF Orders
  <2> QED
    BY <1>3, <1>4, <2>1, <2>2
<1>9. td.kind # "merge" => n = 1 /\ checker.pc = "waiting" /\ td = checker.todo
    BY <1>1, <1>4, Zenon DEF Orders
<1>10. td.kind # "merge" => mergeChan' = <<>>
    BY <1>4, <1>9
<1>11. Orders'
    BY Zenon, <1>1, <1>2, <1>5, <1>6, <1>8, <1>9, <1>10 DEF Orders
<1>12. Building'
    BY Zenon, <1>1, <1>2 DEF Building
<1>13. ToSend' = ToSend /\ InHand = 0 /\ InHand' = IF td.kind = "merge" THEN 1 ELSE 0
    BY Zenon, <1>2, <1>5, <1>6 DEF ToSend, InHand
<1>14. Calls' = IF td.kind = "merge" THEN Calls ELSE 0
  <2>1. CASE n = 1
    <3>1. mergeChan' = <<>> /\ q[Len(q)] = td
      BY <1>4, <2>1
    <3> QED
      BY Zenon, <1>2, <3>1 DEF Calls
  <2>2. CASE n # 1
    <3>1. mergeChan' # <<>> /\ Len(mergeChan') \in 1 .. n - 1 /\ Len(mergeChan') + 1 = n
      BY <1>3, <1>4, <2>2
    <3>2. mergeChan'[Len(mergeChan')] = q[n]
      BY Zenon, <1>4, <3>1
    <3>3. td.kind = "merge"
      BY Zenon, <1>9, <2>2
    <3> QED
      BY <1>2, <3>1, <3>2, <3>3 DEF Calls
  <2> QED
    BY Zenon, <2>1, <2>2
<1>15. td.kind # "merge" => Calls = 1
  <2>1. td.kind # "merge" => q[Len(q)] = td
    BY Zenon, <1>9
  <2> QED
    BY Zenon, <1>2, <2>1 DEF Calls
<1>16. Calls \in {0, 1} /\ e + 0 + n + ToSend = Len(log) + Calls
    BY Zenon, <1>1, <1>13 DEF Calls, Queue
<1>17. e + InHand' + Len(mergeChan') + ToSend' = Len(log') + Calls'
    BY SMTT(60), <1>2, <1>3, <1>4, <1>13, <1>14, <1>15, <1>16
<1>18. td.kind = "merge" => td.tables = log[e + 1]
  <2>1. td.kind = "merge" => td.tables = log[e + 0 + 1]
    BY Zenon, <1>1, <1>4, <1>13 DEF Queue
  <2> QED
    BY <2>1
<1>19. ASSUME NEW i \in DOMAIN mergeChan', mergeChan'[i].kind = "merge"
       PROVE  mergeChan'[i].tables = log'[e + InHand' + i]
  <2>1. i \in Nat /\ mergeChan'[i] = q[i + 1] /\ i + 1 \in DOMAIN q /\ n # 1
    BY <1>3, <1>4
  <2>2. q[i + 1].tables = log[e + 0 + (i + 1)]
    BY <1>1, <1>13, <1>19, <2>1 DEF Queue
  <2>3. InHand' = 1
    BY Zenon, <1>9, <1>13, <2>1
  <2>4. e + 0 + (i + 1) = e + InHand' + i
    BY <2>1, <2>3
  <2> QED
    BY <1>2, <2>1, <2>2, <2>4
<1>20. Queue(e)'
  <2>1. (ToSend = 1 => checker.todo.tables = log[Len(log)])'
    BY Zenon, <1>1, <1>2, <1>13 DEF Queue
  <2> QED
    BY <1>2, <1>5, <1>17, <1>18, <1>19, <2>1, Zenon DEF Queue
<1>21. Work(d, e)'
    BY Zenon, <1>1, <1>2, <1>5 DEF Work
<1> QED
    BY SMTT(60), <1>1, <1>2, <1>7, <1>11, <1>12, <1>20, <1>21, SameBase DEF Held

(* What the invariant says of one table.                                     *)
LEMMA BaseOf ==
    ASSUME NEW f \in Nat, NEW d \in Nat, NEW t \in Tables, Shapes, Base(f, d)
    PROVE  /\ Layered(info[t], Writes(log, t, Len(log)), Len(Writes(log, t, d)))
           /\ Layered(disk[t], Writes(log, t, f), Len(Writes(log, t, f))) /\ ~Modified(disk[t])
           /\ Len(log) \in Nat /\ d <= Len(log) /\ f <= d
           /\ Writes(log, t, Len(log)) \in Seq(Nat) /\ Len(Writes(log, t, d)) \in Nat
           /\ Writes(log, t, f) \in Seq(Nat) /\ Len(Writes(log, t, f)) \in Nat
           /\ Len(Writes(log, t, d)) <= Len(Writes(log, t, Len(log)))
           /\ SubSeq(Writes(log, t, Len(log)), 1, Len(Writes(log, t, d))) = Writes(log, t, d)
<1>1. Len(log) \in Nat
    BY DEF Shapes
<1>2. f <= d /\ d <= Len(log)
    BY Zenon DEF Base
<1>3. /\ Layered(info[t], Writes(log, t, Len(log)), Len(Writes(log, t, d)))
      /\ Layered(disk[t], Writes(log, t, f), Len(Writes(log, t, f))) /\ ~Modified(disk[t])
    BY Zenon DEF Base
<1>4. /\ Len(Writes(log, t, d)) <= Len(Writes(log, t, Len(log)))
      /\ SubSeq(Writes(log, t, Len(log)), 1, Len(Writes(log, t, d))) = Writes(log, t, d)
    BY Zenon, <1>1, <1>2, WritesGrow
<1> QED
    BY <1>1, <1>2, <1>3, <1>4, WritesSeq, Zenon

(* buildIndexes reads the table in the state of now; only merges and         *)
(* persists happen until it is added, so it has enough layers.               *)
LEMMA buildIndexesKeeps ==
    ASSUME NEW f \in Nat, NEW d \in Nat, NEW e \in Nat, Held(f, d, e), buildIndexes
    PROVE  Held(f, d, e)'
<1> DEFINE t == admin.table
           ti == info[t]
           ix == ti.Indexes[1]
           ov == IF ti.Nrows = 0 THEN Overlay(<<>>, 1)
                 ELSE Overlay(Entries(ix), Len(ix.layers))
<1>1. Shapes /\ Orders /\ Building /\ Base(f, d) /\ Queue(e) /\ Work(d, e)
    BY Zenon DEF Held
<1>2. /\ admin.pc = "building" /\ admin' = [pc |-> "built", table |-> t, ov |-> ov]
      /\ UNCHANGED <<info, disk, mergeChan, checker, merger, changed, log>>
    BY Zenon DEF buildIndexes
<1>3. t \in Tables /\ Alter
    BY Zenon, <1>1, <1>2, PipelineAssumption DEF Building
<1>4. ov \in Ovs /\ Len(ov.layers) >= Len(ti.Deltas)
  <2> DEFINE S == Writes(log, t, Len(log))
             p == Len(Writes(log, t, d))
  <2>1. S \in Seq(Nat) /\ p \in Nat /\ Layered(ti, S, p)
    BY Zenon, <1>1, <1>3, BaseOf
  <2> HIDE DEF S, p, ti, t
  <2>2. /\ Entries(ix) = S /\ ti.Nrows = Len(S) /\ Len(ix.layers) = Len(ti.Deltas)
        /\ Len(ti.Deltas) = 1 + Len(S) - p
    BY <2>1, InfoReads, Zenon
  <2>3. ti.Deltas \in Seq(Nat)
    BY <2>1, HasLayers, Zenon
  <2>4. Len(S) \in Nat /\ Len(ti.Deltas) \in Nat
    BY <2>1, <2>3
  <2>5. CASE ti.Nrows = 0
    <3>1. 1 >= Len(ti.Deltas)
      BY <2>1, <2>2, <2>4, <2>5
    <3> QED
      BY Zenon, <2>5, <3>1, NoEntries
  <2>6. CASE ti.Nrows # 0
    <3>1. ov = Overlay(S, Len(ti.Deltas))
      BY Zenon, <2>2, <2>6
    <3>2. /\ Overlay(S, Len(ti.Deltas)) \in Ovs
          /\ Len(Overlay(S, Len(ti.Deltas)).layers) = Len(ti.Deltas)
      BY <2>1, <2>4, OverlayIs, Zenon
    <3>3. Len(ti.Deltas) >= Len(ti.Deltas)
      BY <2>4
    <3> QED
      BY <3>1, <3>2, <3>3, Zenon
  <2> QED
    BY Zenon, <2>5, <2>6
<1> HIDE DEF ov
<1>5. admin'.pc = "built" /\ admin'.table = t /\ admin'.ov = ov
    BY Zenon, <1>2
<1>6. Shapes'
    BY <1>1, <1>2, <1>3, <1>4 DEF Shapes
<1>7. Orders'
    BY Zenon, <1>1, <1>2 DEF Orders
<1>8. Building'
    BY <1>1, <1>2, <1>3, <1>4, <1>5 DEF Building
<1>9. Queue(e)'
    BY Zenon, <1>1, <1>2 DEF Queue, InHand, ToSend, Calls
<1> QED
    BY SMTT(60), <1>1, <1>2, <1>6, <1>7, <1>8, <1>9, SameBase, SameWork DEF Held

(* Meta.Persist computes its results from what is merged.                    *)
LEMMA MetaPersistIs ==
    ASSUME NEW f \in Nat, NEW d \in Nat, Shapes, Base(f, d), NEW pc, MetaPersist(pc),
           UNCHANGED <<info, log>>
    PROVE  merger'.pc = pc /\ merger'.td = merger.td /\ Persisting(d)'
<1> DEFINE res == [t \in {t \in Tables : Modified(info[t])} |-> SaveResults(info[t])]
<1>1. merger' = [pc |-> pc, td |-> merger.td, merges |-> <<>>, results |-> res]
    BY Zenon DEF MetaPersist, Select
<1> HIDE DEF res
<1>2. merger'.pc = pc /\ merger'.td = merger.td /\ merger'.results = res
    BY Zenon, <1>1
<1>3. /\ DOMAIN res = {t \in Tables : Modified(info[t])}
      /\ \A t \in DOMAIN res : res[t] = SaveResults(info[t])
    BY Zenon DEF res
<1>4. ASSUME NEW t \in DOMAIN res
      PROVE  /\ \A i \in DOMAIN info[t].Indexes : res[t][i] \in Seq(Nat)
             /\ res[t][1] = Writes(log, t, d)
  <2>1. t \in Tables /\ res[t] = SaveResults(info[t])
    BY Zenon, <1>3
  <2> DEFINE S == Writes(log, t, Len(log))
             p == Len(Writes(log, t, d))
  <2>2. S \in Seq(Nat) /\ p \in Nat /\ Layered(info[t], S, p) /\ SubSeq(S, 1, p) = Writes(log, t, d)
    BY Zenon, <2>1, BaseOf
  <2> HIDE DEF S, p
  <2>3. /\ \A i \in DOMAIN info[t].Indexes : SaveResults(info[t])[i] \in Seq(Nat)
        /\ SaveResults(info[t])[1] = SubSeq(S, 1, p)
    BY <2>2, InfoReads, Zenon
  <2> QED
    BY <2>1, <2>2, <2>3, Zenon
<1>5. Persisting(d)'
    BY <1>2, <1>3, <1>4, Zenon DEF Persisting
<1> QED
    BY Zenon, <1>2, <1>5

(* The timer of the merger starts a persist.                                 *)
LEMMA TickKeeps ==
    ASSUME NEW f \in Nat, NEW d \in Nat, NEW e \in Nat, Held(f, d, e), Tick
    PROVE  Held(f, d, e)'
<1>1. Shapes /\ Orders /\ Building /\ Base(f, d) /\ Queue(e) /\ Work(d, e)
    BY Zenon DEF Held
<1>2. /\ merger.pc = "select" /\ MetaPersist("persist")
      /\ UNCHANGED <<info, disk, mergeChan, checker, changed, admin, log>>
    BY Zenon DEF Tick
<1>3. merger'.pc = "persist" /\ merger'.td = merger.td /\ Persisting(d)'
    BY Zenon, <1>1, <1>2, MetaPersistIs
<1>4. merger.td = NoTodo /\ merger.td.kind = "none"
    BY Zenon, <1>1, <1>2, TodoKinds DEF Orders
<1>5. Shapes'
    BY Zenon, <1>1, <1>2, <1>3 DEF Shapes
<1>6. Orders'
    BY <1>1, <1>2, <1>3, <1>4 DEF Orders
<1>7. Building'
    BY Zenon, <1>1, <1>2 DEF Building
<1>8. Queue(e)'
    BY Zenon, <1>1, <1>2, <1>3 DEF Queue, InHand, ToSend, Calls
<1>9. Work(d, e)'
    BY Zenon, <1>1, <1>2, <1>3 DEF Work
<1> QED
    BY SMTT(60), <1>1, <1>2, <1>5, <1>6, <1>7, <1>8, <1>9, SameBase DEF Held

(* The merger starts the persist of a call to Persist, for which everything  *)
(* before it has been merged.                                                *)
LEMMA StartPersistKeeps ==
    ASSUME NEW f \in Nat, NEW d \in Nat, NEW e \in Nat, Held(f, d, e), StartPersist
    PROVE  Held(f, d, e)'
<1>1. Shapes /\ Orders /\ Building /\ Base(f, d) /\ Queue(e) /\ Work(d, e)
    BY Zenon DEF Held
<1>2. /\ merger.pc = "todo" /\ merger.td.kind = "persist"
      /\ UNCHANGED <<info, disk, mergeChan, changed, admin, log>>
    BY Zenon DEF StartPersist
<1>3. mergeChan = <<>> /\ checker.pc = "waiting" /\ checker.todo = merger.td
    BY Zenon, <1>1, <1>2 DEF Orders
<1>4. CASE changed
  <2>1. MetaPersist("persist") /\ UNCHANGED checker
    BY Zenon, <1>4 DEF StartPersist
  <2>2. merger'.pc = "persist" /\ merger'.td = merger.td /\ Persisting(d)'
    BY <1>1, <1>2, <2>1, MetaPersistIs
  <2>3. Shapes'
    BY <1>1, <1>2, <2>1, <2>2 DEF Shapes
  <2>4. Orders'
    BY <1>1, <1>2, <2>1, <2>2 DEF Orders
  <2>5. Building'
    BY Zenon, <1>1, <1>2, <2>1 DEF Building
  <2>6. Queue(e)'
    BY Zenon, <1>1, <1>2, <2>1, <2>2 DEF Queue, InHand, ToSend, Calls
  <2>7. Work(d, e)'
    BY <1>1, <1>2, <2>1, <2>2 DEF Work
  <2> QED
    BY SMTT(60), <1>1, <1>2, <2>3, <2>4, <2>5, <2>6, <2>7, SameBase DEF Held
<1>5. CASE ~changed
  <2>1. merger' = Select /\ checker' = Idle
    BY Zenon, <1>5 DEF StartPersist
  <2>2. /\ merger'.pc = "select" /\ merger'.td = NoTodo
        /\ checker'.pc = "idle" /\ checker'.todo = NoTodo
    BY Zenon, <2>1 DEF Select, Idle
  <2>3. NoTodo.kind = "none"
    BY Zenon, TodoKinds
  <2>4. Shapes'
    BY <1>1, <1>2, <2>1, <2>2 DEF Shapes, Idle
  <2>5. Orders'
    BY <1>1, <1>2, <1>3, <2>2, <2>3 DEF Orders
  <2>6. Building'
    BY Zenon, <1>1, <1>2, <2>2 DEF Building
  <2>7. Queue(e)'
    BY <1>1, <1>2, <1>3, <2>2, <2>3 DEF Queue, InHand, ToSend, Calls
  <2>8. Work(d, e)'
    BY Zenon, <1>1, <1>2, <2>2 DEF Work
  <2> QED
    BY Zenon, <1>1, <1>2, <2>4, <2>5, <2>6, <2>7, <2>8, SameBase DEF Held
<1> QED
    BY Zenon, <1>4, <1>5

(* The last persist, when the channel is closed and empty.                   *)
LEMMA FinishKeeps ==
    ASSUME NEW f \in Nat, NEW d \in Nat, NEW e \in Nat, Held(f, d, e), Finish
    PROVE  Held(f, d, e)'
<1>1. Shapes /\ Orders /\ Building /\ Base(f, d) /\ Queue(e) /\ Work(d, e)
    BY Zenon DEF Held
<1>2. /\ merger.pc = "select" /\ mergeChan = <<>> /\ checker.pc = "stopped"
      /\ UNCHANGED <<info, disk, mergeChan, checker, changed, admin, log>>
    BY Zenon DEF Finish
<1>3. merger.td = NoTodo /\ NoTodo.kind = "none"
    BY Zenon, <1>1, <1>2, TodoKinds DEF Orders
<1>4. MetaPersist("last") \/ (~changed /\ merger' = [Select EXCEPT !.pc = "done"])
    BY Zenon DEF Finish
<1>5. \/ merger'.pc = "last" /\ merger'.td = NoTodo /\ Persisting(d)'
      \/ ~changed /\ merger'.pc = "done" /\ merger'.td = NoTodo
  <2>1. CASE MetaPersist("last")
    BY <1>1, <1>2, <1>3, <2>1, MetaPersistIs
  <2>2. CASE ~changed /\ merger' = [Select EXCEPT !.pc = "done"]
    BY Zenon, <2>2 DEF Select
  <2> QED
    BY Zenon, <1>4, <2>1, <2>2
<1>6. Shapes'
    BY Zenon, <1>1, <1>2, <1>5 DEF Shapes
<1>7. Orders'
    BY <1>1, <1>2, <1>3, <1>5 DEF Orders
<1>8. Building'
    BY Zenon, <1>1, <1>2 DEF Building
<1>9. Queue(e)'
    BY <1>1, <1>2, <1>3, <1>5 DEF Queue, InHand, ToSend, Calls
<1>10. Work(d, e)'
    BY Zenon, <1>1, <1>2, <1>5 DEF Work
<1> QED
    BY SMTT(60), <1>1, <1>2, <1>6, <1>7, <1>8, <1>9, <1>10, SameBase DEF Held

(* The btree of a table in the file has the transactions up to f.            *)
LEMMA OnDisk ==
    ASSUME NEW f \in Nat, NEW d \in Nat, NEW t \in Tables, Shapes, Base(f, d)
    PROVE  disk[t].Indexes[1].bt = Writes(log, t, f)
<1> DEFINE S == Writes(log, t, f)
<1>1. S \in Seq(Nat) /\ Len(S) \in Nat /\ Layered(disk[t], S, Len(S)) /\ ~Modified(disk[t])
    BY Zenon, BaseOf
<1> HIDE DEF S
<1>2. disk[t].Indexes[1].bt = SubSeq(S, 1, Len(S))
    BY <1>1, InfoReads, Zenon
<1>3. SubSeq(S, 1, Len(S)) = S
    BY <1>1
<1> QED
    BY Zenon, <1>2, <1>3 DEF S

(* The newest entry in the file is the last transaction that the file has:   *)
(* each transaction wrote some table.                                        *)
LEMMA DurableOf ==
    ASSUME NEW l \in Seq((SUBSET Tables) \ {{}}), NEW f \in 0 .. Len(l), NEW dk,
           \A t \in Tables : dk[t].Indexes[1].bt = Writes(l, t, f)
    PROVE  Newest(dk) = f
(* An element of a sequence.                                                 *)
<1>Element. ASSUME NEW X, NEW s \in Seq(X), NEW n \in 1 .. Len(s)
            PROVE  s[n] \in X
      OBVIOUS
(* A table has the entry of the last transaction if that one wrote it.       *)
<1>LastWrite. ASSUME NEW t, NEW m \in Nat, m # 0, t \in l[m]
              PROVE  \E i \in DOMAIN Writes(l, t, m) : Writes(l, t, m)[i] = m
  <2> USE <1>LastWrite
  <2> DEFINE W == Writes(l, t, m - 1)
  <2>1. m - 1 \in Nat /\ m - 1 + 1 = m
      OBVIOUS
  <2>2. W \in Seq(Nat) /\ Writes(l, t, m - 1 + 1) =
          IF t \in l[m - 1 + 1] THEN Append(W, m - 1 + 1) ELSE W
      BY Zenon, <2>1, WritesStep
  <2>3. Writes(l, t, m) = Append(W, m)
      BY Zenon, <2>1, <2>2
  <2> HIDE DEF W
  <2>4. Len(W) + 1 \in DOMAIN Append(W, m) /\ Append(W, m)[Len(W) + 1] = m
      BY <2>2
  <2> QED
      BY Zenon, <2>3, <2>4
<1> DEFINE Saved(t) == {dk[t].Indexes[1].bt[i] : i \in DOMAIN dk[t].Indexes[1].bt}
           D == {0} \cup UNION {Saved(t) : t \in Tables}
<1>1. f \in Nat /\ f <= Len(l) /\ Len(l) \in Nat
    OBVIOUS
<1>2. \A x \in D : x \in Nat /\ x <= f
  <2> TAKE x \in D
  <2>1. CASE x = 0
    BY <1>1, <2>1
  <2>2. CASE x # 0
    <3>1. PICK t \in Tables : x \in Saved(t)
      BY Zenon, <2>2
    <3>2. PICK i \in DOMAIN Writes(l, t, f) : x = Writes(l, t, f)[i]
      BY Zenon, <3>1
    <3>3. Writes(l, t, f) \in Seq(Nat)
      BY Zenon, <1>1, WritesSeq
    <3>4. i \in 1 .. Len(Writes(l, t, f))
      BY <3>3
    <3>5. x \in 1 .. f
      BY <1>1, <3>2, <3>4, WritesBounded, Zenon
    <3> QED
      BY <1>1, <3>5
  <2> QED
    BY Zenon, <2>1, <2>2
<1>3. f \in D
  <2>1. CASE f = 0
    BY Zenon, <2>1
  <2>2. CASE f # 0
    <3> DEFINE X == (SUBSET Tables) \ {{}}
    <3>1. l \in Seq(X) /\ f \in 1 .. Len(l)
      BY <1>1, <2>2
    <3> HIDE DEF X
    <3>2. l[f] \in X
      BY <3>1, <1>Element, Zenon
    <3>3. PICK t \in Tables : t \in l[f]
      BY Zenon, <3>2 DEF X
    <3>4. \E i \in DOMAIN Writes(l, t, f) : Writes(l, t, f)[i] = f
      BY <1>1, <2>2, <3>3, <1>LastWrite, Zenon
    <3>5. f \in Saved(t)
      BY <3>4, Zenon
    <3> QED
      BY Zenon, <3>5
  <2> QED
    BY <2>1, <2>2
<1>4. Newest(dk) = CHOOSE n \in D : \A m \in D : m <= n
    BY Zenon DEF Newest
<1> HIDE DEF D
<1>5. \A y \in D : y <= f
    BY Zenon, <1>1, <1>2
<1>6. PICK m \in D : m = Newest(dk) /\ \A y \in D : y <= m
    BY <1>3, <1>4, <1>5, Zenon
<1> QED
    BY <1>1, <1>2, <1>3, <1>6

(* Durable, which the refinement uses, is the point f of the invariant.      *)
LEMMA DurableIs ==
    ASSUME NEW f \in Nat, NEW d \in Nat, Shapes, Base(f, d)
    PROVE  Durable = f
<1>1. \A t \in Tables : disk[t].Indexes[1].bt = Writes(log, t, f)
    BY Zenon, OnDisk
<1>2. log \in Seq((SUBSET Tables) \ {{}}) /\ f \in 0 .. Len(log)
    BY DEF Shapes, Base
<1> QED
    BY <1>1, <1>2, DurableOf DEF Durable

(* Opening the database, after a shutdown or after a crash at any moment,    *)
(* brings the state back to the transactions up to f and forgets the others. *)
LEMMA OpenDatabaseKeeps ==
    ASSUME NEW f \in Nat, NEW d \in Nat, NEW e \in Nat, Held(f, d, e), OpenDatabase
    PROVE  Held(f, f, f)'
<1>1. Shapes /\ Orders /\ Building /\ Base(f, d) /\ Queue(e) /\ Work(d, e)
    BY Zenon DEF Held
<1>2. Durable = f
    BY Zenon, <1>1, DurableIs
<1>3. /\ info' = disk /\ mergeChan' = <<>> /\ checker' = Idle /\ merger' = Select
      /\ changed' = FALSE /\ admin' = NoAdmin /\ log' = SubSeq(log, 1, f) /\ disk' = disk
    BY Zenon, <1>2 DEF OpenDatabase
<1>4. /\ log \in Seq((SUBSET Tables) \ {{}}) /\ Len(log) \in Nat /\ f <= Len(log)
      /\ disk \in [Tables -> Infos] /\ Len(log) <= MaxCommits
    BY SMTT(60), <1>1 DEF Shapes, Base
<1>5. /\ log' \in Seq((SUBSET Tables) \ {{}}) /\ Len(log') = f
      /\ \A i \in 1 .. f : log'[i] = log[i]
    BY <1>3, <1>4
<1>6. /\ merger'.pc = "select" /\ merger'.td = NoTodo /\ checker'.pc = "idle"
      /\ checker'.todo = NoTodo /\ admin'.pc = "none" /\ NoTodo.kind = "none"
    BY Zenon, <1>3, TodoKinds DEF Select, Idle, NoAdmin
<1>7. Shapes'
  <2>1. (checker \in [pc : {"idle", "sending", "waiting", "stopped"}, todo : Todos \cup {NoTodo}])'
    BY Zenon, <1>3 DEF Idle
  <2>2. (admin \in [pc : {"none", "building", "built", "running"},
                  table : Tables \cup {"none"}, ov : Ovs])'
    BY Zenon, <1>3, NoEntries DEF NoAdmin
  <2>3. Len(log') <= MaxCommits /\ mergeChan' \in Seq(Todos) /\ Len(mergeChan') <= chanBuffers
    BY <1>3, <1>4, <1>5, PipelineAssumption
  <2> QED
    BY Zenon, <1>3, <1>4, <1>5, <1>6, <2>1, <2>2, <2>3 DEF Shapes
<1>8. Orders'
    BY <1>3, <1>6 DEF Orders
<1>9. Building'
    BY <1>1, <1>3, <1>6 DEF Building
<1>10. Queue(f)'
  <2>1. InHand' = 0 /\ ToSend' = 0 /\ Calls' = 0 /\ Len(mergeChan') = 0
    BY Zenon, <1>3, <1>6 DEF InHand, ToSend, Calls
  <2> QED
    BY <1>3, <1>5, <1>6, <2>1 DEF Queue
<1>11. Work(f, f)'
    BY <1>5, <1>6 DEF Work
<1>12. ASSUME NEW t \in Tables
       PROVE  Writes(log', t, f) = Writes(log, t, f)
    BY <1>5, WritesSame
<1>13. ASSUME NEW t \in Tables
       PROVE  /\ Layered(info'[t], Writes(log', t, Len(log')), Len(Writes(log', t, f)))
              /\ Layered(disk'[t], Writes(log', t, f), Len(Writes(log', t, f))) /\ ~Modified(disk'[t])
              /\ ~Modified(info'[t])
  <2>1. Layered(disk[t], Writes(log, t, f), Len(Writes(log, t, f))) /\ ~Modified(disk[t])
    BY Zenon, <1>1, BaseOf
  <2> QED
    BY <1>3, <1>5, <1>12, <2>1, Zenon
<1>14. Base(f, f)'
  <2>1. f <= f /\ f <= Len(log')
    BY <1>5
  <2> QED
    BY <1>3, <1>13, <2>1, Zenon DEF Base
<1> QED
    BY Zenon, <1>7, <1>8, <1>9, <1>10, <1>11, <1>14 DEF Held

(* A commit (Meta.LayeredOnto) while the merger computes a merge or a        *)
(* persist: the results still fit, because the commit adds layers on top and *)
(* changes nothing below.                                                    *)
LEMMA CommitKeeps ==
    ASSUME NEW f \in Nat, NEW d \in Nat, NEW e \in Nat, Held(f, d, e),
           NEW ts \in (SUBSET Tables) \ {{}}, Commit(ts)
    PROVE  Held(f, d, e)'
(* A commit changes neither the number of indexes nor the btree nor the base *)
(* layer.                                                                    *)
<1>LayeredOntoIs. ASSUME NEW ti, NEW S \in Seq(Nat), NEW p \in Nat, NEW x \in Nat, Layered(ti, S, p)
                  PROVE  /\ DOMAIN LayeredOnto(ti, x).Indexes = DOMAIN ti.Indexes
                         /\ LayeredOnto(ti, x).Indexes[1].bt = ti.Indexes[1].bt
                         /\ Modified(LayeredOnto(ti, x)) <=> Modified(ti)
  <2> USE <1>LayeredOntoIs
  <2> DEFINE ls == ti.Indexes[1].layers
  <2>1. /\ ti.Deltas \in Seq(Nat) /\ ti.Indexes \in Seq(Ovs) /\ 1 \in DOMAIN ti.Indexes
        /\ ti.Indexes[1] \in Ovs /\ ls \in Seq(Seq(Nat))
        /\ Stack(ti.Indexes[1].bt, ls, S, p)
      BY HasLayers, Zenon
  <2>2. LayeredOnto(ti, x).Indexes = [i \in DOMAIN ti.Indexes |-> UpdateWith(ti.Indexes[i], <<x>>)]
      BY Zenon DEF LayeredOnto
  <2>3. <<x>> \in Seq(Nat)
      OBVIOUS
  <2>4. /\ UpdateWith(ti.Indexes[1], <<x>>).bt = ti.Indexes[1].bt
        /\ UpdateWith(ti.Indexes[1], <<x>>).layers = Append(ls, <<x>>)
      BY <2>1, <2>3, UpdateWithIs, Zenon
  <2>5. /\ DOMAIN LayeredOnto(ti, x).Indexes = DOMAIN ti.Indexes
        /\ LayeredOnto(ti, x).Indexes[1] = UpdateWith(ti.Indexes[1], <<x>>)
      BY Zenon, <2>1, <2>2
  <2>6. Len(ls) = 1 + Len(S) - p /\ p <= Len(S) /\ Len(S) \in Nat
      BY <2>1 DEF Stack
  <2>7. Append(ls, <<x>>)[1] = ls[1]
    <3> HIDE DEF ls
    <3>1. 1 \in 1 .. Len(ls)
      BY <2>6
    <3> QED
      BY <2>1, <3>1
  <2> QED
      BY <2>4, <2>5, <2>7, Zenon DEF Modified
(* A commit, and the message that the checker has to send for it.            *)
<1>OneSent. ASSUME NEW i1 \in Nat, NEW i2 \in Nat, NEW i3 \in Nat, NEW i4 \in Nat,
                   i1 + i2 + i3 + 0 = i4 + 0
            PROVE  i1 + i2 + i3 + 1 = i4 + 1 + 0
      BY <1>OneSent
<1> DEFINE L == Len(log)
           q == mergeChan
<1>1. Shapes /\ Orders /\ Building /\ Base(f, d) /\ Queue(e) /\ Work(d, e)
    BY Zenon DEF Held
<1>2. /\ checker.pc = "idle" /\ admin.table \notin ts /\ L < MaxCommits
      /\ log' = Append(log, ts) /\ changed' = TRUE
      /\ info' = [t \in Tables |-> IF t \in ts THEN LayeredOnto(info[t], Len(log')) ELSE info[t]]
      /\ checker' = [pc |-> "sending", todo |-> [kind |-> "merge", tables |-> ts]]
      /\ UNCHANGED <<disk, mergeChan, merger, admin>>
    BY Zenon DEF Commit, UpdateState, Sending
<1>3. /\ log \in Seq((SUBSET Tables) \ {{}}) /\ L \in Nat /\ f <= d /\ d <= L /\ e <= L /\ d <= e
      /\ q \in Seq(Todos) /\ Len(q) \in Nat
    BY SMTT(60), <1>1 DEF Shapes, Base, Work
<1>4. /\ log' \in Seq((SUBSET Tables) \ {{}}) /\ Len(log') = L + 1 /\ log'[L + 1] = ts
      /\ \A i \in 1 .. L : log'[i] = log[i]
    BY <1>2, <1>3
<1>5. /\ checker'.pc = "sending" /\ checker'.todo.kind = "merge" /\ checker'.todo.tables = ts
      /\ [kind |-> "merge", tables |-> ts] \in Todos
    BY <1>2, TodoKinds
<1>6. ASSUME NEW t
      PROVE  /\ \A n \in 0 .. L : Writes(log', t, n) = Writes(log, t, n)
             /\ Writes(log', t, L + 1) =
                  IF t \in ts THEN Append(Writes(log, t, L), L + 1) ELSE Writes(log, t, L)
  <2>1. ASSUME NEW n \in 0 .. L
        PROVE  Writes(log', t, n) = Writes(log, t, n)
    <3>1. n \in Nat /\ \A i \in 1 .. n : log'[i] = log[i]
      BY <1>3, <1>4
    <3> QED
      BY <3>1, WritesSame
  <2>2. Writes(log', t, L + 1) =
          IF t \in log'[L + 1] THEN Append(Writes(log', t, L), L + 1) ELSE Writes(log', t, L)
    BY Zenon, <1>3, WritesStep
  <2>3. L \in 0 .. L
    BY <1>3
  <2> QED
    BY <1>4, <2>1, <2>2, <2>3, Zenon
<1>7. f \in 0 .. L /\ d \in 0 .. L /\ e \in 0 .. L /\ L + 1 \in Nat
    BY SMTT(60), <1>3
<1>8. ASSUME NEW t \in Tables
      PROVE  /\ Layered(info'[t], Writes(log', t, L + 1), Len(Writes(log, t, d)))
             /\ DOMAIN info'[t].Indexes = DOMAIN info[t].Indexes
             /\ info'[t].Indexes[1].bt = info[t].Indexes[1].bt
             /\ Modified(info'[t]) <=> Modified(info[t])
  <2> DEFINE S == Writes(log, t, L)
             p == Len(Writes(log, t, d))
  <2>1. Layered(info[t], S, p) /\ S \in Seq(Nat) /\ p \in Nat
    BY Zenon, <1>1, BaseOf
  <2>2. CASE t \notin ts
    <3>1. info'[t] = info[t]
      BY Zenon, <1>2, <2>2
    <3> QED
      BY <1>6, <2>1, <2>2, <3>1, Zenon
  <2>3. CASE t \in ts
    <3>1. info'[t] = LayeredOnto(info[t], L + 1) /\ Writes(log', t, L + 1) = Append(S, L + 1)
      BY Zenon, <1>2, <1>4, <1>6, <2>3
    <3> HIDE DEF S, p, L
    <3>2. Layered(LayeredOnto(info[t], L + 1), Append(S, L + 1), p)
      BY <1>7, <2>1, InfoCommit, Zenon
    <3>3. /\ DOMAIN LayeredOnto(info[t], L + 1).Indexes = DOMAIN info[t].Indexes
          /\ LayeredOnto(info[t], L + 1).Indexes[1].bt = info[t].Indexes[1].bt
          /\ Modified(LayeredOnto(info[t], L + 1)) <=> Modified(info[t])
      BY <1>7, <2>1, <1>LayeredOntoIs, Zenon
    <3> QED
      BY <3>1, <3>2, <3>3, Zenon DEF p
  <2> QED
    BY <2>2, <2>3
<1>9. Base(f, d)'
  <2>1. ASSUME NEW t \in Tables
        PROVE  /\ Layered(info'[t], Writes(log', t, Len(log')), Len(Writes(log', t, d)))
               /\ Layered(disk'[t], Writes(log', t, f), Len(Writes(log', t, f))) /\ ~Modified(disk'[t])
    <3>1. Layered(disk[t], Writes(log, t, f), Len(Writes(log, t, f))) /\ ~Modified(disk[t])
      BY Zenon, <1>1, BaseOf
    <3>2. Writes(log', t, d) = Writes(log, t, d) /\ Writes(log', t, f) = Writes(log, t, f)
      BY <1>6, <1>7, Zenon
    <3>3. disk' = disk
      BY Zenon, <1>2
    <3> QED
      BY <1>4, <1>8, <3>1, <3>2, <3>3, Zenon
  <2>2. f <= d /\ d <= Len(log')
    BY <1>3, <1>4
  <2> QED
    BY <1>2, <2>1, <2>2, Zenon DEF Base
<1>10. info' \in [Tables -> Infos]
  <2>1. \A t \in Tables : info'[t] \in Infos
    BY <1>8, Zenon DEF Layered
  <2>2. info' = [t \in Tables |-> info'[t]]
    BY Zenon, <1>2
  <2> QED
    BY Zenon, <2>1, <2>2
<1>11. Shapes'
  <2>1. Len(log') <= MaxCommits
    BY <1>2, <1>3, <1>4, PipelineAssumption
  <2> QED
    BY SMTT(60), <1>1, <1>2, <1>4, <1>5, <1>10, <2>1 DEF Shapes
<1>12. Orders'
    BY Zenon, <1>1, <1>2, <1>5 DEF Orders
<1>13. Building'
  <2>1. admin.pc # "none" => info'[admin.table] = info[admin.table]
    BY <1>1, <1>2 DEF Building
  <2>2. ~Alter => \A t \in Tables : DOMAIN info'[t].Indexes = {1} /\ DOMAIN disk'[t].Indexes = {1}
    BY <1>1, <1>2, <1>8, Zenon DEF Building
  <2> QED
    BY Zenon, <1>1, <1>2, <1>5, <2>1, <2>2 DEF Building
<1>14. InHand \in {0, 1} /\ Calls = 0 /\ ToSend = 0 /\ InHand' = InHand /\ Calls' = 0 /\ ToSend' = 1
  <2>1. Len(q) \in DOMAIN q \/ q = <<>>
    BY <1>3
  <2>2. Calls = 0 /\ Calls' = 0
    BY Zenon, <1>1, <1>2, <2>1 DEF Calls, Orders
  <2> QED
    BY <1>2, <1>5, <2>2 DEF InHand, ToSend
<1>15. e + InHand + Len(q) + 0 = L + 0
    BY <1>1, <1>14, Zenon DEF Queue
<1>16. e + InHand' + Len(mergeChan') + ToSend' = Len(log') + Calls'
  <2>1. InHand \in Nat /\ Len(q) \in Nat /\ L \in Nat
    BY <1>3, <1>14
  <2>2. e + InHand + Len(q) + 1 = L + 1 + 0
    BY <1>15, <2>1, <1>OneSent
  <2>3. mergeChan' = q
    BY Zenon, <1>2
  <2> QED
    BY <1>4, <1>14, <2>2, <2>3, Zenon
<1>17. merger.td.kind = "merge" => log'[e + 1] = log[e + 1]
  <2>1. merger.td.kind = "merge" => InHand = 1
    BY Zenon DEF InHand
  <2>2. InHand = 1 => e + 1 \in 1 .. L
    BY <1>3, <1>15
  <2> QED
    BY <1>4, <2>1, <2>2
<1>18. \A i \in DOMAIN q : log'[e + InHand + i] = log[e + InHand + i]
  <2> TAKE i \in DOMAIN q
  <2>1. i \in 1 .. Len(q)
    BY <1>3
  <2>2. e + InHand + i \in 1 .. L
    BY SMTT(60), <1>3, <1>14, <1>15, <2>1
  <2> QED
    BY Zenon, <1>4, <2>2
<1>19. Queue(e)'
  <2>1. (merger.td.kind = "merge" => merger.td.tables = log[e + 1])'
    BY Zenon, <1>1, <1>2, <1>17 DEF Queue
  <2>2. \A i \in DOMAIN mergeChan' :
          mergeChan'[i].kind = "merge" => mergeChan'[i].tables = log'[e + InHand' + i]
    BY Zenon, <1>1, <1>2, <1>14, <1>18 DEF Queue
  <2>3. checker'.todo.tables = log'[Len(log')]
    BY Zenon, <1>4, <1>5
  <2> QED
    BY SMTT(60), <1>16, <2>1, <2>2, <2>3 DEF Queue
<1>20. merger.pc = "merge" => Merging(d, e)'
  <2> SUFFICES ASSUME Merging(d, e) PROVE Merging(d, e)'
    BY Zenon, <1>1 DEF Work
  <2>1. \A t : Writes(log', t, d) = Writes(log, t, d) /\ Writes(log', t, e) = Writes(log, t, e)
    BY <1>6, <1>7, Zenon
  <2>2. merger' = merger
    BY Zenon, <1>2
  <2>3. \A t \in Tables \ DOMAIN merger'.merges : Writes(log', t, d) = Writes(log', t, e)
    BY <2>1, <2>2, Zenon DEF Merging
  <2>4. ASSUME NEW t \in DOMAIN merger'.merges
        PROVE  /\ merger'.merges[t] = Len(Writes(log', t, e)) - Len(Writes(log', t, d))
               /\ \A i \in DOMAIN info'[t].Indexes : merger'.results[t][i] \in Seq(Nat)
               /\ merger'.results[t][1] =
                    SubSeq(Writes(log', t, e), Len(info'[t].Indexes[1].bt) + 1, Len(Writes(log', t, e)))
    <3>1. t \in Tables /\ t \in DOMAIN merger.merges
      BY Zenon, <2>2 DEF Merging
    <3>2. /\ merger.merges[t] = Len(Writes(log, t, e)) - Len(Writes(log, t, d))
          /\ \A i \in DOMAIN info[t].Indexes : merger.results[t][i] \in Seq(Nat)
          /\ merger.results[t][1] =
               SubSeq(Writes(log, t, e), Len(info[t].Indexes[1].bt) + 1, Len(Writes(log, t, e)))
      BY <3>1, Zenon DEF Merging
    <3>3. /\ DOMAIN info'[t].Indexes = DOMAIN info[t].Indexes
          /\ info'[t].Indexes[1].bt = info[t].Indexes[1].bt
      BY <1>8, <3>1, Zenon
    <3> QED
      BY <2>1, <2>2, <3>2, <3>3, Zenon
  <2>5. DOMAIN merger'.merges \subseteq Tables
    BY Zenon, <2>2 DEF Merging
  <2> QED
    BY <2>3, <2>4, <2>5, Zenon DEF Merging
<1>21. merger.pc \in {"persist", "last"} => Persisting(d)'
  <2> SUFFICES ASSUME Persisting(d) PROVE Persisting(d)'
    BY Zenon, <1>1 DEF Work
  <2>1. DOMAIN merger'.results = {t \in Tables : Modified(info'[t])}
    BY Zenon, <1>2, <1>8 DEF Persisting
  <2>2. ASSUME NEW t \in DOMAIN merger'.results
        PROVE  /\ \A i \in DOMAIN info'[t].Indexes : merger'.results[t][i] \in Seq(Nat)
               /\ merger'.results[t][1] = Writes(log', t, d)
    <3>1. t \in Tables /\ t \in DOMAIN merger.results
      BY Zenon, <1>2, <2>1
    <3>2. /\ \A i \in DOMAIN info[t].Indexes : merger.results[t][i] \in Seq(Nat)
          /\ merger.results[t][1] = Writes(log, t, d)
      BY <3>1, Zenon DEF Persisting
    <3>3. merger' = merger
      BY Zenon, <1>2
    <3> QED
      BY <1>6, <1>7, <1>8, <3>1, <3>2, <3>3, Zenon
  <2> QED
    BY <2>1, <2>2, Zenon DEF Persisting
<1>22. Work(d, e)'
  <2>1. d <= e /\ e <= Len(log')
    BY <1>3, <1>4
  <2>2. merger' = merger
    BY Zenon, <1>2
  <2> QED
    BY SMTT(60), <1>1, <1>20, <1>21, <2>1, <2>2 DEF Work
<1> QED
    BY SMTT(60), <1>9, <1>11, <1>12, <1>13, <1>19, <1>22 DEF Held

(* UpdateState with the results of a persist: everything that was merged is  *)
(* in the file then, the commits since are not, and they keep their layers.  *)
LEMMA PersistKeeps ==
    ASSUME NEW f \in Nat, NEW d \in Nat, NEW e \in Nat, Held(f, d, e), Persist
    PROVE  Held(d, d, e)'
<1> DEFINE res == merger.results
<1>1. Shapes /\ Orders /\ Building /\ Base(f, d) /\ Queue(e) /\ Work(d, e)
    BY Zenon DEF Held
<1>2. /\ merger.pc \in {"persist", "last"}
      /\ info' = [t \in Tables |-> IF t \in DOMAIN res
                                   THEN ApplyPersist(info[t], res[t]) ELSE info[t]]
      /\ disk' = [t \in Tables |-> Written(info'[t])]
      /\ changed' = FALSE
      /\ merger' = IF merger.pc = "last" THEN [Select EXCEPT !.pc = "done"] ELSE Select
      /\ checker' = IF merger.td.kind = "persist" THEN Idle ELSE checker
      /\ UNCHANGED <<mergeChan, admin, log>>
    BY Zenon DEF Persist
<1>3. Persisting(d) /\ d = e
    BY Zenon, <1>1, <1>2 DEF Work
<1>4. ASSUME NEW t \in Tables
      PROVE  /\ Layered(info'[t], Writes(log, t, Len(log)), Len(Writes(log, t, d)))
             /\ ~Modified(info'[t]) /\ DOMAIN info'[t].Indexes = DOMAIN info[t].Indexes
             /\ Len(info'[t].Deltas) = Len(info[t].Deltas)
             /\ Layered(disk'[t], Writes(log, t, d), Len(Writes(log, t, d))) /\ ~Modified(disk'[t])
             /\ DOMAIN disk'[t].Indexes = DOMAIN info[t].Indexes
  <2> DEFINE S == Writes(log, t, Len(log))
             p == Len(Writes(log, t, d))
             ti == info[t]
             ui == info'[t]
             r == res[t]
  <2>1. /\ Layered(ti, S, p) /\ S \in Seq(Nat) /\ p \in Nat /\ p <= Len(S)
        /\ SubSeq(S, 1, p) = Writes(log, t, d)
    BY Zenon, <1>1, BaseOf
  <2>2. Layered(ui, S, p) /\ ~Modified(ui) /\ DOMAIN ui.Indexes = DOMAIN ti.Indexes
    <3>1. CASE t \in DOMAIN res
      <4>1. ui = ApplyPersist(ti, r)
        BY Zenon, <1>2, <3>1
      <4>2. ForIndexes(ti, r, SubSeq(S, 1, p))
        BY <1>3, <2>1, <3>1, Zenon DEF Persisting, ForIndexes
      <4> HIDE DEF S, p, ui, ti, r
      <4>3. /\ Layered(ApplyPersist(ti, r), S, p) /\ ~Modified(ApplyPersist(ti, r))
            /\ DOMAIN ApplyPersist(ti, r).Indexes = DOMAIN ti.Indexes
        BY <2>1, <4>2, InfoPersist, ZenonT(30)
      <4> QED
        BY <4>1, <4>3, Zenon
    <3>2. CASE t \notin DOMAIN res
      <4>1. ui = ti /\ ~Modified(ti)
        BY Zenon, <1>2, <1>3, <3>2 DEF Persisting
      <4> QED
        BY <2>1, <4>1, Zenon
    <3> QED
      BY Zenon, <3>1, <3>2
  <2>3. disk'[t] = Written(ui)
    BY Zenon, <1>2
  <2> HIDE DEF S, p, ui, ti
  <2>4. /\ Layered(Written(ui), SubSeq(S, 1, p), p)
        /\ DOMAIN Written(ui).Indexes = DOMAIN ui.Indexes
        /\ ~Modified(Written(ui))
    BY <2>1, <2>2, InfoWritten, Zenon
  <2>5. Len(ui.Deltas) = Len(ti.Deltas)
    <3>1. Len(ti.Deltas) = 1 + Len(S) - p
      BY <2>1, InfoReads, Zenon
    <3>2. Len(ui.Deltas) = 1 + Len(S) - p
      BY ZenonT(40), <2>1, <2>2, InfoReads
    <3> QED
      BY <3>1, <3>2, Zenon
  <2>6. Layered(Written(ui), Writes(log, t, d), p)
    BY <2>1, <2>4, Zenon
  <2> QED
    BY <2>2, <2>3, <2>4, <2>5, <2>6, Zenon DEF S, p, ui, ti
<1>5. Base(d, d)'
  <2>1. d <= d /\ d <= Len(log') /\ log' = log
    BY <1>1, <1>2 DEF Base
  <2> QED
    BY <1>4, <2>1, Zenon DEF Base
<1>6. /\ merger'.td = NoTodo /\ NoTodo.kind = "none"
      /\ merger'.pc = IF merger.pc = "last" THEN "done" ELSE "select"
    BY Zenon, <1>2, TodoKinds DEF Select
<1>7. merger.td.kind \in {"none", "persist"} /\ (merger.pc = "last" => merger.td = NoTodo)
    BY Zenon, <1>1, <1>2, <1>6 DEF Orders
<1>8. info' \in [Tables -> Infos] /\ disk' \in [Tables -> Infos]
  <2>1. \A t \in Tables : info'[t] \in Infos /\ disk'[t] \in Infos
    BY <1>4, Zenon DEF Layered
  <2>2. info' = [t \in Tables |-> info'[t]] /\ disk' = [t \in Tables |-> disk'[t]]
    BY Zenon, <1>2
  <2> QED
    BY Zenon, <2>1, <2>2
<1>10. \A t \in Tables : /\ DOMAIN info'[t].Indexes = DOMAIN info[t].Indexes
                         /\ DOMAIN disk'[t].Indexes = DOMAIN info[t].Indexes
                         /\ Len(info'[t].Deltas) = Len(info[t].Deltas)
    BY <1>4, Zenon
<1>11. ~Alter => \A t \in Tables : DOMAIN info'[t].Indexes = {1} /\ DOMAIN disk'[t].Indexes = {1}
    BY <1>1, <1>10, Zenon DEF Building
<1>12. Work(d, e)'
  <2>1. d <= e /\ e <= Len(log')
    BY Zenon, <1>1, <1>2 DEF Work
  <2> QED
    BY <1>2, <1>3, <1>6, <2>1 DEF Work
<1>13. CASE merger.td.kind = "persist"
  <2>1. mergeChan = <<>> /\ checker.pc = "waiting" /\ checker.todo = merger.td
    BY Zenon, <1>1, <1>13 DEF Orders
  <2>2. checker' = Idle /\ checker'.pc = "idle" /\ checker'.todo = NoTodo
    BY Zenon, <1>2, <1>13 DEF Idle
  <2>3. Shapes'
    BY Zenon, <1>1, <1>2, <1>6, <1>8, <2>2 DEF Shapes, Idle
  <2>4. Orders'
    BY SMTT(60), <1>1, <1>2, <1>6, <1>7, <1>13, <2>1, <2>2 DEF Orders
  <2>5. Building'
    BY SMTT(60), <1>1, <1>2, <1>10, <1>11, <2>2 DEF Building
  <2>6. Queue(e)'
    BY SMTT(60), <1>1, <1>2, <1>6, <1>13, <2>1, <2>2 DEF Queue, InHand, ToSend, Calls
  <2> QED
    BY SMTT(60), <1>5, <1>12, <2>3, <2>4, <2>5, <2>6 DEF Held
<1>14. CASE merger.td.kind = "none"
  <2>1. checker' = checker
    BY Zenon, <1>2, <1>14
  <2>2. Shapes'
    BY Zenon, <1>1, <1>2, <1>6, <1>8, <2>1 DEF Shapes
  <2>3. Orders'
    BY <1>1, <1>2, <1>6, <1>14, <2>1 DEF Orders
  <2>4. Building'
    BY Zenon, <1>1, <1>2, <1>10, <1>11, <2>1 DEF Building
  <2>5. Queue(e)'
    BY SMTT(60), <1>1, <1>2, <1>6, <1>14, <2>1 DEF Queue, InHand, ToSend, Calls
  <2> QED
    BY Zenon, <1>5, <1>12, <2>2, <2>3, <2>4, <2>5 DEF Held
<1> QED
    BY Zenon, <1>7, <1>13, <1>14

(* The function of RunExclusive or RunEndExclusive is run by the merger,     *)
(* with nothing to merge: the index is added to the table.                   *)
LEMMA RunKeeps ==
    ASSUME NEW f \in Nat, NEW d \in Nat, NEW e \in Nat, Held(f, d, e), Run
    PROVE  Held(f, d, e)'
<1> DEFINE t0 == admin.table
           new == [info[t0] EXCEPT !.Indexes = Append(@, admin.ov)]
<1>1. Shapes /\ Orders /\ Building /\ Base(f, d) /\ Queue(e) /\ Work(d, e)
    BY Zenon DEF Held
<1>2. /\ merger.pc = "todo" /\ merger.td.kind = "run" /\ changed' = TRUE
      /\ info' = [info EXCEPT ![t0].Indexes = Append(@, admin.ov)]
      /\ merger' = Select /\ checker' = Idle /\ admin' = NoAdmin
      /\ UNCHANGED <<disk, mergeChan, log>>
    BY Zenon DEF Run, UpdateState
<1>3. mergeChan = <<>> /\ checker.pc = "waiting" /\ checker.todo = merger.td
    BY Zenon, <1>1, <1>2 DEF Orders
<1>4. /\ admin.pc = "running" /\ t0 \in Tables /\ admin.ov \in Ovs /\ Alter
      /\ Len(admin.ov.layers) >= Len(info[t0].Deltas) /\ info \in [Tables -> Infos]
    BY Zenon, <1>1, <1>2, <1>3, PipelineAssumption DEF Building, Shapes
<1>5. /\ info' = [t \in Tables |-> info'[t]] /\ info'[t0] = new
      /\ \A t \in Tables \ {t0} : info'[t] = info[t]
    BY Zenon, <1>2, <1>4
<1>6. ASSUME NEW t \in Tables
      PROVE  Layered(info'[t], Writes(log, t, Len(log)), Len(Writes(log, t, d)))
  <2> DEFINE S == Writes(log, t, Len(log))
             p == Len(Writes(log, t, d))
  <2>1. Layered(info[t], S, p) /\ S \in Seq(Nat) /\ p \in Nat
    BY Zenon, <1>1, BaseOf
  <2>2. CASE t = t0
    <3>1. info[t0] = info[t] /\ Layered(info[t0], S, p)
      BY Zenon, <2>1, <2>2
    <3> HIDE DEF S, p, t0
    <3>2. Layered(new, S, p)
      BY <1>4, <2>1, <3>1, InfoAdded, Zenon
    <3> QED
      BY <1>5, <2>2, <3>2, Zenon DEF S, p
  <2>3. CASE t # t0
    BY <1>5, <2>1, <2>3, Zenon
  <2> QED
    BY Zenon, <2>2, <2>3
<1>7. info' \in [Tables -> Infos]
  <2>1. \A t \in Tables : info'[t] \in Infos
    BY <1>6, Zenon DEF Layered
  <2> QED
    BY Zenon, <1>5, <2>1
<1>8. /\ merger'.pc = "select" /\ merger'.td = NoTodo /\ checker'.pc = "idle"
      /\ checker'.todo = NoTodo /\ admin'.pc = "none" /\ NoTodo.kind = "none"
    BY Zenon, <1>2, TodoKinds DEF Select, Idle, NoAdmin
<1>9. Shapes'
    BY SMTT(60), <1>1, <1>2, <1>7, <1>8, NoEntries DEF Shapes, Idle, NoAdmin
<1>10. Orders'
    BY <1>1, <1>2, <1>3, <1>8 DEF Orders
<1>11. Building'
    BY Zenon, <1>4, <1>8 DEF Building
<1>12. Queue(e)'
    BY <1>1, <1>2, <1>3, <1>8 DEF Queue, InHand, ToSend, Calls
<1>13. Work(d, e)'
    BY Zenon, <1>1, <1>2, <1>8 DEF Work
<1>14. Base(f, d)'
  <2>1. log' = log /\ disk' = disk /\ changed'
    BY Zenon, <1>2
  <2> QED
    BY <1>1, <1>6, <2>1, Zenon DEF Base
<1> QED
    BY SMTT(60), <1>9, <1>10, <1>11, <1>12, <1>13, <1>14 DEF Held

(* Merging n layers of table t gives the entries of the transactions after d *)
(* and up to e.                                                              *)
FitsMerge(t, d, e, n) ==
    /\ n \in Nat /\ Len(Writes(log, t, d)) + n = Len(Writes(log, t, e))
    /\ Len(Writes(log, t, e)) <= Len(Writes(log, t, Len(log)))
    /\ CanMerge(info[t], n)
    /\ \A i \in DOMAIN info[t].Indexes : MergeResults(info[t], n)[i] \in Seq(Nat)
    /\ MergeResults(info[t], n)[1] =
         SubSeq(Writes(log, t, e), Len(info[t].Indexes[1].bt) + 1, Len(Writes(log, t, e)))
    /\ SubSeq(Writes(log, t, Len(log)), Len(info[t].Indexes[1].bt) + 1, Len(Writes(log, t, e)))
         = SubSeq(Writes(log, t, e), Len(info[t].Indexes[1].bt) + 1, Len(Writes(log, t, e)))

(* A slice that is within a prefix.                                          *)
LEMMA SlicePrefix ==
    ASSUME NEW S \in Seq(Nat), NEW W \in Seq(Nat), NEW b \in Nat, Len(W) <= Len(S),
           \A x \in 1 .. Len(W) : S[x] = W[x]
    PROVE  SubSeq(S, b + 1, Len(W)) = SubSeq(W, b + 1, Len(W))
    OBVIOUS

(* The number of layers to merge, counted from the messages, is there in     *)
(* every index, and these layers have the entries of the messages.           *)
LEMMA ToMerge ==
    ASSUME NEW f \in Nat, NEW d \in Nat, NEW e \in Nat, Shapes, Base(f, d), d <= e, e <= Len(log),
           NEW t \in Tables
    PROVE  FitsMerge(t, d, e, Len(Writes(log, t, e)) - Len(Writes(log, t, d)))
<1> DEFINE S == Writes(log, t, Len(log))
           V == Writes(log, t, d)
           W == Writes(log, t, e)
           n == Len(W) - Len(V)
           b == Len(info[t].Indexes[1].bt)
<1>1. Layered(info[t], S, Len(V)) /\ S \in Seq(Nat) /\ Len(V) \in Nat /\ Len(log) \in Nat
    BY Zenon, BaseOf
<1>2. W \in Seq(Nat) /\ Len(W) \in Nat
    BY Zenon, WritesSeq
<1>3. Len(V) <= Len(W)
    BY Zenon, WritesGrow
<1>4. Len(W) <= Len(S) /\ \A x \in 1 .. Len(W) : S[x] = W[x]
    BY <1>1, WritesGrow
<1>5. info[t].Indexes[1].bt \in Seq(Nat)
    BY <1>1, HasLayers, Zenon
<1>6. b \in Nat
    BY <1>5, LenNat, Zenon
<1> HIDE DEF S, V, W, b
<1>7. n \in Nat /\ Len(V) + n = Len(W) /\ Len(V) + n <= Len(S)
    BY <1>1, <1>2, <1>3, <1>4
<1>8. SubSeq(S, b + 1, Len(W)) = SubSeq(W, b + 1, Len(W))
    BY <1>1, <1>2, <1>4, <1>6, SlicePrefix
<1> HIDE DEF n
<1>9. /\ CanMerge(info[t], n)
      /\ \A i \in DOMAIN info[t].Indexes : MergeResults(info[t], n)[i] \in Seq(Nat)
      /\ MergeResults(info[t], n)[1] = SubSeq(S, Len(info[t].Indexes[1].bt) + 1, Len(V) + n)
    BY ZenonT(40), <1>1, <1>7, Mergeable
<1>10. MergeResults(info[t], n)[1] = SubSeq(W, b + 1, Len(W))
    BY <1>7, <1>8, <1>9, Zenon DEF b
<1> QED
    BY <1>4, <1>7, <1>8, <1>9, <1>10, Zenon DEF FitsMerge, n, S, V, W, b

(* UpdateState with the results of a merge: the transactions up to e are     *)
(* merged then.                                                              *)
LEMMA MergeKeeps ==
    ASSUME NEW f \in Nat, NEW d \in Nat, NEW e \in Nat, Held(f, d, e), Merge
    PROVE  Held(f, e, e)'
<1> DEFINE tn == merger.merges
           res == merger.results
<1>1. Shapes /\ Orders /\ Building /\ Base(f, d) /\ Queue(e) /\ Work(d, e)
    BY Zenon DEF Held
<1>2. merger.pc = "merge" /\ UNCHANGED <<disk, mergeChan, checker, admin, log>>
    BY Zenon DEF Merge
<1>3. Merging(d, e) /\ d <= e /\ e <= Len(log)
    BY Zenon, <1>1, <1>2 DEF Work
<1>4. ASSUME NEW t \in DOMAIN tn
      PROVE  t \in Tables /\ tn[t] = Len(Writes(log, t, e)) - Len(Writes(log, t, d))
    BY Zenon, <1>3 DEF Merging
<1>5. \A t \in DOMAIN tn : CanMerge(info[t], tn[t])
  <2> TAKE t \in DOMAIN tn
  <2>1. FitsMerge(t, d, e, Len(Writes(log, t, e)) - Len(Writes(log, t, d)))
    BY Zenon, <1>1, <1>3, <1>4, ToMerge
  <2> QED
    BY <1>4, <2>1, Zenon DEF FitsMerge
<1>6. /\ changed' = TRUE
      /\ info' = [t \in Tables |-> IF t \in DOMAIN tn
                                   THEN ApplyMerge(info[t], tn[t], res[t]) ELSE info[t]]
      /\ merger' = IF merger.td = NoTodo THEN Select
                   ELSE [Select EXCEPT !.pc = "todo", !.td = merger.td]
    BY Zenon, <1>5 DEF Merge, UpdateState
<1>7. ASSUME NEW t \in Tables
      PROVE  /\ Layered(info'[t], Writes(log, t, Len(log)), Len(Writes(log, t, e)))
             /\ DOMAIN info'[t].Indexes = DOMAIN info[t].Indexes
             /\ Len(info'[t].Deltas) <= Len(info[t].Deltas)
  <2> DEFINE S == Writes(log, t, Len(log))
             p == Len(Writes(log, t, d))
             m == Len(Writes(log, t, e))
             n == m - p
             r == res[t]
             ti == info[t]
  <2>1. Layered(ti, S, p) /\ S \in Seq(Nat) /\ p \in Nat
    BY Zenon, <1>1, BaseOf
  <2>2. CASE t \in DOMAIN tn
    <3>1. info'[t] = ApplyMerge(ti, n, r)
      BY Zenon, <1>4, <1>6, <2>2
    <3>0. FitsMerge(t, d, e, n)
      BY Zenon, <1>1, <1>3, ToMerge
    <3>2. n \in Nat /\ p + n = m /\ m <= Len(S)
      BY Zenon, <3>0 DEF FitsMerge
    <3>3. SubSeq(S, Len(ti.Indexes[1].bt) + 1, m) =
            SubSeq(Writes(log, t, e), Len(ti.Indexes[1].bt) + 1, m)
      BY Zenon, <3>0 DEF FitsMerge
    <3>4. ForIndexes(ti, r, SubSeq(S, Len(ti.Indexes[1].bt) + 1, m))
      BY <1>3, <2>2, <3>3, Zenon DEF Merging, ForIndexes
    <3> HIDE DEF S, p, m, n, r, ti
    <3>5. /\ p + n <= Len(S)
          /\ ForIndexes(ti, r, SubSeq(S, Len(ti.Indexes[1].bt) + 1, p + n))
      BY <3>2, <3>4, Zenon
    <3>6. /\ Layered(ApplyMerge(ti, n, r), S, p + n)
          /\ DOMAIN ApplyMerge(ti, n, r).Indexes = DOMAIN ti.Indexes
          /\ Len(ApplyMerge(ti, n, r).Deltas) <= Len(ti.Deltas)
      BY <2>1, <3>2, <3>5, InfoMerge, ZenonT(30)
    <3> QED
      BY <3>1, <3>2, <3>6, Zenon DEF S, m, ti
  <2>3. CASE t \notin DOMAIN tn
    <3>1. info'[t] = ti /\ Writes(log, t, d) = Writes(log, t, e)
      BY <1>3, <1>6, <2>3 DEF Merging
    <3>2. Len(ti.Deltas) \in Nat
      <4>1. ti.Deltas \in Seq(Nat)
        BY <2>1, HasLayers, Zenon
      <4> QED
        BY <4>1
    <3>3. Len(ti.Deltas) <= Len(ti.Deltas)
      BY <3>2
    <3> QED
      BY ZenonT(40), <2>1, <3>1, <3>3
  <2> QED
    BY Zenon, <2>2, <2>3
<1>8. info' \in [Tables -> Infos]
  <2>1. \A t \in Tables : info'[t] \in Infos
    BY <1>7, Zenon DEF Layered
  <2>2. info' = [t \in Tables |-> info'[t]]
    BY Zenon, <1>6
  <2> QED
    BY Zenon, <2>1, <2>2
<1>9. merger'.td = merger.td /\ merger'.pc = IF merger.td = NoTodo THEN "select" ELSE "todo"
    BY Zenon, <1>6 DEF Select
<1>10. merger.td \in Todos \cup {NoTodo} /\ (merger.td # NoTodo => merger.td.kind # "none")
    BY Zenon, <1>1, TodoKinds DEF Shapes
<1>11. Shapes'
    BY SMTT(60), <1>1, <1>2, <1>6, <1>8, <1>9 DEF Shapes
<1>12. Orders'
    BY SMTT(60), <1>1, <1>2, <1>9, <1>10 DEF Orders
<1>13. Building'
  <2>1. admin.pc # "none" => admin.table \in Tables
    BY Zenon, <1>1 DEF Building
  <2>2. ASSUME NEW t \in Tables, Len(admin.ov.layers) >= Len(info[t].Deltas)
        PROVE  Len(admin.ov.layers) >= Len(info'[t].Deltas)
    <3>1. info[t] \in Infos /\ info'[t] \in Infos /\ admin.ov \in Ovs
      BY Zenon, <1>1, <1>8 DEF Shapes
    <3>2. Len(info[t].Deltas) \in Nat /\ Len(info'[t].Deltas) \in Nat
      BY SMTT(60), <3>1 DEF Infos
    <3>3. Len(admin.ov.layers) \in Nat
      BY <3>1 DEF Ovs
    <3>4. Len(info'[t].Deltas) <= Len(info[t].Deltas)
      BY <1>7, Zenon
    <3>5. \A a, b, c \in Nat : a >= b /\ c <= b => a >= c
      OBVIOUS
    <3> QED
      BY <2>2, <3>2, <3>3, <3>4, <3>5, Zenon
  <2>3. ~Alter => \A t \in Tables : DOMAIN info'[t].Indexes = {1} /\ DOMAIN disk'[t].Indexes = {1}
    BY <1>1, <1>2, <1>7, Zenon DEF Building
  <2>4. admin' = admin /\ checker' = checker
    BY Zenon, <1>2
  <2> QED
    BY SMTT(60), <1>1, <2>1, <2>2, <2>3, <2>4 DEF Building
<1>14. Queue(e)'
    BY ZenonT(60), <1>1, <1>2, <1>9 DEF Queue, InHand, ToSend, Calls
<1>15. f <= e /\ e <= e /\ e <= Len(log')
    BY <1>1, <1>2, <1>3 DEF Base
<1>16. Work(e, e)'
    BY Zenon, <1>9, <1>15 DEF Work
<1>17. Base(f, e)'
  <2>1. log' = log /\ disk' = disk
    BY Zenon, <1>2
  <2> QED
    BY <1>1, <1>6, <1>7, <1>15, <2>1, Zenon DEF Base
<1> QED
    BY Zenon, <1>11, <1>12, <1>13, <1>14, <1>16, <1>17 DEF Held

(* The messages that are merged together.                                    *)
LEMMA HeadOf ==
    ASSUME NEW X, NEW q \in Seq(X), NEW td \in X, NEW n \in 0 .. Len(q)
    PROVE  /\ <<td>> \o SubSeq(q, 1, n) \in Seq(X)
           /\ DOMAIN (<<td>> \o SubSeq(q, 1, n)) = 1 .. n + 1
           /\ (<<td>> \o SubSeq(q, 1, n))[1] = td
           /\ \A i \in 2 .. n + 1 : /\ (<<td>> \o SubSeq(q, 1, n))[i] = q[i - 1]
                                    /\ i - 1 \in 1 .. n /\ i - 1 \in DOMAIN q
    BY SMTT(60)

(* TableCounts counts for each table the layers that the messages stand for. *)
LEMMA Counts ==
    ASSUME NEW e \in Nat, NEW n \in Nat, NEW tds, DOMAIN tds = 1 .. n + 1,
           \A i \in 1 .. n + 1 : tds[i].tables = log[e + i] /\ tds[i].tables \subseteq Tables
    PROVE  /\ DOMAIN TableCounts(tds) \subseteq Tables
           /\ \A t \in DOMAIN TableCounts(tds) :
                TableCounts(tds)[t] = Len(Writes(log, t, e + n + 1)) - Len(Writes(log, t, e))
           /\ \A t \in Tables \ DOMAIN TableCounts(tds) :
                Writes(log, t, e) = Writes(log, t, e + n + 1)
<1> DEFINE tn == TableCounts(tds)
           ones(t) == [i \in 1 .. n + 1 |-> IF t \in tds[i].tables THEN 1 ELSE 0]
<1>1. /\ DOMAIN tn = UNION {tds[i].tables : i \in 1 .. n + 1}
      /\ \A t \in DOMAIN tn : tn[t] = SumSeq(ones(t))
    BY Zenon DEF TableCounts
<1> HIDE DEF tn
<1>2. DOMAIN tn \subseteq Tables
    BY Zenon, <1>1
<1>3. n + 1 \in Nat /\ e + (n + 1) = e + n + 1
    OBVIOUS
<1>4. ASSUME NEW t \in DOMAIN tn
      PROVE  tn[t] = Len(Writes(log, t, e + n + 1)) - Len(Writes(log, t, e))
  <2>1. ones(t) \in Seq(Nat)
    OBVIOUS
  <2>2. \A i \in 1 .. Len(ones(t)) : ones(t)[i] = IF t \in log[e + i] THEN 1 ELSE 0
    BY <2>1
  <2> HIDE DEF ones
  <2>3. SumSeq(ones(t)) = Len(Writes(log, t, e + Len(ones(t)))) - Len(Writes(log, t, e))
    BY <2>1, <2>2, WritesCounted, Zenon
  <2>4. Len(ones(t)) = n + 1
    BY <1>3 DEF ones
  <2> QED
    BY <1>1, <1>3, <2>3, <2>4, Zenon
<1>5. ASSUME NEW t \in Tables \ DOMAIN tn
      PROVE  Writes(log, t, e) = Writes(log, t, e + n + 1)
  <2>1. \A i \in 1 .. n + 1 : t \notin log[e + i]
    BY Zenon, <1>1
  <2> DEFINE q == n + 1
  <2>2. q \in Nat /\ \A i \in 1 .. q : t \notin log[e + i]
    BY Zenon, <1>3, <2>1
  <2> HIDE DEF q
  <2>3. Writes(log, t, e + q) = Writes(log, t, e)
    BY Zenon, <2>2, WritesUnchanged
  <2> QED
    BY Zenon, <1>3, <2>3 DEF q
<1> QED
    BY Zenon, <1>2, <1>4, <1>5 DEF tn

(* drain: the merger takes the messages that are waiting. It stops at the    *)
(* first call and keeps it for after the merge, so no commit is skipped and  *)
(* the call stays the last.                                                  *)
LEMMA DrainKeeps ==
    ASSUME NEW e \in Nat, Shapes, Orders, Queue(e), merger.pc = "todo", merger.td.kind = "merge",
           NEW n \in 0 .. Len(mergeChan), \A i \in 1 .. n : mergeChan[i].kind = "merge",
           mergeChan' = Rest(mergeChan, n + 1), UNCHANGED <<checker, changed, log>>,
           merger'.pc = "merge",
           merger'.td = IF n < Len(mergeChan) THEN mergeChan[n + 1] ELSE NoTodo
    PROVE  /\ Orders' /\ Queue(e + n + 1)' /\ e + n + 1 <= Len(log)
           /\ mergeChan' \in Seq(Todos) /\ Len(mergeChan') <= Len(mergeChan)
           /\ merger'.td \in Todos \cup {NoTodo}
(* The same, if the message that was taken is a call.                        *)
<1>NoneHeld. ASSUME NEW m \in Nat, NEW s \in Nat, NEW l \in Nat, NEW c \in Nat,
                    e + 1 + m + s = l + c, c = 1, n + 1 = m
             PROVE  (e + n + 1) + 0 + (m - (n + 1)) + s = l + 0
      BY <1>NoneHeld
(* The number of the commits in hand after n + 1 messages were merged and    *)
(* another was taken.                                                        *)
<1>StillHeld. ASSUME NEW m \in Nat, NEW s \in Nat, NEW l \in Nat, NEW c \in Nat,
                     e + 1 + m + s = l + c
              PROVE  (e + n + 1) + 1 + (m - (n + 1)) + s = l + c
      BY <1>StillHeld
(* What is left of the channel after n messages and the one after them.      *)
<1>RestIs. ASSUME NEW X, NEW q \in Seq(X), NEW m \in 0 .. Len(q)
           PROVE  /\ Rest(q, m + 1) \in Seq(X)
                  /\ (m = Len(q) => Rest(q, m + 1) = <<>>)
                  /\ (m < Len(q) => /\ Len(Rest(q, m + 1)) = Len(q) - (m + 1)
                                    /\ \A i \in DOMAIN Rest(q, m + 1) :
                                         /\ i \in Nat /\ i <= Len(q) - (m + 1)
                                         /\ m + 1 + i \in DOMAIN q /\ Rest(q, m + 1)[i] = q[m + 1 + i])
                  /\ Len(Rest(q, m + 1)) <= Len(q)
      BY SMTT(60) DEF Rest
<1> DEFINE q == mergeChan
           m == Len(q)
           L == Len(log)
<1>1. q \in Seq(Todos) /\ m \in Nat /\ L \in Nat /\ ToSend \in {0, 1} /\ n \in Nat /\ n <= m
    BY DEF Shapes, ToSend
<1>2. InHand = 1 /\ e + 1 + m + ToSend = L + Calls /\ Calls \in {0, 1}
    BY Zenon DEF InHand, Queue, Calls
<1>3. \A i \in DOMAIN q : i \in 1 .. m /\ (q[i].kind # "merge" =>
         i = m /\ checker.pc = "waiting" /\ q[i] = checker.todo)
    BY <1>1 DEF Orders
<1>4. ToSend' = ToSend
    BY Zenon DEF ToSend
<1>5. ToSend = 1 => checker.todo.tables = log[L]
    BY Zenon DEF Queue
<1>6. /\ mergeChan' \in Seq(Todos) /\ (n = m => mergeChan' = <<>>)
      /\ (n < m => Len(mergeChan') = m - (n + 1)) /\ Len(mergeChan') <= m
    BY Zenon, <1>1, <1>RestIs
<1>7. ASSUME n < m, NEW i \in DOMAIN mergeChan'
      PROVE  /\ i \in Nat /\ i <= m - (n + 1) /\ n + 1 + i \in DOMAIN q
             /\ mergeChan'[i] = q[n + 1 + i]
    BY ZenonT(60), <1>1, <1>7, <1>RestIs
<1>8. NoTodo.kind = "none"
    BY Zenon, TodoKinds
<1>9. CASE n = m
  <2>1. mergeChan' = <<>> /\ merger'.td = NoTodo
    BY SMTT(60), <1>1, <1>6, <1>9
  <2>2. Orders'
    BY <1>8, <2>1 DEF Orders
  <2>3. Calls = 0
    <3>1. q # <<>> => m \in 1 .. n
      BY <1>1, <1>9
    <3> QED
      BY <3>1, Zenon DEF Calls
  <2>4. Calls' = 0 /\ InHand' = 0 /\ Len(mergeChan') = 0
    BY <1>8, <2>1 DEF Calls, InHand
  <2>5. (e + n + 1) + 0 + 0 + ToSend = L + 0 /\ e + n + 1 <= L
    BY SMTT(60), <1>1, <1>2, <1>9, <2>3
  <2>6. Queue(e + n + 1)'
    <3>1. (e + n + 1) + InHand' + Len(mergeChan') + ToSend' = Len(log') + Calls'
      BY Zenon, <1>4, <2>4, <2>5
    <3> QED
      BY SMTT(60), <1>4, <1>5, <1>8, <2>1, <3>1 DEF Queue
  <2> QED
    BY Zenon, <1>6, <2>1, <2>2, <2>5, <2>6
<1>10. CASE n < m
  <2> DEFINE td == q[n + 1]
  <2>1. n + 1 \in 1 .. m /\ n + 1 \in DOMAIN q
    BY <1>1, <1>10
  <2>2. td \in Todos /\ merger'.td = td
    BY <1>1, <1>10, <2>1
  <2>3. td.kind \in {"merge", "persist", "run"}
    BY Zenon, <2>2, TodoKinds
  <2>4. td.kind # "merge" => n + 1 = m /\ checker.pc = "waiting" /\ td = checker.todo
    BY Zenon, <1>3, <2>1
  <2>5. Len(mergeChan') = m - (n + 1) /\ (n + 1 = m <=> mergeChan' = <<>>)
    BY SMTT(60), <1>1, <1>6, <1>10
  <2>6. \A i \in DOMAIN mergeChan' : mergeChan'[i].kind # "merge" =>
           i = Len(mergeChan') /\ checker.pc = "waiting" /\ mergeChan'[i] = checker.todo
    <3> TAKE i \in DOMAIN mergeChan'
    <3> HAVE mergeChan'[i].kind # "merge"
    <3>1. i \in Nat /\ n + 1 + i \in DOMAIN q /\ mergeChan'[i] = q[n + 1 + i]
      BY Zenon, <1>7, <1>10
    <3>2. n + 1 + i = m /\ checker.pc = "waiting" /\ q[n + 1 + i] = checker.todo
      BY Zenon, <1>3, <3>1
    <3>3. i = Len(mergeChan')
      BY SMTT(60), <1>1, <2>5, <3>1, <3>2
    <3> QED
      BY SMTT(60), <3>1, <3>2, <3>3
  <2>7. Orders'
    BY SMTT(60), <2>2, <2>3, <2>4, <2>5, <2>6 DEF Orders
  <2>8. InHand' = IF td.kind = "merge" THEN 1 ELSE 0
    BY Zenon, <2>2 DEF InHand
  <2>9. Calls' = IF td.kind = "merge" THEN Calls ELSE 0
    <3>1. CASE n + 1 = m
      BY SMTT(60), <1>1, <2>5, <3>1 DEF Calls
    <3>2. CASE n + 1 # m
      <4>1. mergeChan' # <<>> /\ Len(mergeChan') \in DOMAIN mergeChan' /\ Len(mergeChan') \in Nat
        BY SMTT(60), <1>1, <1>6, <1>10, <2>5, <3>2
      <4>2. mergeChan'[Len(mergeChan')] = q[n + 1 + Len(mergeChan')]
        BY <1>7, <1>10, <4>1, Zenon
      <4>3. n + 1 + Len(mergeChan') = m
        BY SMTT(60), <1>1, <2>5, <4>1
      <4>4. mergeChan'[Len(mergeChan')] = q[m] /\ td.kind = "merge" /\ q # <<>>
        BY SMTT(60), <1>10, <2>1, <2>4, <3>2, <4>2, <4>3
      <4> QED
        BY <4>1, <4>4 DEF Calls
    <3> QED
      BY Zenon, <3>1, <3>2
  <2>10. td.kind # "merge" => Calls = 1
    BY <2>1, <2>4 DEF Calls
  <2>11. e + n + 1 <= L
    BY <1>1, <1>2, <1>10
  <2>12. (e + n + 1) + InHand' + Len(mergeChan') + ToSend' = Len(log') + Calls'
    <3>1. e + 1 + m + ToSend = L + Calls /\ m \in Nat /\ L \in Nat /\ n \in Nat
          /\ ToSend \in Nat /\ Calls \in Nat
      BY <1>1, <1>2
    <3>2. CASE td.kind = "merge"
      <4>1. (e + n + 1) + 1 + (m - (n + 1)) + ToSend = L + Calls
        BY <3>1, <1>StillHeld
      <4>2. InHand' = 1 /\ Calls' = Calls /\ ToSend' = ToSend /\ Len(mergeChan') = m - (n + 1)
        BY Zenon, <1>4, <2>5, <2>8, <2>9, <3>2
      <4> QED
        BY <4>1, <4>2, Zenon
    <3>3. CASE td.kind # "merge"
      <4>0. Calls = 1 /\ n + 1 = m
        BY <2>4, <2>10, <3>3, Zenon
      <4>1. (e + n + 1) + 0 + (m - (n + 1)) + ToSend = L + 0
        BY SMTT(60), <3>1, <4>0, <1>NoneHeld
      <4>2. InHand' = 0 /\ Calls' = 0 /\ ToSend' = ToSend /\ Len(mergeChan') = m - (n + 1)
        BY Zenon, <1>4, <2>5, <2>8, <2>9, <3>3
      <4> QED
        BY <4>1, <4>2, Zenon
    <3> QED
      BY Zenon, <3>2, <3>3
  <2>13. ASSUME NEW i \in DOMAIN q, q[i].kind = "merge"
         PROVE  q[i].tables = log[e + 1 + i]
    BY Zenon, <1>2, <2>13 DEF Queue
  <2>14. td.kind = "merge" => td.tables = log[(e + n + 1) + 1]
    <3>1. e + 1 + (n + 1) = (e + n + 1) + 1
      BY SMTT(60), <1>1
    <3> QED
      BY ZenonT(60), <2>1, <2>13, <3>1
  <2>15. ASSUME NEW i \in DOMAIN mergeChan', mergeChan'[i].kind = "merge"
         PROVE  mergeChan'[i].tables = log[(e + n + 1) + InHand' + i]
    <3>1. i \in Nat /\ n + 1 + i \in DOMAIN q /\ mergeChan'[i] = q[n + 1 + i] /\ mergeChan' # <<>>
      BY <1>7, <1>10
    <3>2. InHand' = 1
      BY Zenon, <2>4, <2>5, <2>8, <3>1
    <3>3. e + 1 + (n + 1 + i) = (e + n + 1) + InHand' + i
      BY SMTT(60), <1>1, <3>1, <3>2
    <3> QED
      BY SMTT(60), <2>13, <2>15, <3>1, <3>3
  <2>16. Queue(e + n + 1)'
    BY SMTT(60), <1>4, <1>5, <2>2, <2>12, <2>14, <2>15 DEF Queue
  <2> QED
    BY SMTT(60), <1>6, <2>2, <2>7, <2>11, <2>16
<1> QED
    BY SMTT(60), <1>1, <1>9, <1>10

(* The merger starts a merge with its message and all that drain takes.      *)
LEMMA StartMergeKeeps ==
    ASSUME NEW f \in Nat, NEW d \in Nat, NEW e \in Nat, Held(f, d, e), StartMerge
    PROVE  \E k \in Nat : Held(f, d, k)'
<1> DEFINE q == mergeChan
<1>1. Shapes /\ Orders /\ Building /\ Base(f, d) /\ Queue(e) /\ Work(d, e)
    BY Zenon DEF Held
<1>2. /\ merger.pc = "todo" /\ merger.td.kind = "merge"
      /\ UNCHANGED <<info, disk, checker, changed, admin, log>>
    BY Zenon DEF StartMerge
<1>3. PICK n \in 0 .. Len(q) :
         /\ \A i \in 1 .. n : q[i].kind = "merge"
         /\ mergeChan' = Rest(q, n + 1)
         /\ LET tn == TableCounts(<<merger.td>> \o SubSeq(q, 1, n))
            IN  merger' =
                  IF \A t \in DOMAIN tn : CanMerge(info[t], tn[t])
                  THEN [pc |-> "merge", merges |-> tn,
                        td |-> IF n < Len(q) THEN q[n + 1] ELSE NoTodo,
                        results |-> [t \in DOMAIN tn |-> MergeResults(info[t], tn[t])]]
                  ELSE Fatal
    BY Zenon DEF StartMerge
<1> DEFINE tds == <<merger.td>> \o SubSeq(q, 1, n)
           tn == TableCounts(tds)
           td == IF n < Len(q) THEN q[n + 1] ELSE NoTodo
           k == e + n + 1
           N(t) == Len(Writes(log, t, k)) - Len(Writes(log, t, d))
           res == [t \in DOMAIN tn |-> MergeResults(info[t], tn[t])]
<1>4. d = e /\ q \in Seq(Todos) /\ Len(q) \in Nat /\ n \in Nat /\ k \in Nat /\ d <= k
    BY <1>1, <1>2 DEF Work, Shapes
<1>5. merger.td \in Todos
    BY Zenon, <1>1, <1>2, TodoKinds DEF Shapes
<1>6. /\ tds \in Seq(Todos) /\ DOMAIN tds = 1 .. n + 1 /\ tds[1] = merger.td
      /\ \A i \in 2 .. n + 1 : tds[i] = q[i - 1] /\ i - 1 \in 1 .. n /\ i - 1 \in DOMAIN q
    BY SMTT(60), <1>4, <1>5, HeadOf
<1> HIDE DEF tds
<1>7. ASSUME NEW i \in 1 .. n + 1
      PROVE  tds[i].tables = log[e + i] /\ tds[i].tables \subseteq Tables
  <2>1. \A x \in Todos : x.kind = "merge" => x.tables \subseteq Tables
    BY DEF Todos
  <2>2. CASE i = 1
    <3>1. merger.td.tables = log[e + 1]
      BY Zenon, <1>1, <1>2 DEF Queue
    <3> QED
      BY SMTT(60), <1>2, <1>5, <1>6, <2>1, <2>2, <3>1
  <2>3. CASE i # 1
    <3>1. i \in 2 .. n + 1
      BY SMTT(60), <1>4, <2>3
    <3>2. tds[i] = q[i - 1] /\ i - 1 \in DOMAIN q /\ q[i - 1].kind = "merge" /\ q[i - 1] \in Todos
      BY SMTT(60), <1>3, <1>4, <1>6, <3>1
    <3>3. InHand = 1
      BY Zenon, <1>2 DEF InHand
    <3>4. q[i - 1].tables = log[e + 1 + (i - 1)]
      BY SMTT(60), <1>1, <3>2, <3>3 DEF Queue
    <3>5. e + 1 + (i - 1) = e + i
      BY SMTT(60), <3>1
    <3> QED
      BY SMTT(60), <2>1, <3>2, <3>4, <3>5
  <2> QED
    BY Zenon, <2>2, <2>3
<1>8. /\ DOMAIN tn \subseteq Tables
      /\ \A t \in DOMAIN tn : tn[t] = Len(Writes(log, t, k)) - Len(Writes(log, t, e))
      /\ \A t \in Tables \ DOMAIN tn : Writes(log, t, e) = Writes(log, t, k)
    BY ZenonT(60), <1>4, <1>6, <1>7, Counts
<1> HIDE DEF tn
<1>9. k <= Len(log)
  <2>1. InHand = 1 /\ ToSend \in {0, 1} /\ Calls \in {0, 1} /\ Len(log) \in Nat
    BY <1>1, <1>2 DEF InHand, ToSend, Calls, Shapes
  <2>2. e + 1 + Len(q) + ToSend = Len(log) + Calls
    BY Zenon, <1>1, <2>1 DEF Queue
  <2>3. n < Len(q) \/ Calls = 0
    <3>1. n = Len(q) /\ q # <<>> => Len(q) \in 1 .. n
      BY <1>4
    <3>2. n = Len(q) => Calls = 0
      BY <1>3, <3>1, Zenon DEF Calls
    <3> QED
      BY <1>4, <3>2
  <2> QED
    BY SMTT(60), <1>4, <2>1, <2>2, <2>3
<1>10. ASSUME NEW t \in DOMAIN tn
       PROVE  /\ t \in Tables /\ tn[t] = N(t) /\ CanMerge(info[t], tn[t])
              /\ \A i \in DOMAIN info[t].Indexes : MergeResults(info[t], tn[t])[i] \in Seq(Nat)
              /\ MergeResults(info[t], tn[t])[1] =
                   SubSeq(Writes(log, t, k), Len(info[t].Indexes[1].bt) + 1, Len(Writes(log, t, k)))
  <2>1. t \in Tables /\ tn[t] = N(t)
    BY <1>4, <1>8
  <2> HIDE DEF k
  <2>2. k \in Nat /\ d <= k /\ k <= Len(log)
    BY <1>4, <1>9, Zenon
  <2>3. FitsMerge(t, d, k, N(t))
    BY Zenon, <1>1, <2>1, <2>2, ToMerge
  <2> QED
    BY <2>1, <2>3, Zenon DEF FitsMerge
<1>11. merger' = [pc |-> "merge", merges |-> tn, td |-> td, results |-> res]
    BY <1>3, <1>10, Zenon DEF tn, tds
<1>12. merger'.pc = "merge" /\ merger'.merges = tn /\ merger'.td = td /\ merger'.results = res
    BY Zenon, <1>11
<1>13. DOMAIN res = DOMAIN tn /\ \A t \in DOMAIN tn : res[t] = MergeResults(info[t], tn[t])
    BY Zenon
<1> HIDE DEF res
<1>14. /\ Orders' /\ Queue(k)' /\ mergeChan' \in Seq(Todos) /\ Len(mergeChan') <= Len(q)
       /\ merger'.td \in Todos \cup {NoTodo}
    BY SMTT(60), <1>1, <1>2, <1>3, <1>12, DrainKeeps
<1>15. Shapes'
  <2>1. Len(mergeChan') <= chanBuffers
    BY SMTT(60), <1>1, <1>4, <1>14, PipelineAssumption DEF Shapes
  <2> QED
    BY SMTT(60), <1>1, <1>2, <1>12, <1>14, <2>1 DEF Shapes
<1>16. Building'
    BY Zenon, <1>1, <1>2 DEF Building
<1>17. Merging(d, k)'
  <2> HIDE DEF k
  <2>1. \A t \in Tables \ DOMAIN tn : Writes(log, t, d) = Writes(log, t, k)
    BY <1>4, <1>8, Zenon
  <2>2. \A t \in DOMAIN tn :
         /\ tn[t] = Len(Writes(log, t, k)) - Len(Writes(log, t, d))
         /\ \A i \in DOMAIN info[t].Indexes : res[t][i] \in Seq(Nat)
         /\ res[t][1] =
              SubSeq(Writes(log, t, k), Len(info[t].Indexes[1].bt) + 1, Len(Writes(log, t, k)))
    BY <1>10, <1>13, Zenon
  <2>3. info' = info /\ log' = log
    BY Zenon, <1>2
  <2> QED
    BY <1>8, <1>12, <2>1, <2>2, <2>3, Zenon DEF Merging
<1>18. Work(d, k)'
    BY SMTT(60), <1>2, <1>4, <1>9, <1>12, <1>17 DEF Work
<1>19. Held(f, d, k)'
    BY SMTT(60), <1>1, <1>2, <1>14, <1>15, <1>16, <1>18, SameBase DEF Held
<1> QED
    BY <1>4, <1>19

(* A new database.                                                           *)
LEMMA InitHolds == Init => Held(0, 0, 0)
<1> SUFFICES ASSUME Init PROVE Held(0, 0, 0)
    BY Zenon
<1> DEFINE ov == Overlay(<<>>, 1)
           ti == NewInfo(<<ov>>)
<1>1. /\ disk = [t \in Tables |-> ti] /\ info = disk
      /\ mergeChan = <<>> /\ checker = Idle /\ merger = Select
      /\ changed = FALSE /\ admin = NoAdmin /\ log = <<>>
    BY Zenon DEF Init
<1>2. <<>> \in Seq(Nat) /\ Len(<<>>) = 0 /\ 0 \in Nat /\ 1 \in Nat
    OBVIOUS
<1>3. /\ ov \in Ovs /\ ov.bt = <<>> /\ Stack(<<>>, ov.layers, <<>>, Len(<<>>))
      /\ ov.layers = <<(<<>>)>> /\ Len(ov.layers) = 1
    BY Zenon, <1>2, OverlayIs
<1> HIDE DEF ov
<1>4. /\ <<ov>> \in Seq(Ovs) /\ <<ov>> # <<>> /\ <<ov>>[1] = ov /\ DOMAIN <<ov>> = {1}
      /\ <<0>> \in Seq(Nat) /\ Len(<<0>>) = 1
    BY <1>3
<1>5. ti = [Indexes |-> <<ov>>, Deltas |-> <<0>>, Nrows |-> 0, BtreeNrows |-> 0]
    BY <1>2, <1>3, <1>4 DEF NewInfo
<1>6. Tally(0, <<0>>, 0, 0, 0, 0)
    BY DEF Tally
<1>7. Deep(<<ov>>, 1)
    BY <1>3, <1>4 DEF Deep
<1>8. Layered(ti, <<>>, 0)
  <2> HIDE DEF ti
  <2>1. Stack(<<ov>>[1].bt, <<ov>>[1].layers, <<>>, 0)
    BY <1>2, <1>3, <1>4, Zenon
  <2>2. Tally(Len(<<ov>>[1].bt), <<0>>, 0, 0, Len(<<>>), 0)
    BY <1>2, <1>3, <1>4, <1>6, Zenon
  <2>3. Deep(<<ov>>, Len(<<0>>))
    BY <1>4, <1>7, Zenon
  <2> QED
    BY <1>2, <1>4, <1>5, <2>1, <2>2, <2>3, IsLayered, Zenon
<1>9. ti.Indexes = <<ov>> /\ ~Modified(ti)
    BY <1>3, <1>4, <1>5 DEF Modified
<1>10. ti \in Infos
    BY Zenon, <1>8 DEF Layered
<1> HIDE DEF ti
<1>11. \A t \in Tables : info[t] = ti /\ disk[t] = ti
    BY Zenon, <1>1
<1>12. \A t : Writes(log, t, 0) = <<>>
    BY Zenon, <1>2, WritesStep
<1>13. Len(log) = 0
    BY Zenon, <1>1
<1>14. Base(0, 0)
  <2>1. 0 <= 0
    OBVIOUS
  <2> QED
    BY <1>2, <1>8, <1>9, <1>11, <1>12, <1>13, <2>1, Zenon DEF Base
<1>15. /\ merger.pc = "select" /\ merger.td = NoTodo /\ checker.pc = "idle"
       /\ checker.todo = NoTodo /\ admin.pc = "none" /\ NoTodo.kind = "none"
    BY Zenon, <1>1, TodoKinds DEF Select, Idle, NoAdmin
<1>16. Shapes
  <2>1. checker \in [pc : {"idle", "sending", "waiting", "stopped"}, todo : Todos \cup {NoTodo}]
    BY Zenon, <1>1 DEF Idle
  <2>2. admin \in [pc : {"none", "building", "built", "running"},
                  table : Tables \cup {"none"}, ov : Ovs]
    BY Zenon, <1>1, NoEntries DEF NoAdmin
  <2>3. log \in Seq((SUBSET Tables) \ {{}}) /\ mergeChan \in Seq(Todos) /\ Len(mergeChan) = 0
    BY <1>1
  <2>4. info \in [Tables -> Infos] /\ disk \in [Tables -> Infos]
    BY Zenon, <1>1, <1>10
  <2>5. Len(log) <= MaxCommits /\ Len(mergeChan) <= chanBuffers
    BY SMTT(60), <1>13, <2>3, PipelineAssumption
  <2> QED
    BY Zenon, <1>1, <1>15, <2>1, <2>2, <2>3, <2>4, <2>5 DEF Shapes
<1>17. Orders
    BY <1>1, <1>15 DEF Orders
<1>18. Building
    BY SMTT(60), <1>4, <1>9, <1>11, <1>15 DEF Building
<1>19. Queue(0)
    BY SMTT(60), <1>1, <1>13, <1>15 DEF Queue, InHand, ToSend, Calls
<1>20. Work(0, 0)
    BY <1>13, <1>15 DEF Work
<1> QED
    BY SMTT(60), <1>14, <1>16, <1>17, <1>18, <1>19, <1>20 DEF Held

(* A step that changes nothing.                                              *)
LEMMA StutterKeeps ==
    ASSUME NEW f, NEW d, NEW e, Held(f, d, e), UNCHANGED vars
    PROVE  Held(f, d, e)'
<1>1. UNCHANGED <<info, disk, mergeChan, checker, merger, changed, admin, log>>
    BY Zenon DEF vars
<1>2. Shapes /\ Orders /\ Building /\ Base(f, d) /\ Queue(e) /\ Work(d, e)
    BY Zenon DEF Held
<1>3. Shapes' /\ Orders' /\ Building'
    BY <1>1, <1>2 DEF Shapes, Orders, Building
<1>4. Queue(e)'
    BY Zenon, <1>1, <1>2 DEF Queue, InHand, ToSend, Calls
<1> QED
    BY SMTT(60), <1>1, <1>2, <1>3, <1>4, SameBase, SameWork DEF Held

(* Every step keeps the invariant: each moves the points as its lemma says.  *)
LEMMA Inductive == IInv /\ [Next]_vars => IInv'
<1> SUFFICES ASSUME IInv, [Next]_vars PROVE IInv'
    BY Zenon
<1>1. PICK f \in Nat, d \in Nat, e \in Nat : Held(f, d, e)
    BY Zenon DEF IInv
<1>2. ASSUME NEW ts \in (SUBSET Tables) \ {{}}, Commit(ts) PROVE IInv'
    BY Zenon, <1>1, <1>2, CommitKeeps DEF IInv
<1>3. ASSUME NEW t \in Tables, AddExclusive(t) PROVE IInv'
    BY <1>1, <1>3, AddExclusiveKeeps DEF IInv
<1>4. CASE CallPersist
    BY Zenon, <1>1, <1>4, CallPersistKeeps DEF IInv
<1>5. CASE RunEndExclusive
    BY Zenon, <1>1, <1>5, RunEndExclusiveKeeps DEF IInv
<1>6. CASE Send
    BY SMTT(60), <1>1, <1>6, SendKeeps DEF IInv
<1>7. CASE Stop
    BY Zenon, <1>1, <1>7, StopKeeps DEF IInv
<1>8. CASE buildIndexes
    BY <1>1, <1>8, buildIndexesKeeps DEF IInv
<1>9. CASE Receive
    BY Zenon, <1>1, <1>9, ReceiveKeeps DEF IInv
<1>10. CASE StartMerge
    BY SMTT(60), <1>1, <1>10, StartMergeKeeps DEF IInv
<1>11. CASE Merge
    BY <1>1, <1>11, MergeKeeps DEF IInv
<1>12. CASE Run
    BY Zenon, <1>1, <1>12, RunKeeps DEF IInv
<1>13. CASE Tick
    BY Zenon, <1>1, <1>13, TickKeeps DEF IInv
<1>14. CASE StartPersist
    BY Zenon, <1>1, <1>14, StartPersistKeeps DEF IInv
<1>15. CASE Persist
    BY SMTT(60), <1>1, <1>15, PersistKeeps DEF IInv
<1>16. CASE Finish
    BY Zenon, <1>1, <1>16, FinishKeeps DEF IInv
<1>17. CASE OpenDatabase
    BY SMTT(60), <1>1, <1>17, OpenDatabaseKeeps DEF IInv
<1>18. CASE UNCHANGED vars
    BY <1>1, <1>18, StutterKeeps DEF IInv
<1>19. Reopen \/ Crash => OpenDatabase
    BY Zenon DEF Reopen, Crash
<1> QED
    BY Zenon, <1>2, <1>3, <1>4, <1>5, <1>6, <1>7, <1>8, <1>9, <1>10, <1>11, <1>12, <1>13,
       <1>14, <1>15, <1>16, <1>17, <1>18, <1>19 DEF Next

(* The invariant always holds.                                               *)
THEOREM Invariance == Spec => []IInv
<1>1. Init => IInv
    BY Zenon, InitHolds DEF IInv
<1> QED
    BY <1>1, Inductive, PTL DEF Spec

(* The merger never fails (concur.go merger, MergeUpdate.Apply1 and Apply2): *)
(* the layers and Deltas that it slices are always there, whatever was       *)
(* committed, added or reopened while it computed.                           *)
THEOREM MergerIsSafe == Spec => []MergerNeverFails
<1>1. IInv => MergerNeverFails
    BY Zenon DEF IInv, Held, Shapes, MergerNeverFails
<1> QED
    BY <1>1, Invariance, PTL

(* After an orderly shutdown, when the merger has ended, the file has every  *)
(* transaction (concur.go, the last persist).                                *)
THEOREM ShutdownIsComplete == Spec => []ShutdownSavesAll
<1>1. IInv => ShutdownSavesAll
  <2> SUFFICES ASSUME IInv, merger.pc = "done" PROVE Durable = Len(log)
    BY Zenon DEF ShutdownSavesAll
  <2>1. PICK f \in Nat, d \in Nat, e \in Nat : Held(f, d, e)
    BY Zenon DEF IInv
  <2>2. Shapes /\ Orders /\ Base(f, d) /\ Queue(e) /\ Work(d, e)
    BY Zenon, <2>1 DEF Held
  <2>3. mergeChan = <<>> /\ checker.pc = "stopped" /\ ~changed /\ merger.td.kind = "none"
    BY Zenon, <2>2, TodoKinds DEF Orders
  <2>4. InHand = 0 /\ ToSend = 0 /\ Calls = 0 /\ Len(mergeChan) = 0
    BY Zenon, <2>3 DEF InHand, ToSend, Calls
  <2>5. e + 0 + 0 + 0 = Len(log) + 0
    BY Zenon, <2>2, <2>4 DEF Queue
  <2>6. f = d /\ d = e /\ Len(log) \in Nat
    BY <2>2, <2>3 DEF Base, Work, Shapes
  <2>7. Durable = f
    BY Zenon, <2>2, DurableIs
  <2> QED
    BY <2>5, <2>6, <2>7
<1> QED
    BY <1>1, Invariance, PTL

(* Type correctness.                                                         *)
THEOREM TypeCorrect == Spec => []TypeOK
<1>1. IInv => TypeOK
  <2> SUFFICES ASSUME IInv PROVE TypeOK
    BY Zenon
  <2>1. PICK f \in Nat, d \in Nat, e \in Nat : Held(f, d, e)
    BY Zenon DEF IInv
  <2>2. Shapes /\ Base(f, d)
    BY Zenon, <2>1 DEF Held
  <2>3. ASSUME NEW ti, NEW S \in Seq(Nat), NEW p \in Nat, Layered(ti, S, p) PROVE IsInfo(ti)
    <3>1. /\ ti.Deltas \in Seq(Nat) /\ ti.Nrows \in Nat /\ ti.BtreeNrows \in Nat
          /\ ti.Indexes \in Seq(Ovs) /\ 1 \in DOMAIN ti.Indexes
          /\ \A i \in DOMAIN ti.Indexes :
                 ti.Indexes[i].bt \in Seq(Nat) /\ ti.Indexes[i].layers \in Seq(Seq(Nat))
          /\ Tally(Len(ti.Indexes[1].bt), ti.Deltas, ti.Nrows, ti.BtreeNrows, Len(S), p)
          /\ Deep(ti.Indexes, Len(ti.Deltas))
      BY <2>3, HasLayers, Zenon
    <3>2. Len(ti.Deltas) = 1 + Len(S) - p /\ p <= Len(S)
      BY <3>1, Zenon DEF Tally
    <3>3. Len(ti.Deltas) \in Nat /\ Len(S) \in Nat
      BY <3>1
    <3>4. Len(ti.Deltas) >= 1
      BY SMTT(60), <3>2, <3>3
    <3>5. ti.Deltas # <<>> /\ ti.Indexes # <<>>
      BY <3>1, <3>4
    <3>6. ASSUME NEW i \in DOMAIN ti.Indexes PROVE ti.Indexes[i].layers # <<>>
      <4>1. Len(ti.Indexes[i].layers) >= Len(ti.Deltas) /\ Len(ti.Indexes[i].layers) \in Nat
        BY SMTT(60), <3>1 DEF Deep
      <4> QED
        BY SMTT(60), <3>3, <3>4, <4>1
    <3> QED
      BY <3>1, <3>5, <3>6 DEF IsInfo
  <2>4. \A t \in Tables : IsInfo(info[t]) /\ IsInfo(disk[t])
    <3> TAKE t \in Tables
    <3>1. /\ Layered(info[t], Writes(log, t, Len(log)), Len(Writes(log, t, d)))
          /\ Layered(disk[t], Writes(log, t, f), Len(Writes(log, t, f)))
          /\ Writes(log, t, Len(log)) \in Seq(Nat) /\ Len(Writes(log, t, d)) \in Nat
          /\ Writes(log, t, f) \in Seq(Nat) /\ Len(Writes(log, t, f)) \in Nat
      BY Zenon, <2>2, BaseOf
    <3> QED
      BY <2>3, <3>1, Zenon
  <2>5. DOMAIN info = Tables /\ DOMAIN disk = Tables /\ log \in Seq(SUBSET Tables)
    BY <2>2 DEF Shapes
  <2> QED
    BY <2>2, <2>4, <2>5 DEF Shapes, TypeOK
<1> QED
    BY <1>1, Invariance, PTL

(* The row counts of every Info add up and agree with the entries (the check *)
(* of state.go on every new state), when no index is added.                  *)
THEOREM CountsAddUp == ASSUME ~Alter PROVE Spec => []InfoCheck
<1>1. IInv => InfoCheck
  <2> SUFFICES ASSUME IInv, NEW t \in Tables
               PROVE  /\ \A i \in DOMAIN info[t].Indexes :
                           Len(info[t].Indexes[i].layers) = Len(info[t].Deltas)
                      /\ info[t].BtreeNrows + SumSeq(info[t].Deltas) = info[t].Nrows
    BY Zenon DEF InfoCheck
  <2>1. PICK f \in Nat, d \in Nat, e \in Nat : Held(f, d, e)
    BY Zenon DEF IInv
  <2>2. Shapes /\ Base(f, d) /\ Building
    BY Zenon, <2>1 DEF Held
  <2>3. DOMAIN info[t].Indexes = {1}
    BY Zenon, <2>2 DEF Building
  <2>4. /\ info[t].BtreeNrows + SumSeq(info[t].Deltas) = info[t].Nrows
        /\ Len(info[t].Indexes[1].layers) = Len(info[t].Deltas)
    <3>1. /\ Layered(info[t], Writes(log, t, Len(log)), Len(Writes(log, t, d)))
          /\ Writes(log, t, Len(log)) \in Seq(Nat) /\ Len(Writes(log, t, d)) \in Nat
      BY SMTT(60), <2>2, BaseOf
    <3> QED
      BY <3>1, InfoReads, Zenon
  <2> QED
    BY Zenon, <2>3, <2>4
<1> QED
    BY <1>1, Invariance, PTL

(* An Info with all of its transactions in the btree is Merged.              *)
LEMMA MergedIs ==
    ASSUME NEW ti, NEW S \in Seq(Nat), Layered(ti, S, Len(S)), ~Modified(ti),
           DOMAIN ti.Indexes = {1}
    PROVE  Merged(ti)
<1> DEFINE ls == ti.Indexes[1].layers
<1>1. Len(S) \in Nat
    OBVIOUS
<1>2. /\ ti.Nrows = Len(S) /\ Len(ls) = Len(ti.Deltas) /\ Len(ti.Deltas) = 1 + Len(S) - Len(S)
      /\ ti.Indexes[1].bt = SubSeq(S, 1, Len(S))
    BY <1>1, InfoReads, Zenon
<1>3. ls \in Seq(Seq(Nat)) /\ 1 \in DOMAIN ti.Indexes
    BY HasLayers, Zenon
<1>4. ls[1] = <<>>
    BY Zenon DEF Modified
<1> HIDE DEF ls
<1>5. Len(ls) = 1
    BY <1>1, <1>2
<1>6. ls = <<(<<>>)>>
    BY SMTT(60), <1>3, <1>4, <1>5
<1>7. Len(ti.Indexes[1].bt) = ti.Nrows
    BY <1>1, <1>2
<1> QED
    BY <1>6, <1>7 DEF Merged, ls

(* If everything is merged and in the file, the tables are Merged.           *)
LEMMA ReturnsMerged ==
    ASSUME ~Alter, NEW f \in Nat, NEW d \in Nat, NEW e \in Nat,
           Shapes', Building', Base(f, d)', d = Len(log'), ~changed'
    PROVE  \A t \in Tables : Merged(info'[t])
<1> TAKE t \in Tables
<1> DEFINE S == Writes(log', t, Len(log'))
<1>1. Len(log') \in Nat
    BY Zenon DEF Shapes
<1>2. S \in Seq(Nat)
    BY <1>1, WritesSeq
<1>3. Layered(info'[t], S, Len(S)) /\ ~Modified(info'[t])
    BY Zenon DEF Base
<1>4. DOMAIN info'[t].Indexes = {1}
    BY Zenon DEF Building
<1> HIDE DEF S
<1> QED
    BY <1>2, <1>3, <1>4, MergedIs, Zenon

(* When the merger has a call to Persist and is not merging, all             *)
(* transactions are merged.                                                  *)
LEMMA NothingWaits ==
    ASSUME NEW f \in Nat, NEW d \in Nat, NEW e \in Nat, Held(f, d, e), merger.pc # "merge",
           merger.td.kind = "persist"
    PROVE  d = Len(log)
<1>1. Shapes /\ Orders /\ Queue(e) /\ Work(d, e)
    BY Zenon DEF Held
<1>2. mergeChan = <<>> /\ checker.pc = "waiting" /\ d = e /\ Len(log) \in Nat
    BY <1>1 DEF Orders, Work, Shapes
<1>3. InHand = 0 /\ ToSend = 0 /\ Calls = 0 /\ Len(mergeChan) = 0
    BY Zenon, <1>2 DEF InHand, ToSend, Calls
<1>4. e + 0 + 0 + 0 = Len(log) + 0
    BY Zenon, <1>1, <1>3 DEF Queue
<1> QED
    BY <1>2, <1>4

(* When the checker gets its answer to Persist, all transactions are merged  *)
(* and saved (state.go Persist), when no index is added.                     *)
THEOREM PersistIsComplete == ASSUME ~Alter PROVE Spec => PersistReturnsMerged
<1> DEFINE A == checker.pc = "waiting" /\ checker.todo.kind = "persist" /\ checker' # checker
                => \A t \in Tables : Merged(info'[t])
<1>1. ASSUME IInv, [Next]_vars PROVE A
  <2> SUFFICES ASSUME checker.pc = "waiting", checker.todo.kind = "persist", checker' # checker
               PROVE  \A t \in Tables : Merged(info'[t])
    BY Zenon
  <2>1. PICK f \in Nat, d \in Nat, e \in Nat : Held(f, d, e)
    BY Zenon, <1>1 DEF IInv
  <2>2. Orders /\ Base(f, d)
    BY Zenon, <2>1 DEF Held
  <2>3. CASE StartPersist
    <3>1. /\ ~changed /\ merger.pc = "todo" /\ merger.td.kind = "persist"
          /\ UNCHANGED <<changed, log>>
      BY Zenon, <2>3 DEF StartPersist
    <3>2. d = Len(log')
      BY <2>1, <3>1, NothingWaits
    <3>3. Shapes' /\ Building' /\ Base(f, d)'
      BY <2>1, <2>3, StartPersistKeeps DEF Held
    <3> QED
      BY <2>1, <3>1, <3>2, <3>3, ReturnsMerged
  <2>4. CASE Persist
    <3>1. /\ merger.pc \in {"persist", "last"} /\ merger.td.kind = "persist"
          /\ ~changed' /\ UNCHANGED log
      BY Zenon, <2>4 DEF Persist
    <3>2. d = Len(log')
      BY <2>1, <3>1, NothingWaits
    <3>3. Shapes' /\ Building' /\ Base(d, d)'
      BY <2>1, <2>4, PersistKeeps DEF Held
    <3> QED
      BY SMTT(60), <2>1, <3>1, <3>2, <3>3, ReturnsMerged
  <2>5. CASE OpenDatabase
    <3>1. Shapes' /\ Building' /\ Base(f, f)' /\ Queue(f)'
      BY <2>1, <2>5, OpenDatabaseKeeps DEF Held
    <3>2. mergeChan' = <<>> /\ checker' = Idle /\ merger' = Select /\ ~changed'
      BY Zenon, <2>5 DEF OpenDatabase
    <3>3. InHand' = 0 /\ ToSend' = 0 /\ Calls' = 0 /\ Len(mergeChan') = 0
      BY Zenon, <3>2 DEF InHand, ToSend, Calls, Idle, Select, NoTodo
    <3>4. f + 0 + 0 + 0 = Len(log') + 0 /\ Len(log') \in Nat
      BY <3>1, <3>3 DEF Queue, Shapes
    <3>5. f = Len(log')
      BY <3>4
    <3> QED
      BY SMTT(60), <2>1, <3>1, <3>2, <3>5, ReturnsMerged
  <2>6. CASE Run
    <3>1. merger.td.kind = "run" /\ checker.todo = merger.td
      BY SMTT(60), <2>2, <2>6 DEF Run, Orders
    <3> QED
      BY Zenon, <3>1
  <2>7. \/ StartPersist \/ Persist \/ OpenDatabase \/ Run \/ checker' = checker
        \/ checker.pc \in {"idle", "sending"}
    BY <1>1 DEF Next, vars, Commit, AddExclusive, CallPersist, RunEndExclusive, Send, Stop,
       buildIndexes, Receive, StartMerge, Merge, Tick, Finish, Reopen, Crash
  <2> QED
    BY SMTT(60), <2>3, <2>4, <2>5, <2>6, <2>7
<1>2. IInv /\ [Next]_vars => [A]_vars
    BY Zenon, <1>1
<1> QED
    BY <1>2, Invariance, PTL DEF Spec, PersistReturnsMerged

-----------------------------------------------------------------------------

(* What the refinement shows of a state: readers find all transactions, and  *)
(* the file has the first Durable of them.                                   *)
Shown ==
    /\ Durable \in 0 .. Len(log)
    /\ [t \in Tables |-> Entries(info[t].Indexes[1])] = Abstract!Content(log)
    /\ [t \in Tables |-> disk[t].Indexes[1].bt] = Abstract!Content(SubSeq(log, 1, Durable))

(* The invariant gives what the refinement shows.                            *)
LEMMA IsShown == IInv => Shown
<1> SUFFICES ASSUME IInv PROVE Shown
    OBVIOUS
<1>1. PICK f \in Nat, d \in Nat, e \in Nat : Held(f, d, e)
    BY Zenon DEF IInv
<1>2. Shapes /\ Base(f, d)
    BY Zenon, <1>1 DEF Held
<1>3. Durable = f
    BY <1>2, DurableIs
<1>4. /\ log \in Seq((SUBSET Tables) \ {{}}) /\ Len(log) \in Nat /\ f <= Len(log)
    BY SMTT(60), <1>2 DEF Shapes, Base
<1>5. \A t \in Tables : Entries(info[t].Indexes[1]) = Writes(log, t, Len(log))
  <2> TAKE t \in Tables
  <2>1. /\ Layered(info[t], Writes(log, t, Len(log)), Len(Writes(log, t, d)))
        /\ Writes(log, t, Len(log)) \in Seq(Nat) /\ Len(Writes(log, t, d)) \in Nat
    BY <1>2, BaseOf
  <2> QED
    BY <2>1, InfoReads, Zenon
<1>6. Len(SubSeq(log, 1, f)) = f /\ \A i \in 1 .. f : SubSeq(log, 1, f)[i] = log[i]
    BY <1>4
<1>7. \A t \in Tables : disk[t].Indexes[1].bt = Writes(SubSeq(log, 1, f), t, f)
  <2> TAKE t \in Tables
  <2>1. disk[t].Indexes[1].bt = Writes(log, t, f)
    BY <1>2, OnDisk
  <2>2. Writes(SubSeq(log, 1, f), t, f) = Writes(log, t, f)
    <3> DEFINE l == SubSeq(log, 1, f)
    <3>1. \A i \in 1 .. f : l[i] = log[i]
      BY <1>6
    <3> HIDE DEF l
    <3>2. Writes(l, t, f) = Writes(log, t, f)
      BY <3>1, WritesSame
    <3> QED
      BY <3>2 DEF l
  <2> QED
    BY <2>1, <2>2
<1>8. [t \in Tables |-> Entries(info[t].Indexes[1])] = Abstract!Content(log)
    BY Zenon, <1>5 DEF Abstract!Content, Writes
<1>9. [t \in Tables |-> disk[t].Indexes[1].bt] = Abstract!Content(SubSeq(log, 1, f))
    BY <1>6, <1>7 DEF Abstract!Content, Writes
<1>10. f \in 0 .. Len(log)
    BY <1>4
<1> QED
    BY <1>3, <1>8, <1>9, <1>10 DEF Shown

(* A persist adds to what the file has, and takes nothing away.              *)
LEMMA PersistAdvances ==
    ASSUME IInv, Shown', Persist
    PROVE  Durable' \in Durable .. Len(log) /\ log' = log
<1>1. PICK f \in Nat, d \in Nat, e \in Nat : Held(f, d, e)
    BY Zenon DEF IInv
<1>2. Shapes /\ Base(f, d) /\ Durable = f /\ log' = log /\ f <= d /\ d <= Len(log)
    BY <1>1, DurableIs DEF Held, Base, Persist
<1>3. Shapes' /\ Base(d, d)'
    BY <1>1, PersistKeeps DEF Held
<1>4. log' \in Seq((SUBSET Tables) \ {{}}) /\ d \in 0 .. Len(log')
    BY <1>2, <1>3 DEF Shapes
<1>5. ASSUME NEW t \in Tables
      PROVE  disk'[t].Indexes[1].bt = Writes(log', t, d)
  <2> DEFINE S == Writes(log', t, d)
             ti == disk'[t]
  <2>1. S \in Seq(Nat) /\ Len(S) \in Nat
    BY Zenon, WritesSeq
  <2>2. Layered(ti, S, Len(S)) /\ ~Modified(ti)
    BY <1>3, Zenon DEF Base
  <2> HIDE DEF S, ti
  <2>3. ti.Indexes[1].bt = SubSeq(S, 1, Len(S))
    BY <2>1, <2>2, InfoReads, Zenon
  <2>4. SubSeq(S, 1, Len(S)) = S
    BY <2>1
  <2> QED
    BY Zenon, <2>3, <2>4 DEF S, ti
<1>6. Durable' = d
    BY <1>4, <1>5, DurableOf DEF Durable
<1> QED
    BY <1>2, <1>6 DEF Shapes

(* Every step of the pipeline is a step of Store, or changes nothing that it *)
(* shows.                                                                    *)
LEMMA MapsTo ==
    ASSUME IInv, Shown, Shown', [Next]_vars
    PROVE  [Abstract!Accept \/ Abstract!Save \/ Abstract!Lose]_(Abstract!storeVars)
<1>1. ASSUME NEW ts \in (SUBSET Tables) \ {{}}, Commit(ts) PROVE Abstract!Accept
  <2>1. log' = Append(log, ts) /\ disk' = disk
    BY Zenon, <1>1 DEF Commit
  <2>2. Durable' = Durable
    BY Zenon, <2>1 DEF Durable
  <2>3. Abstract!Update(Append(log, ts), Durable)
    BY <2>1, <2>2 DEF Shown, Abstract!Update
  <2> QED
    BY Zenon, <2>3 DEF Abstract!Accept
<1>2. CASE Persist
  <2>1. Durable' \in Durable .. Len(log) /\ log' = log
    BY Zenon, <1>2, PersistAdvances
  <2>2. PICK d \in Durable .. Len(log) : d = Durable'
    BY Zenon, <2>1
  <2>3. Abstract!Update(log, d)
    BY <2>1, <2>2 DEF Shown, Abstract!Update
  <2>4. Abstract!Save
    BY Zenon, <2>3 DEF Abstract!Save
  <2> QED
    BY Zenon, <2>4
<1>3. CASE OpenDatabase
  <2>1. log' = SubSeq(log, 1, Durable) /\ disk' = disk
    BY Zenon, <1>3 DEF OpenDatabase
  <2>2. Durable' = Durable
    BY Zenon, <2>1 DEF Durable
  <2>3. Abstract!Update(SubSeq(log, 1, Durable), Durable)
    BY SMTT(60), <2>1, <2>2 DEF Shown, Abstract!Update
  <2> QED
    BY Zenon, <2>3 DEF Abstract!Lose
<1>4. CASE log' = log /\ disk' = disk
  <2>1. Durable' = Durable
    BY <1>4 DEF Durable
  <2> QED
    BY <1>4, <2>1 DEF Shown, Abstract!storeVars
<1>5. \/ \E ts \in (SUBSET Tables) \ {{}} : Commit(ts)
      \/ Persist \/ OpenDatabase \/ (log' = log /\ disk' = disk)
    BY Zenon DEF Next, vars, AddExclusive, CallPersist, RunEndExclusive, Send, Stop,
       buildIndexes, Receive, StartMerge, Merge, Run, Tick, StartPersist, Finish, Reopen, Crash
<1> QED
    BY Zenon, <1>1, <1>2, <1>3, <1>4, <1>5

(* The pipeline implements Store: readers always see every accepted          *)
(* transaction, in order; the file has a prefix that only grows; and a crash *)
(* loses only what is after it.                                              *)
THEOREM Refinement == Spec => Implements
<1>1. Init => Abstract!Init
  <2> SUFFICES ASSUME Init PROVE Abstract!Init
    BY Zenon
  <2>1. IInv
    BY Zenon, InitHolds DEF IInv
  <2>2. Shown /\ log = <<>>
    BY <2>1, IsShown DEF Init
  <2>3. Durable = 0
    BY <2>2 DEF Shown
  <2>4. SubSeq(log, 1, 0) = log
    BY <2>2
  <2> QED
    BY Zenon, <2>2, <2>3, <2>4 DEF Shown, Abstract!Init
<1>2. IInv /\ Shown /\ Shown' /\ [Next]_vars
        => [Abstract!Accept \/ Abstract!Save \/ Abstract!Lose]_(Abstract!storeVars)
    BY Zenon, MapsTo
<1> QED
    BY <1>1, <1>2, IsShown, Invariance, PTL DEF Spec, Implements, Abstract!Spec

(* What the merger has computed outside of the mutex is what it would        *)
(* compute now, for every index of a table; and the index that buildIndexes  *)
(* has made has the entries of its table.                                    *)
Computed ==
    /\ merger.pc = "merge" =>
         \A t \in DOMAIN merger.merges : merger.results[t] = MergeResults(info[t], merger.merges[t])
    /\ merger.pc \in {"persist", "last"} =>
         \A t \in DOMAIN merger.results : merger.results[t] = SaveResults(info[t])
    /\ admin.pc \in {"built", "running"} =>
         Entries(admin.ov) = Entries(info[admin.table].Indexes[1])

(* The Info of every table is right, by the invariant.                       *)
LEMMA Wholes ==
    ASSUME IInv, NEW t \in Tables
    PROVE  Whole(info[t]) /\ info[t] \in Infos
<1>1. PICK f \in Nat, d \in Nat, e \in Nat : Held(f, d, e)
    BY Zenon DEF IInv
<1>2. Shapes /\ Base(f, d)
    BY Zenon, <1>1 DEF Held
<1>3. /\ Layered(info[t], Writes(log, t, Len(log)), Len(Writes(log, t, d)))
      /\ Writes(log, t, Len(log)) \in Seq(Nat) /\ Len(Writes(log, t, d)) \in Nat
    BY Zenon, <1>2, BaseOf
<1>4. info[t] \in Infos
    BY Zenon, <1>2 DEF Shapes
<1> QED
    BY Zenon, <1>3, <1>4 DEF Whole

(* The merge that is being computed finds its layers in every index.         *)
LEMMA Mergeables ==
    ASSUME IInv, merger.pc = "merge", NEW t \in DOMAIN merger.merges
    PROVE  t \in Tables /\ merger.merges[t] \in Nat /\ CanMerge(info[t], merger.merges[t])
<1>1. PICK f \in Nat, d \in Nat, e \in Nat : Held(f, d, e)
    BY Zenon DEF IInv
<1>2. Shapes /\ Base(f, d) /\ d <= e /\ e <= Len(log) /\ Merging(d, e)
    BY Zenon, <1>1 DEF Held, Work
<1>3. t \in Tables /\ merger.merges[t] = Len(Writes(log, t, e)) - Len(Writes(log, t, d))
    BY Zenon, <1>2 DEF Merging
<1>4. FitsMerge(t, d, e, merger.merges[t])
    BY Zenon, <1>2, <1>3, ToMerge
<1> QED
    BY Zenon, <1>3, <1>4 DEF FitsMerge

(* The persist that is being computed is of tables.                          *)
LEMMA Savables ==
    ASSUME IInv, merger.pc \in {"persist", "last"}, NEW t \in DOMAIN merger.results
    PROVE  t \in Tables
<1>1. PICK f \in Nat, d \in Nat, e \in Nat : Held(f, d, e)
    BY Zenon DEF IInv
<1>2. Persisting(d)
    BY Zenon, <1>1 DEF Held, Work
<1> QED
    BY Zenon, <1>2 DEF Persisting

(* IndexesAgree is about each table.                                         *)
LEMMA AgreeOfEach == IndexesAgree <=> \A t \in Tables : Agrees(info[t])
    BY Zenon DEF IndexesAgree, Agrees

(* A step that changes the entries of no index.                              *)
LEMMA AllSame ==
    ASSUME IInv, Computed, \A t \in Tables : SameEntries(info[t], info'[t]), admin' = admin
    PROVE  /\ IndexesAgree => IndexesAgree'
           /\ admin'.pc \in {"built", "running"} =>
                Entries(admin'.ov) = Entries(info'[admin'.table].Indexes[1])
<1>1. \A t \in Tables : 1 \in DOMAIN info[t].Indexes
    BY Zenon, Wholes, Layers
<1>2. ASSUME IndexesAgree PROVE IndexesAgree'
  <2>1. \A t \in Tables : Agrees(info[t])
    BY Zenon, <1>2, AgreeOfEach
  <2>2. \A t \in Tables : Agrees(info'[t])
    BY Zenon, <1>1, <2>1, StillAgrees
  <2> QED
    BY Zenon, <2>2 DEF IndexesAgree, Agrees
<1>3. ASSUME admin.pc \in {"built", "running"}
      PROVE  Entries(admin.ov) = Entries(info'[admin.table].Indexes[1])
  <2>1. PICK f \in Nat, d \in Nat, e \in Nat : Held(f, d, e)
    BY Zenon DEF IInv
  <2>2. admin.table \in Tables
    BY Zenon, <1>3, <2>1 DEF Held, Building
  <2>3. Entries(info'[admin.table].Indexes[1]) = Entries(info[admin.table].Indexes[1])
    BY Zenon, <1>1, <2>2 DEF SameEntries
  <2> QED
    BY Zenon, <1>3, <2>3 DEF Computed
<1> QED
    BY Zenon, <1>2, <1>3

(* A commit while the merger computes, or while buildIndexes has an index:   *)
(* its tables are not the exclusive one.                                     *)
LEMMA CommitStaysEqual ==
    ASSUME IInv, Computed, NEW ts \in (SUBSET Tables) \ {{}}, Commit(ts)
    PROVE  Computed' /\ (IndexesAgree => IndexesAgree')
<1> DEFINE x == Len(log')
<1>1. PICK f \in Nat, d \in Nat, e \in Nat : Held(f, d, e)
    BY Zenon DEF IInv
<1>2. x \in Nat
  <2>1. log \in Seq((SUBSET Tables) \ {{}}) /\ log' = Append(log, ts)
    BY Zenon, <1>1 DEF Held, Shapes, Commit
  <2> QED
    BY <2>1
<1>3. /\ info' = [t \in Tables |-> IF t \in ts THEN LayeredOnto(info[t], x) ELSE info[t]]
      /\ merger' = merger /\ admin' = admin /\ admin.table \notin ts
    BY Zenon DEF Commit, UpdateState
<1> HIDE DEF x
<1>4. \A t \in Tables : info'[t] = IF t \in ts THEN LayeredOnto(info[t], x) ELSE info[t]
    BY Zenon, <1>3
<1>5. ASSUME NEW t \in Tables
      PROVE  /\ Agrees(info[t]) => Agrees(info'[t])
             /\ SaveResults(info'[t]) = SaveResults(info[t])
             /\ \A n \in Nat : CanMerge(info[t], n) =>
                  MergeResults(info'[t], n) = MergeResults(info[t], n)
  <2>1. Whole(info[t])
    BY Zenon, <1>5, Wholes
  <2>2. CASE t \in ts
    <3>1. info'[t] = LayeredOnto(info[t], x)
      BY Zenon, <1>4, <1>5, <2>2
    <3>2. /\ Agrees(info[t]) => Agrees(LayeredOnto(info[t], x))
          /\ SaveResults(LayeredOnto(info[t], x)) = SaveResults(info[t])
          /\ \A n \in Nat : CanMerge(info[t], n) =>
               MergeResults(LayeredOnto(info[t], x), n) = MergeResults(info[t], n)
      BY Zenon, <1>2, <2>1, CommitKeepsEqual
    <3> QED
      BY Zenon, <3>1, <3>2
  <2>3. CASE t \notin ts
    BY Zenon, <1>4, <1>5, <2>3
  <2> QED
    BY Zenon, <2>2, <2>3
<1>6. IndexesAgree => IndexesAgree'
    BY Zenon, <1>5 DEF IndexesAgree, Agrees
<1>7. ASSUME merger.pc = "merge", NEW t \in DOMAIN merger.merges
      PROVE  merger.results[t] = MergeResults(info'[t], merger.merges[t])
  <2>1. t \in Tables /\ merger.merges[t] \in Nat /\ CanMerge(info[t], merger.merges[t])
    BY Zenon, <1>7, Mergeables
  <2>2. merger.results[t] = MergeResults(info[t], merger.merges[t])
    BY Zenon, <1>7 DEF Computed
  <2> QED
    BY Zenon, <1>5, <2>1, <2>2
<1>8. ASSUME merger.pc \in {"persist", "last"}, NEW t \in DOMAIN merger.results
      PROVE  merger.results[t] = SaveResults(info'[t])
  <2>1. t \in Tables
    BY Zenon, <1>8, Savables
  <2> QED
    BY Zenon, <1>5, <1>8, <2>1 DEF Computed
<1>9. ASSUME admin.pc \in {"built", "running"}
      PROVE  Entries(admin.ov) = Entries(info'[admin.table].Indexes[1])
  <2>1. admin.table \in Tables
    BY Zenon, <1>1, <1>9 DEF Held, Building
  <2> QED
    BY Zenon, <1>3, <1>4, <1>9, <2>1 DEF Computed
<1> QED
    BY Zenon, <1>3, <1>6, <1>7, <1>8, <1>9 DEF Computed

(* UpdateState with the results of a merge.                                  *)
LEMMA MergeStaysEqual ==
    ASSUME IInv, Computed, Merge
    PROVE  Computed' /\ (IndexesAgree => IndexesAgree')
<1> DEFINE tn == merger.merges
<1>1. /\ merger.pc = "merge" /\ admin' = admin
      /\ \A t \in DOMAIN tn : t \in Tables /\ tn[t] \in Nat /\ CanMerge(info[t], tn[t])
    BY Zenon, Mergeables DEF Merge
<1>2. /\ info' = [t \in Tables |-> IF t \in DOMAIN tn
                                   THEN ApplyMerge(info[t], tn[t], merger.results[t])
                                   ELSE info[t]]
      /\ merger' = IF merger.td = NoTodo THEN Select
                   ELSE [Select EXCEPT !.pc = "todo", !.td = merger.td]
    BY Zenon, <1>1 DEF Merge, UpdateState
<1>3. ASSUME NEW t \in Tables PROVE SameEntries(info[t], info'[t])
  <2>1. CASE t \in DOMAIN tn
    <3>1. info'[t] = ApplyMerge(info[t], tn[t], MergeResults(info[t], tn[t]))
      BY Zenon, <1>1, <1>2, <1>3, <2>1 DEF Computed
    <3>2. Whole(info[t]) /\ tn[t] \in Nat /\ CanMerge(info[t], tn[t])
      BY Zenon, <1>1, <1>3, <2>1, Wholes
    <3> HIDE DEF tn
    <3>3. SameEntries(info[t], ApplyMerge(info[t], tn[t], MergeResults(info[t], tn[t])))
      BY Zenon, <3>2, MergeKeepsEntries
    <3> QED
      BY Zenon, <3>1, <3>3
  <2>2. CASE t \notin DOMAIN tn
    <3>1. info'[t] = info[t]
      BY Zenon, <1>2, <1>3, <2>2
    <3> QED
      BY Zenon, <3>1 DEF SameEntries
  <2> QED
    BY Zenon, <2>1, <2>2
<1>4. merger'.pc \in {"select", "todo"}
    BY Zenon, <1>2 DEF Select
<1>5. merger'.pc # "merge" /\ merger'.pc \notin {"persist", "last"}
    BY <1>4
<1> QED
    BY Zenon, <1>1, <1>3, <1>5, AllSame DEF Computed

(* UpdateState with the results of a persist.                                *)
LEMMA PersistStaysEqual ==
    ASSUME IInv, Computed, Persist
    PROVE  Computed' /\ (IndexesAgree => IndexesAgree')
<1>1. /\ merger.pc \in {"persist", "last"} /\ admin' = admin
      /\ info' = [t \in Tables |-> IF t \in DOMAIN merger.results
                                   THEN ApplyPersist(info[t], merger.results[t]) ELSE info[t]]
      /\ merger' = IF merger.pc = "last" THEN [Select EXCEPT !.pc = "done"] ELSE Select
    BY Zenon DEF Persist
<1>2. ASSUME NEW t \in Tables PROVE SameEntries(info[t], info'[t])
  <2>1. CASE t \in DOMAIN merger.results
    <3>1. info'[t] = ApplyPersist(info[t], SaveResults(info[t]))
      BY Zenon, <1>1, <1>2, <2>1 DEF Computed
    <3>2. SameEntries(info[t], ApplyPersist(info[t], SaveResults(info[t])))
      BY Zenon, <1>2, Wholes, PersistKeepsEntries
    <3> QED
      BY Zenon, <3>1, <3>2
  <2>2. CASE t \notin DOMAIN merger.results
    <3>1. info'[t] = info[t]
      BY Zenon, <1>1, <1>2, <2>2
    <3> QED
      BY Zenon, <3>1 DEF SameEntries
  <2> QED
    BY Zenon, <2>1, <2>2
<1>3. merger'.pc \in {"select", "done"}
    BY Zenon, <1>1 DEF Select
<1>4. merger'.pc # "merge" /\ merger'.pc \notin {"persist", "last"}
    BY <1>3
<1> QED
    BY Zenon, <1>1, <1>2, <1>4, AllSame DEF Computed

(* The index that was built is added to the table, which is still as it was  *)
(* read.                                                                     *)
LEMMA RunStaysEqual ==
    ASSUME IInv, Computed, Run
    PROVE  Computed' /\ (IndexesAgree => IndexesAgree')
<1>1. PICK f \in Nat, d \in Nat, e \in Nat : Held(f, d, e)
    BY Zenon DEF IInv
<1>2. /\ merger.td.kind = "run" /\ merger' = Select /\ admin' = NoAdmin
      /\ info' = [info EXCEPT ![admin.table].Indexes = Append(@, admin.ov)]
    BY Zenon DEF Run, UpdateState
<1>3. checker.pc = "waiting" /\ checker.todo = merger.td
    BY Zenon, <1>1, <1>2 DEF Held, Orders
<1>4. admin.pc = "running"
    BY Zenon, <1>1, <1>2, <1>3 DEF Held, Building
<1>5. admin.table \in Tables
    BY <1>1, <1>4 DEF Held, Building
<1>6. info \in [Tables -> Infos] /\ admin.ov \in Ovs
    BY Zenon, <1>1 DEF Held, Shapes
<1>7. Entries(admin.ov) = Entries(info[admin.table].Indexes[1])
    BY Zenon, <1>4 DEF Computed
<1>8. ASSUME \A t \in Tables : Agrees(info[t]), NEW t \in Tables
      PROVE  Agrees(info'[t])
  <2>1. CASE t = admin.table
    <3>1. info'[t] = [info[t] EXCEPT !.Indexes = Append(@, admin.ov)]
      BY Zenon, <1>2, <1>6, <2>1
    <3>2. /\ info[t] \in Infos /\ 1 \in DOMAIN info[t].Indexes /\ Agrees(info[t])
          /\ Entries(admin.ov) = Entries(info[t].Indexes[1])
      BY Zenon, <1>7, <1>8, <2>1, Wholes, Layers
    <3>3. Agrees([info[t] EXCEPT !.Indexes = Append(@, admin.ov)])
      BY Zenon, <1>6, <3>2, AddedAgrees
    <3> QED
      BY Zenon, <3>1, <3>3
  <2>2. CASE t # admin.table
    BY Zenon, <1>2, <1>6, <1>8, <2>2
  <2> QED
    BY Zenon, <2>1, <2>2
<1>9. IndexesAgree => IndexesAgree'
    BY Zenon, <1>8 DEF IndexesAgree, Agrees
<1>10. merger'.pc = "select" /\ admin'.pc = "none"
    BY Zenon, <1>2 DEF Select, NoAdmin
<1>11. Computed'
    BY <1>10 DEF Computed
<1> QED
    BY Zenon, <1>9, <1>11

(* A step that computes nothing and changes neither the state nor the admin  *)
(* thread.                                                                   *)
LEMMA SameState ==
    ASSUME Computed, info' = info, admin' = admin,
           merger' = merger \/ merger'.pc \in {"select", "todo", "done", "fatal"}
    PROVE  Computed'
<1>1. \/ merger' = merger
      \/ merger'.pc # "merge" /\ merger'.pc \notin {"persist", "last"}
    OBVIOUS
<1> QED
    BY Zenon, <1>1 DEF Computed

(* buildIndexes reads all entries of the table. A table that it takes to be  *)
(* empty, because Nrows is 0, has none.                                      *)
LEMMA buildIndexesComputes ==
    ASSUME IInv, Computed, buildIndexes
    PROVE  Computed'
<1> DEFINE ti == info[admin.table]
           ix == ti.Indexes[1]
<1>1. PICK f \in Nat, d \in Nat, e \in Nat : Held(f, d, e)
    BY Zenon DEF IInv
<1>2. admin.pc = "building" /\ info' = info /\ merger' = merger
    BY Zenon DEF buildIndexes
<1>3. admin.table \in Tables
    BY <1>1, <1>2 DEF Held, Building
<1>4. /\ admin'.table = admin.table
      /\ admin'.ov = IF ti.Nrows = 0 THEN Overlay(<<>>, 1) ELSE Overlay(Entries(ix), Len(ix.layers))
    BY Zenon DEF buildIndexes
<1>5. PICK S \in Seq(Nat), p \in Nat : Layered(ti, S, p)
    BY Zenon, <1>3, Wholes DEF Whole
<1>6. Entries(ix) = S /\ ti.Nrows = Len(S)
    BY Zenon, <1>5, InfoReads
<1>7. ix.layers \in Seq(Seq(Nat))
    BY Zenon, <1>3, Wholes, Layers
<1> HIDE DEF ix, ti
<1>8. Len(ix.layers) \in Nat /\ (Len(S) = 0 => S = <<>>) /\ 1 \in Nat
    BY <1>7
<1>9. Entries(admin'.ov) = Entries(ix)
  <2>1. CASE ti.Nrows = 0
    <3>1. admin'.ov = Overlay(S, 1)
      BY Zenon, <1>4, <1>6, <1>8, <2>1
    <3>2. Entries(Overlay(S, 1)) = S
      BY Zenon, <1>8, OverlayEntries
    <3> QED
      BY Zenon, <1>6, <3>1, <3>2
  <2>2. CASE ti.Nrows # 0
    <3>1. admin'.ov = Overlay(S, Len(ix.layers))
      BY Zenon, <1>4, <1>6, <2>2
    <3>2. Entries(Overlay(S, Len(ix.layers))) = S
      BY Zenon, <1>8, OverlayEntries
    <3> QED
      BY Zenon, <1>6, <3>1, <3>2
  <2> QED
    BY Zenon, <2>1, <2>2
<1> QED
    BY Zenon, <1>2, <1>4, <1>9 DEF Computed, ix, ti

(* Meta.Persist saves what is in the state of now.                           *)
LEMMA MetaPersistComputes ==
    ASSUME Computed, NEW pc \in {"persist", "last"}, MetaPersist(pc), UNCHANGED <<info, admin>>
    PROVE  Computed'
<1>1. /\ merger'.pc = pc
      /\ merger'.results = [t \in {u \in Tables : Modified(info[u])} |-> SaveResults(info[t])]
    BY Zenon DEF MetaPersist, Select
<1>2. merger'.pc # "merge"
    BY <1>1
<1>3. \A t \in DOMAIN merger'.results : merger'.results[t] = SaveResults(info[t])
    BY Zenon, <1>1
<1> QED
    BY Zenon, <1>2, <1>3 DEF Computed

(* The merger computes a merge from the state of now.                        *)
LEMMA StartMergeComputes ==
    ASSUME Computed, StartMerge
    PROVE  Computed'
<1>1. PICK n \in 0 .. Len(mergeChan) :
        LET tn == TableCounts(<<merger.td>> \o SubSeq(mergeChan, 1, n))
        IN  merger' =
              IF \A t \in DOMAIN tn : CanMerge(info[t], tn[t])
              THEN [pc |-> "merge", merges |-> tn,
                    td |-> IF n < Len(mergeChan) THEN mergeChan[n + 1] ELSE NoTodo,
                    results |-> [t \in DOMAIN tn |-> MergeResults(info[t], tn[t])]]
              ELSE Fatal
    BY Zenon DEF StartMerge
<1>2. info' = info /\ admin' = admin
    BY Zenon DEF StartMerge
<1> DEFINE tn == TableCounts(<<merger.td>> \o SubSeq(mergeChan, 1, n))
<1>3. CASE merger' = Fatal
  <2>1. merger'.pc = "fatal"
    BY Zenon, <1>3 DEF Fatal, Select
  <2> QED
    BY <1>2, <2>1, SameState
<1>4. CASE merger' = [pc |-> "merge", merges |-> tn,
                      td |-> IF n < Len(mergeChan) THEN mergeChan[n + 1] ELSE NoTodo,
                      results |-> [t \in DOMAIN tn |-> MergeResults(info[t], tn[t])]]
  <2> HIDE DEF tn
  <2>1. /\ merger'.pc = "merge" /\ merger'.merges = tn
        /\ merger'.results = [t \in DOMAIN tn |-> MergeResults(info[t], tn[t])]
    BY Zenon, <1>4
  <2>2. merger'.pc \notin {"persist", "last"}
    BY <2>1
  <2>3. \A t \in DOMAIN merger'.merges :
           merger'.results[t] = MergeResults(info[t], merger'.merges[t])
    BY Zenon, <2>1
  <2> QED
    BY Zenon, <1>2, <2>2, <2>3 DEF Computed
<1> QED
    BY Zenon, <1>1, <1>3, <1>4

(* The call of the admin thread passes the index on.                         *)
LEMMA RunEndExclusiveComputes ==
    ASSUME IInv, Computed, RunEndExclusive
    PROVE  Computed'
<1>1. PICK f \in Nat, d \in Nat, e \in Nat : Held(f, d, e)
    BY Zenon DEF IInv
<1>2. admin \in [pc : {"none", "building", "built", "running"},
                 table : Tables \cup {"none"}, ov : Ovs]
    BY Zenon, <1>1 DEF Held, Shapes
<1>3. /\ admin.pc = "built" /\ admin' = [admin EXCEPT !.pc = "running"]
      /\ info' = info /\ merger' = merger
    BY Zenon DEF RunEndExclusive
<1>4. admin'.table = admin.table /\ admin'.ov = admin.ov
    BY Zenon, <1>2, <1>3
<1> QED
    BY Zenon, <1>3, <1>4 DEF Computed

(* Every step but an opening of the file keeps the indexes equal.            *)
LEMMA StepStaysEqual ==
    ASSUME IInv, Computed, Next
    PROVE  Computed' /\ (IndexesAgree /\ info' # disk => IndexesAgree')
<1>0. ASSUME info' = info, Computed'
      PROVE  Computed' /\ (IndexesAgree /\ info' # disk => IndexesAgree')
    BY Zenon, <1>0 DEF IndexesAgree
<1>s. Select.pc = "select" /\ NoAdmin.pc = "none"
    BY Zenon DEF Select, NoAdmin
<1>1. ASSUME CallPersist \/ Send \/ Stop \/ Receive
      PROVE  info' = info /\ Computed'
  <2>1. info' = info /\ admin' = admin
    BY Zenon, <1>1 DEF CallPersist, Send, Stop, Receive
  <2>2. merger' = merger \/ merger' = [Select EXCEPT !.pc = "todo", !.td = Head(mergeChan)]
    BY Zenon, <1>1 DEF CallPersist, Send, Stop, Receive
  <2>3. merger' = merger \/ merger'.pc \in {"select", "todo", "done", "fatal"}
    BY Zenon, <2>2 DEF Select
  <2> QED
    BY Zenon, <2>1, <2>3, SameState
<1>2. ASSUME NEW t \in Tables, AddExclusive(t)
      PROVE  info' = info /\ Computed'
  <2>1. /\ info' = info /\ merger' = merger
        /\ admin' = [NoAdmin EXCEPT !.pc = "building", !.table = t]
    BY Zenon, <1>2 DEF AddExclusive
  <2>2. admin'.pc = "building"
    BY Zenon, <2>1 DEF NoAdmin
  <2>3. admin'.pc \notin {"built", "running"}
    BY <2>2
  <2> QED
    BY Zenon, <2>1, <2>3 DEF Computed
<1>3. ASSUME Tick \/ StartPersist \/ Finish
      PROVE  info' = info /\ Computed'
  <2>1. info' = info /\ admin' = admin
    BY Zenon, <1>3 DEF Tick, StartPersist, Finish
  <2>2. \/ MetaPersist("persist") \/ MetaPersist("last")
        \/ merger' = Select \/ merger' = [Select EXCEPT !.pc = "done"]
    BY Zenon, <1>3 DEF Tick, StartPersist, Finish
  <2>3. ASSUME MetaPersist("persist") PROVE Computed'
    BY Zenon, <2>1, <2>3, MetaPersistComputes
  <2>4. ASSUME MetaPersist("last") PROVE Computed'
    BY Zenon, <2>1, <2>4, MetaPersistComputes
  <2>5. ASSUME merger' = Select \/ merger' = [Select EXCEPT !.pc = "done"] PROVE Computed'
    <3>1. merger'.pc = "select" \/ merger'.pc = "done"
      <4>1. CASE merger' = Select
        BY Zenon, <1>s, <4>1
      <4>2. CASE merger' = [Select EXCEPT !.pc = "done"]
        BY Zenon, <4>2 DEF Select
      <4> QED
        BY Zenon, <2>5, <4>1, <4>2
    <3> QED
      BY Zenon, <2>1, <3>1, SameState
  <2> QED
    BY Zenon, <2>1, <2>2, <2>3, <2>4, <2>5
<1>4. ASSUME OpenDatabase
      PROVE  Computed' /\ info' = disk
  <2>1. merger' = Select /\ admin' = NoAdmin /\ info' = disk
    BY Zenon, <1>4 DEF OpenDatabase
  <2>2. merger'.pc = "select" /\ admin'.pc = "none"
    BY Zenon, <1>s, <2>1
  <2> QED
    BY <2>1, <2>2 DEF Computed
<1>5. ASSUME RunEndExclusive \/ buildIndexes \/ StartMerge
      PROVE  info' = info /\ Computed'
  <2>1. info' = info
    BY Zenon, <1>5 DEF RunEndExclusive, buildIndexes, StartMerge
  <2> QED
    BY Zenon, <1>5, <2>1, RunEndExclusiveComputes, buildIndexesComputes, StartMergeComputes
<1>6. ASSUME Merge \/ Persist \/ Run \/ \E ts \in (SUBSET Tables) \ {{}} : Commit(ts)
      PROVE  Computed' /\ (IndexesAgree => IndexesAgree')
    BY Zenon, <1>6, MergeStaysEqual, PersistStaysEqual, RunStaysEqual, CommitStaysEqual
<1> QED
    BY Zenon, <1>0, <1>1, <1>2, <1>3, <1>4, <1>5, <1>6 DEF Next, Reopen, Crash

(* The indexes of a table that have the same entries keep having the same    *)
(* entries until the file is opened again (Overlay.Merge, Overlay.Save and   *)
(* their updates, buildIndexes in database.go), whatever merges, persists    *)
(* and commits happen while an index is built.                               *)
THEOREM IndexesAreEqual == Spec => IndexesStayEqual
<1>1. Init => Computed
  <2>1. Select.pc = "select" /\ NoAdmin.pc = "none"
    BY Zenon DEF Select, NoAdmin
  <2>2. Init => merger.pc = "select" /\ admin.pc = "none"
    BY Zenon, <2>1 DEF Init
  <2> QED
    BY <2>2 DEF Computed
<1>2. IInv /\ Computed /\ [Next]_vars => Computed'
  <2>1. UNCHANGED vars /\ Computed => Computed'
    BY Zenon DEF vars, Computed
  <2> QED
    BY Zenon, <2>1, StepStaysEqual
<1>3. IInv /\ Computed /\ [Next]_vars => [IndexesAgree /\ info' # disk => IndexesAgree']_vars
    BY Zenon, StepStaysEqual
<1> QED
    BY <1>1, <1>2, <1>3, Invariance, PTL DEF Spec, IndexesStayEqual

==============================================================================
