------------------------------ MODULE InfoProofs ------------------------------
(***************************************************************************)
(* What a commit, a merge and a persist do to the Info of a table, for     *)
(* tables with any number of indexes, layers and entries.                  *)
(*                                                                         *)
(* The first part is about sequences: what the recursive functions of Info *)
(* compute, by induction over the length of their argument.  The second is *)
(* about one stack of layers and about the counts that go with it.  The    *)
(* third is about the Info as a whole: Layered relates it to the sequence  *)
(* S of the transactions that wrote the table and to the number p of them  *)
(* that have been merged, and each of LayeredOnto, ApplyMerge and          *)
(* ApplyPersist keeps it.                                                  *)
(***************************************************************************)
EXTENDS Info, WellFoundedInduction, TLAPS

(* A set that has 0 and the successor of each of its numbers has every       *)
(* natural number. This is how the lemmas about the recursive functions of   *)
(* Info use induction.                                                       *)
LEMMA SetInduction ==
    ASSUME NEW S, 0 \in S, \A n \in Nat : n \in S => n + 1 \in S
    PROVE  \A n \in Nat : n \in S
<1> DEFINE T == Nat \ S
           R == {ss \in Nat \X Nat : ss[1] < ss[2]}
<1> SUFFICES ASSUME T # {} PROVE FALSE
    BY Zenon
<1>1. IsWellFoundedOn(R, Nat)
    BY Zenon, NatLessThanWellFounded DEF OpToRel
<1>2. PICK x \in T : \A y \in T : ~ (<<y, x>> \in R)
  <2>1. T \subseteq Nat
    BY Zenon
  <2> HIDE DEF T, R
  <2> QED
    BY Zenon, <1>1, <2>1, WFMin
<1>3. x # 0 /\ x - 1 \in Nat
    OBVIOUS
<1>4. <<x - 1, x>> \in R
    BY <1>3
<1>5. x - 1 \notin T
  <2> HIDE DEF T, R
  <2> QED
    BY Zenon, <1>2, <1>4
<1> QED
    BY <1>3, <1>5

(* g is computed from v0 by the steps.                                       *)
Follows(g, n, v0, step) ==
    /\ g[0] = v0
    /\ \A i \in 1 .. n : g[i] = step[i][g[i - 1]]

(* A definition by recursion over 1 .. n, like the one of Flatten, has a     *)
(* value.                                                                    *)
LEMMA Recursion ==
    ASSUME NEW V, NEW v0 \in V, NEW n \in Nat, NEW step \in [1 .. n -> [V -> V]]
    PROVE  \E g \in [0 .. n -> V] : Follows(g, n, v0, step)
<1> DEFINE S == {k \in Nat : k <= n => \E g \in [0 .. k -> V] : Follows(g, k, v0, step)}
<1>1. 0 \in S
  <2> DEFINE g0 == [i \in 0 .. 0 |-> v0]
  <2>1. g0 \in [0 .. 0 -> V] /\ Follows(g0, 0, v0, step)
    BY DEF Follows
  <2> QED
    BY Zenon, <2>1
<1>2. ASSUME NEW k \in Nat, k \in S
      PROVE  k + 1 \in S
  <2> SUFFICES ASSUME k + 1 <= n
               PROVE  \E g \in [0 .. k + 1 -> V] : Follows(g, k + 1, v0, step)
    OBVIOUS
  <2>1. PICK g \in [0 .. k -> V] : Follows(g, k, v0, step)
    BY <1>2
  <2> DEFINE h == [i \in 0 .. k + 1 |-> IF i <= k THEN g[i] ELSE step[k + 1][g[k]]]
  <2>2. step[k + 1] \in [V -> V] /\ g[k] \in V
    OBVIOUS
  <2>3. step[k + 1][g[k]] \in V
    BY Zenon, <2>2
  <2>4. h \in [0 .. k + 1 -> V]
    BY <2>3
  <2>5. Follows(h, k + 1, v0, step)
    <3>1. h[0] = v0
      BY <2>1 DEF Follows
    <3>2. ASSUME NEW i \in 1 .. k + 1
          PROVE  h[i] = step[i][h[i - 1]]
      <4>1. CASE i = k + 1
        BY <4>1
      <4>2. CASE i # k + 1
        <5>1. i \in 1 .. k /\ i - 1 \in 0 .. k
          BY <4>2
        <5>2. g[i] = step[i][g[i - 1]]
          BY Zenon, <2>1, <5>1 DEF Follows
        <5> QED
          BY <5>1, <5>2
      <4> QED
        BY Zenon, <4>1, <4>2
    <3> QED
      BY Zenon, <3>1, <3>2 DEF Follows
  <2> QED
    BY Zenon, <2>4, <2>5
<1> HIDE DEF S
<1>3. n \in S
    BY Zenon, <1>1, <1>2, SetInduction
<1> QED
    BY <1>3 DEF S

(* f and g begin alike, and what makes them equal at i - 1 makes them equal  *)
(* at i.                                                                     *)
AgreeOn(f, g, k) ==
    f[0] = g[0] /\ \A i \in 1 .. k : f[i - 1] = g[i - 1] => f[i] = g[i]

(* Two functions that are computed by the same steps are equal.              *)
LEMMA Agree ==
    ASSUME NEW k \in Nat, NEW f, NEW g, AgreeOn(f, g, k)
    PROVE  \A i \in 0 .. k : f[i] = g[i]
<1> DEFINE S == {i \in Nat : i <= k => f[i] = g[i]}
<1>1. 0 \in S
    BY Zenon DEF AgreeOn
<1>2. ASSUME NEW i \in Nat, i \in S
      PROVE  i + 1 \in S
  <2> SUFFICES ASSUME i + 1 <= k PROVE f[i + 1] = g[i + 1]
    OBVIOUS
  <2>1. (i + 1) - 1 = i /\ i + 1 \in 1 .. k /\ f[i] = g[i]
    BY <1>2
  <2> QED
    BY <2>1, Zenon DEF AgreeOn
<1> HIDE DEF S
<1>3. \A i \in Nat : i \in S
    BY Zenon, <1>1, <1>2, SetInduction
<1> QED
    BY <1>3 DEF S

(* Flatten, which is what Overlay.Merge does to the layers, adds the layers  *)
(* one after the other.                                                      *)
LEMMA FlattenIs ==
    ASSUME NEW ls \in Seq(Seq(Nat))
    PROVE  \E f \in [0 .. Len(ls) -> Seq(Nat)] :
              /\ f[0] = <<>>
              /\ \A i \in 1 .. Len(ls) : f[i] = f[i - 1] \o ls[i]
              /\ Flatten(ls) = f[Len(ls)]
<1> DEFINE n == Len(ls)
           P(f) == f = [i \in 0 .. n |-> IF i = 0 THEN <<>> ELSE f[i - 1] \o ls[i]]
           step == [i \in 1 .. n |-> [v \in Seq(Nat) |-> v \o ls[i]]]
<1>1. n \in Nat /\ <<>> \in Seq(Nat) /\ step \in [1 .. n -> [Seq(Nat) -> Seq(Nat)]]
    OBVIOUS
<1>2. PICK g \in [0 .. n -> Seq(Nat)] : Follows(g, n, <<>>, step)
  <2> HIDE DEF step, n
  <2> QED
    BY Zenon, <1>1, Recursion
<1>3. g[0] = <<>>
    BY Zenon, <1>2 DEF Follows
<1>4. ASSUME NEW i \in 1 .. n
      PROVE  g[i] = g[i - 1] \o ls[i]
  <2>1. g[i] = step[i][g[i - 1]]
    BY Zenon, <1>2 DEF Follows
  <2>2. g[i - 1] \in Seq(Nat)
    OBVIOUS
  <2> QED
    BY Zenon, <2>1, <2>2
<1>5. P(g)
  <2>1. ASSUME NEW i \in 0 .. n
        PROVE  g[i] = IF i = 0 THEN <<>> ELSE g[i - 1] \o ls[i]
    <3>1. i = 0 \/ i \in 1 .. n
      OBVIOUS
    <3> QED
      BY <1>3, <1>4, <3>1, Zenon
  <2> QED
    BY Zenon, <2>1
<1> DEFINE flat == CHOOSE f : P(f)
<1>6. Flatten(ls) = flat[n]
    BY Zenon DEF Flatten
<1>7. P(flat)
  <2> HIDE DEF P
  <2> QED
    BY Zenon, <1>5
<1> HIDE DEF flat
<1>8. flat[0] = <<>> /\ \A i \in 1 .. n : flat[i] = flat[i - 1] \o ls[i]
  <2>1. \A i \in 0 .. n : flat[i] = IF i = 0 THEN <<>> ELSE flat[i - 1] \o ls[i]
    BY <1>7, Zenon
  <2>2. 0 \in 0 .. n /\ \A i \in 1 .. n : i \in 0 .. n /\ i # 0
    BY <1>1
  <2> QED
    BY <2>1, <2>2, Zenon
<1>9. \A i \in 0 .. n : flat[i] = g[i]
  <2>1. \A i \in 1 .. n : flat[i - 1] = g[i - 1] => flat[i] = g[i]
    BY <1>4, <1>8, Zenon
  <2>2. flat[0] = g[0]
    BY Zenon, <1>3, <1>8
  <2>3. n \in Nat
    OBVIOUS
  <2>4. AgreeOn(flat, g, n)
    BY <2>1, <2>2, Zenon DEF AgreeOn
  <2> HIDE DEF n
  <2> QED
    BY <2>3, <2>4, Agree, Zenon
<1>10. Flatten(ls) = g[n]
    BY <1>1, <1>6, <1>9
<1> QED
    BY <1>3, <1>4, <1>10, Zenon

(* SumSeq, which is what Apply1 does to the Deltas, adds the numbers one     *)
(* after the other.                                                          *)
LEMMA SumIs ==
    ASSUME NEW ds \in Seq(Nat)
    PROVE  \E f \in [0 .. Len(ds) -> Nat] :
              /\ f[0] = 0
              /\ \A i \in 1 .. Len(ds) : f[i] = f[i - 1] + ds[i]
              /\ SumSeq(ds) = f[Len(ds)]
<1> DEFINE n == Len(ds)
           P(f) == f = [i \in 0 .. n |-> IF i = 0 THEN 0 ELSE f[i - 1] + ds[i]]
           step == [i \in 1 .. n |-> [v \in Nat |-> v + ds[i]]]
<1>1. n \in Nat /\ 0 \in Nat /\ step \in [1 .. n -> [Nat -> Nat]]
    OBVIOUS
<1>2. PICK g \in [0 .. n -> Nat] : Follows(g, n, 0, step)
  <2> HIDE DEF step, n
  <2> QED
    BY Zenon, <1>1, Recursion
<1>3. g[0] = 0
    BY Zenon, <1>2 DEF Follows
<1>4. ASSUME NEW i \in 1 .. n
      PROVE  g[i] = g[i - 1] + ds[i]
  <2>1. g[i] = step[i][g[i - 1]]
    BY Zenon, <1>2 DEF Follows
  <2>2. i - 1 \in 0 .. n
    BY <1>1
  <2>3. g[i - 1] \in Nat
    BY Zenon, <2>2
  <2> QED
    BY Zenon, <2>1, <2>3
<1>5. P(g)
  <2>1. ASSUME NEW i \in 0 .. n
        PROVE  g[i] = IF i = 0 THEN 0 ELSE g[i - 1] + ds[i]
    <3>1. i = 0 \/ i \in 1 .. n
      OBVIOUS
    <3> QED
      BY <1>3, <1>4, <3>1, Zenon
  <2> QED
    BY Zenon, <2>1
<1> DEFINE sum == CHOOSE f : P(f)
<1>6. SumSeq(ds) = sum[n]
    BY Zenon DEF SumSeq
<1>7. P(sum)
  <2> HIDE DEF P
  <2> QED
    BY Zenon, <1>5
<1> HIDE DEF sum
<1>8. sum[0] = 0 /\ \A i \in 1 .. n : sum[i] = sum[i - 1] + ds[i]
  <2>1. \A i \in 0 .. n : sum[i] = IF i = 0 THEN 0 ELSE sum[i - 1] + ds[i]
    BY <1>7, Zenon
  <2>2. 0 \in 0 .. n /\ \A i \in 1 .. n : i \in 0 .. n /\ i # 0
    BY <1>1
  <2> QED
    BY <2>1, <2>2, Zenon
<1>9. \A i \in 0 .. n : sum[i] = g[i]
  <2>1. \A i \in 1 .. n : sum[i - 1] = g[i - 1] => sum[i] = g[i]
    BY <1>4, <1>8, Zenon
  <2>2. sum[0] = g[0]
    BY Zenon, <1>3, <1>8
  <2>3. n \in Nat
    OBVIOUS
  <2>4. AgreeOn(sum, g, n)
    BY <2>1, <2>2, Zenon DEF AgreeOn
  <2> HIDE DEF n
  <2> QED
    BY <2>3, <2>4, Agree, Zenon
<1>10. SumSeq(ds) = g[n]
    BY <1>1, <1>6, <1>9
<1> QED
    BY <1>3, <1>4, <1>10, Zenon

(* A slice of S that is extended by the next element.                        *)
LEMMA Extend ==
    ASSUME NEW S \in Seq(Nat), NEW b \in Nat, NEW m \in Nat, b <= m, m < Len(S)
    PROVE  SubSeq(S, b + 1, m) \o <<S[m + 1]>> = SubSeq(S, b + 1, m + 1)
    OBVIOUS

(* Layers that hold consecutive entries of S, one in each layer after the    *)
(* first, are together a slice of S.                                         *)
LEMMA FlattenSingles ==
    ASSUME NEW S \in Seq(Nat), NEW ls \in Seq(Seq(Nat)), NEW b \in Nat, NEW p \in Nat,
           b <= p, ls # <<>>, p + Len(ls) - 1 <= Len(S), ls[1] = SubSeq(S, b + 1, p),
           \A j \in 2 .. Len(ls) : ls[j] = <<S[p + j - 1]>>
    PROVE  Flatten(ls) = SubSeq(S, b + 1, p + Len(ls) - 1)
<1>1. PICK f \in [0 .. Len(ls) -> Seq(Nat)] :
              /\ f[0] = <<>>
              /\ \A i \in 1 .. Len(ls) : f[i] = f[i - 1] \o ls[i]
              /\ Flatten(ls) = f[Len(ls)]
    BY Zenon, FlattenIs
<1> DEFINE T == {k \in Nat : k + 1 <= Len(ls) => f[k + 1] = SubSeq(S, b + 1, p + k)}
<1>2. 0 \in T
  <2>1. 1 \in 1 .. Len(ls) /\ 1 - 1 = 0 /\ ls[1] \in Seq(Nat)
    OBVIOUS
  <2>2. f[1] = f[0] \o ls[1]
    BY <1>1, <2>1, Zenon
  <2> QED
    BY <1>1, <2>1, <2>2
<1>3. ASSUME NEW k \in Nat, k \in T
      PROVE  k + 1 \in T
  <2> SUFFICES ASSUME (k + 1) + 1 <= Len(ls)
               PROVE  f[(k + 1) + 1] = SubSeq(S, b + 1, p + (k + 1))
    OBVIOUS
  <2>1. /\ (k + 1) + 1 \in 1 .. Len(ls) /\ ((k + 1) + 1) - 1 = k + 1
        /\ (k + 1) + 1 \in 2 .. Len(ls) /\ p + ((k + 1) + 1) - 1 = (p + k) + 1
        /\ p + (k + 1) = (p + k) + 1 /\ p + k \in Nat /\ b <= p + k /\ p + k < Len(S)
    OBVIOUS
  <2>2. f[(k + 1) + 1] = f[k + 1] \o ls[(k + 1) + 1]
    BY <1>1, <2>1, Zenon
  <2>3. f[k + 1] = SubSeq(S, b + 1, p + k)
    BY <1>3
  <2>4. ls[(k + 1) + 1] = <<S[(p + k) + 1]>>
    BY <2>1, Zenon
  <2>5. f[(k + 1) + 1] = SubSeq(S, b + 1, (p + k) + 1)
    BY <2>1, <2>2, <2>3, <2>4, Extend, Zenon
  <2> QED
    BY <2>1, <2>5, Zenon
<1> HIDE DEF T
<1>4. /\ Len(ls) - 1 \in Nat /\ (Len(ls) - 1) + 1 = Len(ls)
      /\ p + (Len(ls) - 1) = p + Len(ls) - 1
    OBVIOUS
<1>5. Len(ls) - 1 \in T
    BY Zenon, <1>2, <1>3, <1>4, SetInduction
<1> QED
    BY <1>1, <1>4, <1>5 DEF T

(* The sum of Deltas that are 1 after the first.                             *)
LEMMA SumOnes ==
    ASSUME NEW ds \in Seq(Nat), ds # <<>>, \A j \in 2 .. Len(ds) : ds[j] = 1
    PROVE  SumSeq(ds) = ds[1] + Len(ds) - 1
<1>1. PICK f \in [0 .. Len(ds) -> Nat] :
              /\ f[0] = 0
              /\ \A i \in 1 .. Len(ds) : f[i] = f[i - 1] + ds[i]
              /\ SumSeq(ds) = f[Len(ds)]
    BY Zenon, SumIs
<1> DEFINE T == {k \in Nat : k + 1 <= Len(ds) => f[k + 1] = ds[1] + k}
<1>2. 0 \in T
  <2>1. 1 \in 1 .. Len(ds) /\ 1 - 1 = 0 /\ ds[1] \in Nat
    OBVIOUS
  <2>2. f[1] = f[0] + ds[1]
    BY <1>1, <2>1, Zenon
  <2> QED
    BY <1>1, <2>1, <2>2
<1>3. ASSUME NEW k \in Nat, k \in T
      PROVE  k + 1 \in T
  <2> SUFFICES ASSUME (k + 1) + 1 <= Len(ds)
               PROVE  f[(k + 1) + 1] = ds[1] + (k + 1)
    OBVIOUS
  <2>1. /\ (k + 1) + 1 \in 1 .. Len(ds) /\ ((k + 1) + 1) - 1 = k + 1
        /\ (k + 1) + 1 \in 2 .. Len(ds) /\ ds[1] \in Nat
    OBVIOUS
  <2>2. f[(k + 1) + 1] = f[k + 1] + ds[(k + 1) + 1]
    BY <1>1, <2>1, Zenon
  <2>3. f[k + 1] = ds[1] + k
    BY <1>3
  <2> QED
    BY <2>1, <2>2, <2>3
<1> HIDE DEF T
<1>4. Len(ds) - 1 \in Nat /\ (Len(ds) - 1) + 1 = Len(ds) /\ ds[1] \in Nat
    OBVIOUS
<1>5. Len(ds) - 1 \in T
    BY Zenon, <1>2, <1>3, <1>4, SetInduction
<1> QED
    BY <1>1, <1>4, <1>5 DEF T

(* ms is r followed by what is in ls after the first k.                      *)
IsCons(ms, V, r, ls, k) ==
    /\ ms \in Seq(V) /\ Len(ms) = 1 + Len(ls) - k /\ ms[1] = r
    /\ \A j \in 2 .. Len(ms) : ms[j] = ls[j + k - 1]

(* What WithMerged makes of the layers: the merged layer, then the layers    *)
(* that it did not merge.                                                    *)
LEMMA ConsRest ==
    ASSUME NEW V, NEW ls \in Seq(V), NEW r \in V, NEW k \in 1 .. Len(ls)
    PROVE  IsCons(<<r>> \o Rest(ls, k), V, r, ls, k)
    BY SMTT(60) DEF Rest, IsCons

(* What WithSaved makes of the layers is the same, for one layer.            *)
LEMMA ConsTail ==
    ASSUME NEW V, NEW ls \in Seq(V), NEW r \in V, ls # <<>>
    PROVE  <<r>> \o Tail(ls) = <<r>> \o Rest(ls, 1)
    BY DEF Rest

(* The first k of a sequence.                                                *)
LEMMA Prefix ==
    ASSUME NEW V, NEW ls \in Seq(V), NEW k \in 0 .. Len(ls)
    PROVE  /\ SubSeq(ls, 1, k) \in Seq(V) /\ Len(SubSeq(ls, 1, k)) = k
           /\ \A j \in 1 .. k : SubSeq(ls, 1, k)[j] = ls[j]
    OBVIOUS

(* Appending changes no element and no slice of what was there.              *)
LEMMA AppendIs ==
    ASSUME NEW V, NEW ls \in Seq(V), NEW x \in V
    PROVE  /\ Append(ls, x) \in Seq(V) /\ Len(Append(ls, x)) = Len(ls) + 1
           /\ Append(ls, x)[Len(ls) + 1] = x
           /\ \A j \in 1 .. Len(ls) : Append(ls, x)[j] = ls[j]
           /\ \A a \in Nat \ {0}, b \in 0 .. Len(ls) :
                SubSeq(Append(ls, x), a, b) = SubSeq(ls, a, b)
    OBVIOUS

(* A slice of the entries is a sequence of entries.                          *)
LEMMA Slice ==
    ASSUME NEW S \in Seq(Nat), NEW b \in Nat, NEW p \in Nat, b <= p, p <= Len(S)
    PROVE  SubSeq(S, b + 1, p) \in Seq(Nat)
    OBVIOUS

(* The btree has the first entries of S, the base layer has the ones up to   *)
(* p, and each later layer has one.                                          *)
Stack(bt, ls, S, p) ==
    /\ Len(bt) <= p /\ p <= Len(S)
    /\ bt = SubSeq(S, 1, Len(bt))
    /\ Len(ls) = 1 + Len(S) - p
    /\ ls[1] = SubSeq(S, Len(bt) + 1, p)
    /\ \A j \in 2 .. Len(ls) : ls[j] = <<S[p + j - 1]>>

(* Overlay.Merge and WithMerged: merging the base layer with the next n      *)
(* gives the entries up to p + n, and the stack is right with them as its    *)
(* base layer.                                                               *)
LEMMA StackMerge ==
    ASSUME NEW bt \in Seq(Nat), NEW ls \in Seq(Seq(Nat)), NEW S \in Seq(Nat), NEW p \in Nat,
           NEW n \in Nat, Stack(bt, ls, S, p), p + n <= Len(S)
    PROVE  /\ Stack(bt, <<SubSeq(S, Len(bt) + 1, p + n)>> \o Rest(ls, n + 1), S, p + n)
           /\ Flatten(SubSeq(ls, 1, n + 1)) = SubSeq(S, Len(bt) + 1, p + n)
<1> DEFINE r == SubSeq(S, Len(bt) + 1, p + n)
           ms == <<r>> \o Rest(ls, n + 1)
           us == SubSeq(ls, 1, n + 1)
<1>1. /\ Len(bt) \in Nat /\ Len(S) \in Nat /\ Len(bt) <= p /\ p <= Len(S)
      /\ Len(ls) = 1 + Len(S) - p /\ n + 1 \in 1 .. Len(ls) /\ n + 1 \in 0 .. Len(ls)
      /\ Len(bt) <= p + n /\ p + n \in Nat
    BY DEF Stack
<1>2. /\ \A j \in 2 .. Len(ls) : ls[j] = <<S[p + j - 1]>>
      /\ bt = SubSeq(S, 1, Len(bt)) /\ ls[1] = SubSeq(S, Len(bt) + 1, p)
    BY Zenon DEF Stack
<1>3. r \in Seq(Nat)
    BY Zenon, <1>1, Slice
<1>4. /\ ms \in Seq(Seq(Nat)) /\ Len(ms) = 1 + Len(ls) - (n + 1) /\ ms[1] = r
      /\ \A j \in 2 .. Len(ms) : ms[j] = ls[j + (n + 1) - 1]
  <2> HIDE DEF r
  <2>1. IsCons(ms, Seq(Nat), r, ls, n + 1)
    BY Zenon, <1>1, <1>3, ConsRest
  <2> HIDE DEF ms
  <2> QED
    BY <2>1, Zenon DEF IsCons
<1>5. us \in Seq(Seq(Nat)) /\ Len(us) = n + 1 /\ \A j \in 1 .. n + 1 : us[j] = ls[j]
    BY <1>1, Prefix, Zenon
<1> HIDE DEF ms, us
<1>6. Stack(bt, ms, S, p + n)
  <2>1. ASSUME NEW j \in 2 .. Len(ms)
        PROVE  ms[j] = <<S[(p + n) + j - 1]>>
    <3>1. /\ j + (n + 1) - 1 \in 2 .. Len(ls)
          /\ p + (j + (n + 1) - 1) - 1 = (p + n) + j - 1
      BY <1>1, <1>4
    <3> QED
      BY <1>2, <1>4, <3>1, Zenon
  <2>2. Len(ms) = 1 + Len(S) - (p + n)
    BY <1>1, <1>4
  <2> QED
    BY <1>1, <1>2, <1>4, <2>1, <2>2, Zenon DEF Stack, r
<1>7. Flatten(us) = r
  <2>1. /\ us # <<>> /\ p + Len(us) - 1 = p + n /\ p + Len(us) - 1 <= Len(S)
        /\ 1 \in 1 .. n + 1
        /\ \A j \in 2 .. Len(us) : j \in 1 .. n + 1 /\ j \in 2 .. Len(ls)
    BY <1>1, <1>5
  <2>2. us[1] = SubSeq(S, Len(bt) + 1, p) /\ \A j \in 2 .. Len(us) : us[j] = <<S[p + j - 1]>>
    BY <1>2, <1>5, <2>1, Zenon
  <2>3. Flatten(us) = SubSeq(S, Len(bt) + 1, p + Len(us) - 1)
    BY <1>1, <1>5, <2>1, <2>2, FlattenSingles, Zenon
  <2> QED
    BY <2>1, <2>3, Zenon DEF r
<1> QED
    BY <1>6, <1>7, Zenon DEF ms, us, r

(* S is split at b and at p.                                                 *)
Joins(S, b, p) ==
    /\ SubSeq(S, 1, b) \o SubSeq(S, b + 1, p) = SubSeq(S, 1, p)
    /\ SubSeq(S, b + 1, p) = <<>> <=> b = p
    /\ Len(SubSeq(S, 1, p)) = p /\ SubSeq(S, p + 1, p) = <<>> /\ p <= p
    /\ SubSeq(S, 1, Len(S)) = S

(* The first b entries and the ones up to p are the first p, and nothing is  *)
(* between them only if b = p.                                               *)
LEMMA Concat ==
    ASSUME NEW S \in Seq(Nat), NEW b \in Nat, NEW p \in Nat, b <= p, p <= Len(S)
    PROVE  Joins(S, b, p)
    BY DEF Joins

(* Overlay.Save and WithSaved: saving the base layer gives the first p       *)
(* entries, and the stack is right with them in the btree.                   *)
LEMMA StackPersist ==
    ASSUME NEW bt \in Seq(Nat), NEW ls \in Seq(Seq(Nat)), NEW S \in Seq(Nat), NEW p \in Nat,
           Stack(bt, ls, S, p)
    PROVE  /\ bt \o ls[1] = SubSeq(S, 1, p)
           /\ Stack(SubSeq(S, 1, p), <<(<<>>)>> \o Tail(ls), S, p)
           /\ (ls[1] = <<>> <=> Len(bt) = p)
<1> DEFINE ms == <<(<<>>)>> \o Tail(ls)
<1>1. /\ Len(bt) \in Nat /\ Len(S) \in Nat /\ Len(bt) <= p /\ p <= Len(S)
      /\ Len(ls) = 1 + Len(S) - p /\ 1 \in 1 .. Len(ls) /\ ls # <<>>
    BY DEF Stack
<1>2. /\ \A j \in 2 .. Len(ls) : ls[j] = <<S[p + j - 1]>>
      /\ bt = SubSeq(S, 1, Len(bt)) /\ ls[1] = SubSeq(S, Len(bt) + 1, p)
    BY Zenon DEF Stack
<1>3. /\ SubSeq(S, 1, Len(bt)) \o SubSeq(S, Len(bt) + 1, p) = SubSeq(S, 1, p)
      /\ (SubSeq(S, Len(bt) + 1, p) = <<>> <=> Len(bt) = p)
      /\ Len(SubSeq(S, 1, p)) = p /\ SubSeq(S, p + 1, p) = <<>> /\ p <= p
  <2>1. Joins(S, Len(bt), p)
    BY <1>1, Concat, Zenon
  <2> QED
    BY <2>1, Zenon DEF Joins
<1>4. <<>> \in Seq(Nat)
    OBVIOUS
<1>5. /\ Len(ms) = 1 + Len(ls) - 1 /\ ms[1] = <<>>
      /\ \A j \in 2 .. Len(ms) : ms[j] = ls[j + 1 - 1]
  <2>1. IsCons(ms, Seq(Nat), <<>>, ls, 1)
    BY Zenon, <1>1, <1>4, ConsTail, ConsRest
  <2> HIDE DEF ms
  <2> QED
    BY <2>1, Zenon DEF IsCons
<1> HIDE DEF ms
<1>6. Len(ms) = 1 + Len(S) - p /\ \A j \in 2 .. Len(ms) :
          j + 1 - 1 = j /\ j \in 2 .. Len(ls)
    BY <1>1, <1>5
<1>7. Stack(SubSeq(S, 1, p), ms, S, p)
    BY <1>1, <1>2, <1>3, <1>5, <1>6, Zenon DEF Stack
<1> QED
    BY <1>2, <1>3, <1>7, Zenon DEF ms

(* The counts that go with a stack: Nrows counts all entries, BtreeNrows the *)
(* ones in the btree, and Deltas the ones of each layer.                     *)
Tally(b, ds, nrows, brows, N, p) ==
    /\ nrows = N /\ brows = b /\ b <= p /\ p <= N
    /\ Len(ds) = 1 + N - p /\ ds[1] = p - b
    /\ \A j \in 2 .. Len(ds) : ds[j] = 1

-----------------------------------------------------------------------------

(* The Overlays, and the Infos.                                              *)
Ovs == [bt : Seq(Nat), layers : Seq(Seq(Nat))]

Infos == [Indexes : Seq(Ovs), Deltas : Seq(Nat), Nrows : Nat, BtreeNrows : Nat]

(* Every index has a layer for each of the Deltas. An index that             *)
(* buildIndexes made may have more.                                          *)
Deep(ixs, n) == \A i \in DOMAIN ixs : Len(ixs[i].layers) >= n

(* The transactions in S wrote the table, and the first p of them have been  *)
(* merged.                                                                   *)
Layered(ti, S, p) ==
    /\ ti \in Infos /\ ti.Indexes # <<>>
    /\ Stack(ti.Indexes[1].bt, ti.Indexes[1].layers, S, p)
    /\ Tally(Len(ti.Indexes[1].bt), ti.Deltas, ti.Nrows, ti.BtreeNrows, Len(S), p)
    /\ Deep(ti.Indexes, Len(ti.Deltas))

(* What merging or saving computed for the indexes of ti. The entries are    *)
(* the ones of the first index.                                              *)
ForIndexes(ti, res, entries) ==
    res[1] = entries /\ \A i \in DOMAIN ti.Indexes : res[i] \in Seq(Nat)

(* A sequence of results, one for each index.                                *)
LEMMA Mapped ==
    ASSUME NEW U, NEW V, NEW s \in Seq(U), NEW f, f = [i \in DOMAIN s |-> f[i]],
           \A i \in DOMAIN s : f[i] \in V
    PROVE  f \in Seq(V) /\ Len(f) = Len(s) /\ DOMAIN f = DOMAIN s
    OBVIOUS

(* The parts of an Overlay.                                                  *)
LEMMA OvTypes ==
    ASSUME NEW ov \in Ovs
    PROVE  ov.bt \in Seq(Nat) /\ ov.layers \in Seq(Seq(Nat))
    BY Zenon DEF Ovs

(* An Info is right if its first index and its counts are.                   *)
LEMMA IsLayered ==
    ASSUME NEW ui, NEW ixs \in Seq(Ovs), NEW ds \in Seq(Nat), NEW nrows \in Nat,
           NEW brows \in Nat, NEW S, NEW p, ixs # <<>>,
           ui = [Indexes |-> ixs, Deltas |-> ds, Nrows |-> nrows, BtreeNrows |-> brows],
           Stack(ixs[1].bt, ixs[1].layers, S, p),
           Tally(Len(ixs[1].bt), ds, nrows, brows, Len(S), p), Deep(ixs, Len(ds))
    PROVE  Layered(ui, S, p)
<1>1. ui.Indexes = ixs /\ ui.Deltas = ds /\ ui.Nrows = nrows /\ ui.BtreeNrows = brows
    BY Zenon
<1>2. ui \in Infos
    BY Zenon DEF Infos
<1> QED
    BY <1>1, <1>2, Zenon DEF Layered

(* What is known of the parts of an Info that is right.                      *)
LEMMA HasLayers ==
    ASSUME NEW ti, NEW S, NEW p, Layered(ti, S, p)
    PROVE  /\ ti.Deltas \in Seq(Nat) /\ ti.Nrows \in Nat /\ ti.BtreeNrows \in Nat
           /\ ti.Indexes \in Seq(Ovs) /\ 1 \in DOMAIN ti.Indexes
           /\ \A i \in DOMAIN ti.Indexes :
                 /\ ti.Indexes[i] \in Ovs /\ ti.Indexes[i].bt \in Seq(Nat)
                 /\ ti.Indexes[i].layers \in Seq(Seq(Nat))
           /\ Stack(ti.Indexes[1].bt, ti.Indexes[1].layers, S, p)
           /\ Tally(Len(ti.Indexes[1].bt), ti.Deltas, ti.Nrows, ti.BtreeNrows, Len(S), p)
           /\ Deep(ti.Indexes, Len(ti.Deltas))
(* The parts of an Info.                                                     *)
<1>InfoTypes. ASSUME NEW ui \in Infos, ui.Indexes # <<>>
              PROVE  /\ ui.Deltas \in Seq(Nat) /\ ui.Nrows \in Nat /\ ui.BtreeNrows \in Nat
                     /\ ui.Indexes \in Seq(Ovs) /\ 1 \in DOMAIN ui.Indexes
                     /\ \A i \in DOMAIN ui.Indexes :
                          /\ ui.Indexes[i] \in Ovs /\ ui.Indexes[i].bt \in Seq(Nat)
                          /\ ui.Indexes[i].layers \in Seq(Seq(Nat))
  <2> USE <1>InfoTypes
  <2>1. /\ ui.Deltas \in Seq(Nat) /\ ui.Nrows \in Nat /\ ui.BtreeNrows \in Nat
        /\ ui.Indexes \in Seq(Ovs)
      BY Zenon DEF Infos
  <2>2. 1 \in DOMAIN ui.Indexes /\ \A i \in DOMAIN ui.Indexes : ui.Indexes[i] \in Ovs
      BY <2>1
  <2> QED
      BY Zenon, <2>1, <2>2, OvTypes
<1> QED
  BY <1>InfoTypes, Zenon DEF Layered

(* Overlay.WithMerged changes the layers only.                               *)
LEMMA WithLayers ==
    ASSUME NEW U, NEW V, NEW ov \in [bt : U, layers : V], NEW ls
    PROVE  [ov EXCEPT !.layers = ls] = [bt |-> ov.bt, layers |-> ls]
    OBVIOUS

(* Overlay.UpdateWith adds one layer on top.                                 *)
LEMMA UpdateWithIs ==
    ASSUME NEW ov \in Ovs, NEW y \in Seq(Nat)
    PROVE  /\ UpdateWith(ov, y) \in Ovs /\ UpdateWith(ov, y).bt = ov.bt
           /\ UpdateWith(ov, y).layers = Append(ov.layers, y)
           /\ Len(UpdateWith(ov, y).layers) = Len(ov.layers) + 1
<1>1. ov.layers \in Seq(Seq(Nat))
    BY Zenon, OvTypes
<1>2. /\ Append(ov.layers, y) \in Seq(Seq(Nat))
      /\ Len(Append(ov.layers, y)) = Len(ov.layers) + 1
    BY <1>1, AppendIs
<1>3. UpdateWith(ov, y) = [bt |-> ov.bt, layers |-> Append(ov.layers, y)]
    BY WithLayers, Zenon DEF UpdateWith, Ovs
<1> QED
    BY <1>2, <1>3 DEF Ovs

(* Meta.LayeredOnto counts the new entry.                                    *)
LEMMA TallyCommit ==
    ASSUME NEW b \in Nat, NEW ds \in Seq(Nat), NEW nrows, NEW brows, NEW N \in Nat,
           NEW p \in Nat, Tally(b, ds, nrows, brows, N, p)
    PROVE  Tally(b, Append(ds, 1), nrows + 1, brows, N + 1, p)
    BY DEF Tally

(* A commit (Meta.LayeredOnto) adds its entry to S, and merges nothing.      *)
LEMMA InfoCommit ==
    ASSUME NEW ti, NEW S \in Seq(Nat), NEW p \in Nat, NEW x \in Nat, Layered(ti, S, p)
    PROVE  Layered(LayeredOnto(ti, x), Append(S, x), p)
(* UpdateWith: a commit adds a layer with one entry on top.                  *)
<1>StackCommit. ASSUME NEW bt \in Seq(Nat), NEW ls \in Seq(Seq(Nat)), Stack(bt, ls, S, p)
                PROVE  Stack(bt, Append(ls, <<x>>), Append(S, x), p)
  <2> USE <1>StackCommit
  (* The number of an entry that was in a layer before another layer was     *)
  (* added.                                                                  *)
  <2>Place. ASSUME NEW l \in Nat, NEW m, NEW k \in Nat, p <= k, l = 1 + k - p,
                   m = l + 1, NEW j \in 2 .. m, j # l + 1
            PROVE  j \in 2 .. l /\ j \in 1 .. l /\ p + j - 1 \in 1 .. k
        BY <2>Place
  <2> DEFINE ms == Append(ls, <<x>>)
             T == Append(S, x)
  <2>1. /\ Len(bt) \in Nat /\ Len(S) \in Nat /\ Len(bt) <= p /\ p <= Len(S)
        /\ Len(ls) = 1 + Len(S) - p
      BY DEF Stack
  <2>2. /\ Len(T) = Len(S) + 1 /\ T[Len(S) + 1] = x
        /\ \A i \in 1 .. Len(S) : T[i] = S[i]
        /\ \A a \in Nat \ {0}, b \in 0 .. Len(S) : SubSeq(T, a, b) = SubSeq(S, a, b)
      BY AppendIs
  <2>3. <<x>> \in Seq(Nat)
      OBVIOUS
  <2>4. /\ Len(ms) = Len(ls) + 1 /\ ms[Len(ls) + 1] = <<x>>
        /\ \A i \in 1 .. Len(ls) : ms[i] = ls[i]
      BY <2>3, AppendIs
  <2> HIDE DEF T, ms
  <2>5. /\ SubSeq(T, 1, Len(bt)) = SubSeq(S, 1, Len(bt))
        /\ SubSeq(T, Len(bt) + 1, p) = SubSeq(S, Len(bt) + 1, p)
    <3>1. /\ 1 \in Nat \ {0} /\ Len(bt) + 1 \in Nat \ {0}
          /\ Len(bt) \in 0 .. Len(S) /\ p \in 0 .. Len(S)
      BY <2>1
    <3> QED
      BY <2>2, <3>1, Zenon
  <2>6. ASSUME NEW j \in 2 .. Len(ms)
        PROVE  ms[j] = <<T[p + j - 1]>>
    <3>1. CASE j = Len(ls) + 1
      <4>1. p + j - 1 = Len(S) + 1
        BY <2>1, <3>1
      <4> QED
        BY <2>2, <2>4, <3>1, <4>1, Zenon
    <3>2. CASE j # Len(ls) + 1
      <4>1. j \in 2 .. Len(ls) /\ j \in 1 .. Len(ls) /\ p + j - 1 \in 1 .. Len(S)
        <5>1. Len(ls) \in Nat
          OBVIOUS
        <5> QED
          BY <2>1, <2>4, <3>2, <5>1, <2>Place, Zenon
      <4> QED
        BY <2>2, <2>4, <4>1, Zenon DEF Stack
    <3> QED
      BY <3>1, <3>2, Zenon
  <2>7. Len(ms) = 1 + Len(T) - p /\ p <= Len(T) /\ ms[1] = ls[1]
      BY <2>1, <2>2, <2>4
  <2>8. Stack(bt, ms, T, p)
      BY <2>1, <2>5, <2>6, <2>7, Zenon DEF Stack
  <2> QED
      BY Zenon, <2>8 DEF ms, T
<1> DEFINE ixs == ti.Indexes
           new == [i \in DOMAIN ixs |-> UpdateWith(ixs[i], <<x>>)]
<1>1. /\ ti.Deltas \in Seq(Nat) /\ ti.Nrows \in Nat /\ ti.BtreeNrows \in Nat
      /\ ixs \in Seq(Ovs) /\ 1 \in DOMAIN ixs /\ \A i \in DOMAIN ixs : ixs[i] \in Ovs
      /\ ixs[1].bt \in Seq(Nat) /\ ixs[1].layers \in Seq(Seq(Nat))
      /\ Stack(ixs[1].bt, ixs[1].layers, S, p) /\ Deep(ixs, Len(ti.Deltas))
      /\ Tally(Len(ixs[1].bt), ti.Deltas, ti.Nrows, ti.BtreeNrows, Len(S), p)
    BY HasLayers, Zenon
<1>2. LayeredOnto(ti, x) = [Indexes |-> new, Deltas |-> Append(ti.Deltas, 1),
                            Nrows |-> ti.Nrows + 1, BtreeNrows |-> ti.BtreeNrows]
    BY Zenon DEF LayeredOnto
<1> HIDE DEF ixs
<1>3. new = [i \in DOMAIN ixs |-> new[i]]
    BY Zenon
<1>4. <<x>> \in Seq(Nat) /\ Len(Append(S, x)) = Len(S) + 1
    OBVIOUS
<1>5. \A i \in DOMAIN ixs :
             /\ new[i] \in Ovs /\ new[i].bt = ixs[i].bt
             /\ new[i].layers = Append(ixs[i].layers, <<x>>)
             /\ Len(new[i].layers) = Len(ixs[i].layers) + 1
    BY Zenon, <1>1, <1>4, UpdateWithIs
<1> HIDE DEF new
<1>6. new \in Seq(Ovs) /\ DOMAIN new = DOMAIN ixs
    BY <1>1, <1>3, <1>5, Mapped, Zenon
<1>7. new # <<>>
    BY <1>1, <1>6
<1>8. Append(ti.Deltas, 1) \in Seq(Nat) /\ Len(Append(ti.Deltas, 1)) = Len(ti.Deltas) + 1
      /\ ti.Nrows + 1 \in Nat /\ Len(ixs[1].bt) \in Nat /\ Len(S) \in Nat
    BY <1>1
<1>9. Stack(new[1].bt, new[1].layers, Append(S, x), p)
    BY <1>1, <1>5, <1>StackCommit, Zenon
<1>10. Tally(Len(new[1].bt), Append(ti.Deltas, 1), ti.Nrows + 1, ti.BtreeNrows,
             Len(Append(S, x)), p)
  <2>1. Tally(Len(ixs[1].bt), Append(ti.Deltas, 1), ti.Nrows + 1, ti.BtreeNrows, Len(S) + 1, p)
    BY Zenon, <1>1, <1>8, TallyCommit
  <2> QED
    BY <1>1, <1>4, <1>5, <2>1, Zenon
<1>11. Deep(new, Len(Append(ti.Deltas, 1)))
  <2>1. ASSUME NEW i \in DOMAIN ixs
        PROVE  Len(new[i].layers) >= Len(ti.Deltas) + 1
    <3>1. /\ Len(new[i].layers) = Len(ixs[i].layers) + 1 /\ Len(ixs[i].layers) >= Len(ti.Deltas)
          /\ ixs[i].layers \in Seq(Seq(Nat))
      BY <1>1, <1>5, OvTypes, Zenon DEF Deep
    <3> QED
      BY <1>1, <3>1
  <2> QED
    BY <1>6, <1>8, <2>1, Zenon DEF Deep
<1> QED
    BY <1>1, <1>2, <1>6, <1>7, <1>8, <1>9, <1>10, <1>11, IsLayered, Zenon

(* Merging as many layers as there are transactions after p that are to be   *)
(* merged does not run out of layers, and gives their entries.               *)
LEMMA Mergeable ==
    ASSUME NEW ti, NEW S \in Seq(Nat), NEW p \in Nat, NEW n \in Nat, Layered(ti, S, p),
           p + n <= Len(S)
    PROVE  /\ CanMerge(ti, n)
           /\ DOMAIN MergeResults(ti, n) = DOMAIN ti.Indexes
           /\ \A i \in DOMAIN ti.Indexes : MergeResults(ti, n)[i] \in Seq(Nat)
           /\ MergeResults(ti, n)[1] = SubSeq(S, Len(ti.Indexes[1].bt) + 1, p + n)
<1> DEFINE ixs == ti.Indexes
<1>1. /\ ti.Deltas \in Seq(Nat)
      /\ ixs \in Seq(Ovs) /\ 1 \in DOMAIN ixs
      /\ ixs[1].bt \in Seq(Nat) /\ ixs[1].layers \in Seq(Seq(Nat))
      /\ Stack(ixs[1].bt, ixs[1].layers, S, p) /\ Deep(ixs, Len(ti.Deltas))
      /\ Tally(Len(ixs[1].bt), ti.Deltas, ti.Nrows, ti.BtreeNrows, Len(S), p)
    BY HasLayers, Zenon
<1>2. \A i \in DOMAIN ixs : ixs[i].layers \in Seq(Seq(Nat))
    BY HasLayers, Zenon
<1>3. Len(ti.Deltas) > n /\ Len(ti.Deltas) \in Nat /\ n + 1 \in Nat
    BY SMTT(60), <1>1 DEF Tally
<1> HIDE DEF ixs
<1>4. ASSUME NEW i \in DOMAIN ixs
      PROVE  Len(ixs[i].layers) > n /\ n + 1 \in 0 .. Len(ixs[i].layers)
  <2>1. Len(ixs[i].layers) >= Len(ti.Deltas) /\ ixs[i].layers \in Seq(Seq(Nat))
    BY <1>1, <1>2, Zenon DEF Deep
  <2> QED
    BY <1>3, <2>1
<1>5. ASSUME NEW i \in DOMAIN ixs
      PROVE  Flatten(SubSeq(ixs[i].layers, 1, n + 1)) \in Seq(Nat)
  <2> DEFINE ls == SubSeq(ixs[i].layers, 1, n + 1)
  <2>1. ls \in Seq(Seq(Nat))
    BY <1>2, <1>4, Prefix, Zenon
  <2> HIDE DEF ls
  <2>2. PICK f \in [0 .. Len(ls) -> Seq(Nat)] : Flatten(ls) = f[Len(ls)]
    BY <2>1, FlattenIs, Zenon
  <2>3. Len(ls) \in 0 .. Len(ls)
    BY <2>1
  <2>4. Flatten(ls) \in Seq(Nat)
    BY Zenon, <2>2, <2>3
  <2> QED
    BY Zenon, <2>4 DEF ls
<1>6. MergeResults(ti, n) = [i \in DOMAIN ixs |-> Flatten(SubSeq(ixs[i].layers, 1, n + 1))]
    BY Zenon DEF MergeResults, ixs
<1>7. CanMerge(ti, n)
    BY Zenon, <1>3, <1>4 DEF CanMerge, ixs
<1>8. Flatten(SubSeq(ixs[1].layers, 1, n + 1)) = SubSeq(S, Len(ixs[1].bt) + 1, p + n)
    BY <1>1, StackMerge, Zenon
<1> QED
    BY Zenon, <1>1, <1>5, <1>6, <1>7, <1>8 DEF ixs

(* Applying a merge (MergeUpdate.Apply1 and Apply2) merges n more            *)
(* transactions and loses no layer of a later one.                           *)
LEMMA InfoMerge ==
    ASSUME NEW ti, NEW S \in Seq(Nat), NEW p \in Nat, NEW n \in Nat, Layered(ti, S, p),
           p + n <= Len(S), NEW res,
           ForIndexes(ti, res, SubSeq(S, Len(ti.Indexes[1].bt) + 1, p + n))
    PROVE  /\ Layered(ApplyMerge(ti, n, res), S, p + n)
           /\ DOMAIN ApplyMerge(ti, n, res).Indexes = DOMAIN ti.Indexes
           /\ Len(ApplyMerge(ti, n, res).Deltas) <= Len(ti.Deltas)
(* MergeUpdate.Apply1 adds the Deltas of the layers that it merges.          *)
<1>TallyMerge. ASSUME NEW b \in Nat, NEW ds \in Seq(Nat), NEW nrows, NEW brows, NEW N \in Nat,
                      Tally(b, ds, nrows, brows, N, p), p + n <= N
               PROVE  /\ Tally(b, <<SumSeq(SubSeq(ds, 1, n + 1))>> \o Rest(ds, n + 1), nrows, brows,
                                N, p + n)
                      /\ <<SumSeq(SubSeq(ds, 1, n + 1))>> \o Rest(ds, n + 1) \in Seq(Nat)
  <2> USE <1>TallyMerge
  <2> DEFINE us == SubSeq(ds, 1, n + 1)
             r == SumSeq(us)
             ms == <<r>> \o Rest(ds, n + 1)
  <2>1. /\ nrows = N /\ brows = b /\ b <= p /\ p <= N
        /\ Len(ds) = 1 + N - p /\ ds[1] = p - b /\ n + 1 \in 0 .. Len(ds) /\ n + 1 \in 1 .. Len(ds)
        /\ Len(ds) \in Nat
      BY DEF Tally
  <2>2. \A j \in 2 .. Len(ds) : ds[j] = 1
      BY Zenon DEF Tally
  <2>3. us \in Seq(Nat) /\ Len(us) = n + 1 /\ \A j \in 1 .. n + 1 : us[j] = ds[j]
      BY <2>1, Prefix, Zenon
  <2> HIDE DEF us
  <2>4. r = us[1] + Len(us) - 1
    <3>1. us # <<>> /\ \A j \in 2 .. Len(us) : j \in 1 .. n + 1 /\ j \in 2 .. Len(ds)
      BY <2>1, <2>3
    <3>2. \A j \in 2 .. Len(us) : us[j] = 1
      BY <2>2, <2>3, <3>1, Zenon
    <3> QED
      BY <2>3, <3>1, <3>2, SumOnes, Zenon
  <2> HIDE DEF r
  <2>5. r = (p + n) - b /\ r \in Nat
    <3>1. 1 \in 1 .. n + 1
      OBVIOUS
    <3>2. us[1] = p - b
      BY Zenon, <2>1, <2>3, <3>1
    <3> QED
      BY <2>1, <2>3, <2>4, <3>2
  <2>6. /\ ms \in Seq(Nat) /\ Len(ms) = 1 + Len(ds) - (n + 1) /\ ms[1] = r
        /\ \A j \in 2 .. Len(ms) : ms[j] = ds[j + (n + 1) - 1]
    <3>1. IsCons(ms, Nat, r, ds, n + 1)
      BY Zenon, <2>1, <2>5, ConsRest
    <3> HIDE DEF ms
    <3> QED
      BY <3>1, Zenon DEF IsCons
  <2> HIDE DEF ms
  <2>7. /\ Len(ms) = 1 + N - (p + n)
        /\ \A j \in 2 .. Len(ms) : j + (n + 1) - 1 \in 2 .. Len(ds)
      BY <2>1, <2>6
  <2>8. \A j \in 2 .. Len(ms) : ms[j] = 1
      BY <2>2, <2>6, <2>7, Zenon
  <2>9. Tally(b, ms, nrows, brows, N, p + n)
      BY <2>1, <2>5, <2>6, <2>7, <2>8 DEF Tally
  <2> QED
      BY <2>6, <2>9, Zenon DEF ms, r, us
<1> DEFINE ixs == ti.Indexes
           NewLayers(i) == <<res[i]>> \o Rest(ixs[i].layers, n + 1)
           ds == <<SumSeq(SubSeq(ti.Deltas, 1, n + 1))>> \o Rest(ti.Deltas, n + 1)
           new == [i \in DOMAIN ixs |-> [ixs[i] EXCEPT !.layers = NewLayers(i)]]
           ui == ApplyMerge(ti, n, res)
<1> /\ \A i \in DOMAIN ti.Indexes : res[i] \in Seq(Nat)
    /\ res[1] = SubSeq(S, Len(ti.Indexes[1].bt) + 1, p + n)
    BY Zenon DEF ForIndexes
<1>1. /\ ti.Deltas \in Seq(Nat) /\ ti.Nrows \in Nat /\ ti.BtreeNrows \in Nat
      /\ ixs \in Seq(Ovs) /\ 1 \in DOMAIN ixs /\ \A i \in DOMAIN ixs : ixs[i] \in Ovs
      /\ ixs[1].bt \in Seq(Nat) /\ ixs[1].layers \in Seq(Seq(Nat))
      /\ Stack(ixs[1].bt, ixs[1].layers, S, p) /\ Deep(ixs, Len(ti.Deltas))
      /\ Tally(Len(ixs[1].bt), ti.Deltas, ti.Nrows, ti.BtreeNrows, Len(S), p)
    BY HasLayers, Zenon
<1>3. ui = [Indexes |-> new, Deltas |-> ds, Nrows |-> ti.Nrows, BtreeNrows |-> ti.BtreeNrows]
    BY Zenon DEF ApplyMerge
<1> HIDE DEF ui
<1>4. Len(ti.Deltas) = 1 + Len(S) - p /\ Len(ti.Deltas) \in Nat /\ Len(S) \in Nat /\ n + 1 \in Nat
      /\ Len(ti.Deltas) >= n + 1 /\ Len(ixs[1].bt) \in Nat
  <2>1. /\ Len(ti.Deltas) = 1 + Len(S) - p /\ Len(S) \in Nat /\ Len(ti.Deltas) \in Nat
        /\ Len(ixs[1].bt) \in Nat
    BY <1>1 DEF Tally
  <2> HIDE DEF ixs
  <2> QED
    BY <2>1
<1>5. /\ Tally(Len(ixs[1].bt), ds, ti.Nrows, ti.BtreeNrows, Len(S), p + n) /\ ds \in Seq(Nat)
    BY <1>1, <1>4, <1>TallyMerge, Zenon
<1> HIDE DEF ds
<1>6. Len(ds) = 1 + Len(S) - (p + n)
    BY Zenon, <1>5 DEF Tally
<1>7. ASSUME NEW i \in DOMAIN ixs
      PROVE  /\ new[i] = [bt |-> ixs[i].bt, layers |-> NewLayers(i)]
             /\ NewLayers(i) \in Seq(Seq(Nat)) /\ Len(NewLayers(i)) >= Len(ds)
  <2>1. ixs[i] \in [bt : Seq(Nat), layers : Seq(Seq(Nat))]
    BY Zenon, <1>1 DEF Ovs
  <2>2. /\ ixs[i].layers \in Seq(Seq(Nat)) /\ Len(ixs[i].layers) >= Len(ti.Deltas)
        /\ res[i] \in Seq(Nat)
    BY <1>1, <2>1, Zenon DEF Deep
  <2>3. n + 1 \in 1 .. Len(ixs[i].layers)
    <3>1. Len(ixs[i].layers) \in Nat
      BY <2>2
    <3> HIDE DEF ixs
    <3> QED
      BY SMTT(60), <1>4, <2>2, <3>1
  <2>4. IsCons(NewLayers(i), Seq(Nat), res[i], ixs[i].layers, n + 1)
    BY <2>2, <2>3, ConsRest, Zenon
  <2> HIDE DEF NewLayers
  <2>5. NewLayers(i) \in Seq(Seq(Nat)) /\ Len(NewLayers(i)) = 1 + Len(ixs[i].layers) - (n + 1)
    BY <2>4, Zenon DEF IsCons
  <2>6. Len(NewLayers(i)) >= Len(ds)
    BY <1>4, <1>6, <2>2, <2>5
  <2>7. new[i] = [ixs[i] EXCEPT !.layers = NewLayers(i)]
    BY Zenon
  <2> QED
    BY <2>1, <2>5, <2>6, <2>7, WithLayers, Zenon
<1>8. new = [i \in DOMAIN ixs |-> new[i]]
    BY Zenon
<1> HIDE DEF new, NewLayers
<1>9. \A i \in DOMAIN ixs : /\ new[i] \in Ovs /\ new[i].bt = ixs[i].bt
                            /\ new[i].layers = NewLayers(i)
  <2> TAKE i \in DOMAIN ixs
  <2>1. /\ new[i] = [bt |-> ixs[i].bt, layers |-> NewLayers(i)]
        /\ NewLayers(i) \in Seq(Seq(Nat)) /\ ixs[i].bt \in Seq(Nat)
    BY <1>1, <1>7, OvTypes, Zenon
  <2> QED
    BY <2>1 DEF Ovs
<1>10. new \in Seq(Ovs) /\ DOMAIN new = DOMAIN ixs
  <2> HIDE DEF ixs
  <2> QED
    BY <1>1, <1>8, <1>9, Mapped, Zenon
<1>11. new # <<>>
    BY <1>1, <1>10
<1>12. Stack(new[1].bt, new[1].layers, S, p + n)
  <2>1. Stack(ixs[1].bt, NewLayers(1), S, p + n)
    BY <1>1, StackMerge, Zenon DEF NewLayers
  <2> QED
    BY <1>1, <1>9, <2>1, Zenon
<1>13. Tally(Len(new[1].bt), ds, ti.Nrows, ti.BtreeNrows, Len(S), p + n)
    BY <1>1, <1>5, <1>9, Zenon
<1>14. Deep(new, Len(ds))
    BY <1>7, <1>9, <1>10, Zenon DEF Deep
<1>15. Layered(ui, S, p + n)
    BY <1>1, <1>3, <1>5, <1>10, <1>11, <1>12, <1>13, <1>14, IsLayered, Zenon
<1>16. ui.Indexes = new /\ ui.Deltas = ds
    BY Zenon, <1>3
<1>17. Len(ds) <= Len(ti.Deltas)
    BY <1>4, <1>6
<1> QED
    BY <1>10, <1>15, <1>16, <1>17, Zenon DEF ui

(* What is read from an Info that is right: a reader finds all of S, the     *)
(* counts add up, saving gives the first p entries, and if the base layer is *)
(* empty the btree has them.                                                 *)
LEMMA InfoReads ==
    ASSUME NEW ti, NEW S \in Seq(Nat), NEW p \in Nat, Layered(ti, S, p)
    PROVE  /\ Entries(ti.Indexes[1]) = S /\ ti.Nrows = Len(S)
           /\ ti.BtreeNrows + SumSeq(ti.Deltas) = ti.Nrows
           /\ Len(ti.Indexes[1].layers) = Len(ti.Deltas)
           /\ Len(ti.Deltas) = 1 + Len(S) - p
           /\ SaveResults(ti)[1] = SubSeq(S, 1, p)
           /\ DOMAIN SaveResults(ti) = DOMAIN ti.Indexes
           /\ \A i \in DOMAIN ti.Indexes : SaveResults(ti)[i] \in Seq(Nat)
           /\ (~Modified(ti) => ti.Indexes[1].bt = SubSeq(S, 1, p) /\ ti.BtreeNrows = p)
(* A reader, who looks in the btree and in every layer, finds all of S.      *)
<1>StackEntries. ASSUME NEW bt \in Seq(Nat), NEW ls \in Seq(Seq(Nat)), Stack(bt, ls, S, p)
                 PROVE  bt \o Flatten(ls) = S
  <2> USE <1>StackEntries
  <2>1. /\ Len(bt) \in Nat /\ Len(S) \in Nat /\ Len(bt) <= p /\ p <= Len(S)
        /\ Len(ls) = 1 + Len(S) - p
      BY DEF Stack
  <2>2. /\ bt = SubSeq(S, 1, Len(bt)) /\ ls[1] = SubSeq(S, Len(bt) + 1, p)
        /\ \A j \in 2 .. Len(ls) : ls[j] = <<S[p + j - 1]>>
      BY Zenon DEF Stack
  <2>3. /\ p + Len(ls) - 1 = Len(S) /\ p + Len(ls) - 1 <= Len(S) /\ ls # <<>>
        /\ Len(bt) <= Len(S) /\ Len(S) <= Len(S)
      BY <2>1
  <2>4. Flatten(ls) = SubSeq(S, Len(bt) + 1, p + Len(ls) - 1)
      BY <2>1, <2>2, <2>3, FlattenSingles, Zenon
  <2>5. /\ SubSeq(S, 1, Len(bt)) \o SubSeq(S, Len(bt) + 1, Len(S)) = SubSeq(S, 1, Len(S))
        /\ SubSeq(S, 1, Len(S)) = S
    <3>1. Joins(S, Len(bt), Len(S))
      BY <2>1, <2>3, Concat, Zenon
    <3> QED
      BY <3>1, Zenon DEF Joins
  <2> QED
      BY <2>2, <2>3, <2>4, <2>5, Zenon
(* The check of Info: BtreeNrows and the Deltas add up to Nrows.             *)
<1>TallySum. ASSUME NEW b \in Nat, NEW ds \in Seq(Nat), NEW nrows, NEW brows, NEW N \in Nat,
                    Tally(b, ds, nrows, brows, N, p)
             PROVE  brows + SumSeq(ds) = nrows
  <2> USE <1>TallySum
  <2>1. nrows = N /\ brows = b /\ b <= p /\ p <= N /\ Len(ds) = 1 + N - p /\ ds[1] = p - b
      BY Zenon DEF Tally
  <2>2. ds # <<>> /\ \A j \in 2 .. Len(ds) : ds[j] = 1
      BY <2>1 DEF Tally
  <2>3. SumSeq(ds) = ds[1] + Len(ds) - 1
      BY <2>2, SumOnes, Zenon
  <2> QED
      BY <2>1, <2>3
<1> DEFINE ixs == ti.Indexes
           bt == ixs[1].bt
           ls == ixs[1].layers
<1>1. /\ ti.Deltas \in Seq(Nat) /\ ti.Nrows \in Nat /\ ti.BtreeNrows \in Nat
      /\ ixs \in Seq(Ovs) /\ 1 \in DOMAIN ixs
      /\ bt \in Seq(Nat) /\ ls \in Seq(Seq(Nat))
      /\ Stack(bt, ls, S, p) /\ Deep(ixs, Len(ti.Deltas))
      /\ Tally(Len(bt), ti.Deltas, ti.Nrows, ti.BtreeNrows, Len(S), p)
    BY HasLayers, Zenon
<1>2. \A i \in DOMAIN ixs : ixs[i].bt \in Seq(Nat) /\ ixs[i].layers \in Seq(Seq(Nat))
    BY HasLayers, Zenon
<1> HIDE DEF ixs, bt, ls
<1>3. bt \o Flatten(ls) = S
    BY <1>1, <1>StackEntries, Zenon
<1>4. Len(bt) \in Nat /\ Len(S) \in Nat /\ Len(ti.Deltas) \in Nat
    BY <1>1
<1>5. ti.BtreeNrows + SumSeq(ti.Deltas) = ti.Nrows
    BY <1>1, <1>4, <1>TallySum, Zenon
<1>6. /\ ti.Nrows = Len(S) /\ Len(ti.Deltas) = 1 + Len(S) - p /\ Len(ls) = 1 + Len(S) - p
      /\ ti.BtreeNrows = Len(bt) /\ p <= Len(S) /\ bt = SubSeq(S, 1, Len(bt))
    BY <1>1, Zenon DEF Tally, Stack
<1>7. bt \o ls[1] = SubSeq(S, 1, p) /\ (ls[1] = <<>> <=> Len(bt) = p)
    BY <1>1, StackPersist, Zenon
<1>8. SaveResults(ti) = [i \in DOMAIN ixs |-> ixs[i].bt \o ixs[i].layers[1]]
    BY Zenon DEF SaveResults, ixs
<1>9. ASSUME NEW i \in DOMAIN ixs
      PROVE  ixs[i].bt \o ixs[i].layers[1] \in Seq(Nat)
  <2>1. Len(ixs[i].layers) >= Len(ti.Deltas) /\ Len(ixs[i].layers) \in Nat
    BY <1>1, <1>2 DEF Deep
  <2>2. Len(ti.Deltas) >= 1
    BY <1>4, <1>6
  <2>3. 1 \in 1 .. Len(ixs[i].layers)
    BY <1>4, <2>1, <2>2
  <2>4. ixs[i].layers[1] \in Seq(Nat)
    BY <1>2, <2>3
  <2> QED
    BY <1>2, <2>4
<1>10. Modified(ti) <=> ls[1] # <<>>
    BY Zenon DEF Modified, ls, ixs
<1>11. Entries(ti.Indexes[1]) = S
    BY Zenon, <1>3 DEF Entries, bt, ls, ixs
<1>12. ~Modified(ti) => bt = SubSeq(S, 1, p) /\ ti.BtreeNrows = p
    BY <1>6, <1>7, <1>10, Zenon
<1>13. SaveResults(ti)[1] = SubSeq(S, 1, p)
    BY <1>1, <1>7, <1>8, Zenon DEF bt, ls
<1> QED
    BY <1>5, <1>6, <1>8, <1>9, <1>11, <1>12, <1>13, Zenon DEF bt, ls, ixs

(* Applying a persist (PersistUpdate.Apply1 and Apply2) leaves S and p as    *)
(* they are, with an empty base layer.                                       *)
LEMMA InfoPersist ==
    ASSUME NEW ti, NEW S \in Seq(Nat), NEW p \in Nat, Layered(ti, S, p),
           NEW res, ForIndexes(ti, res, SubSeq(S, 1, p))
    PROVE  /\ Layered(ApplyPersist(ti, res), S, p)
           /\ ~Modified(ApplyPersist(ti, res))
           /\ DOMAIN ApplyPersist(ti, res).Indexes = DOMAIN ti.Indexes
(* PersistUpdate.Apply1 moves the first of the Deltas to BtreeNrows.         *)
<1>TallyPersist. ASSUME NEW b \in Nat, NEW ds \in Seq(Nat), NEW nrows, NEW brows, NEW N \in Nat,
                        Tally(b, ds, nrows, brows, N, p)
                 PROVE  /\ Tally(p, <<0>> \o Tail(ds), nrows, brows + ds[1], N, p)
                        /\ <<0>> \o Tail(ds) \in Seq(Nat)
      BY <1>TallyPersist DEF Tally
<1> DEFINE ixs == ti.Indexes
           NewLayers(i) == <<(<<>>)>> \o Tail(ixs[i].layers)
           ds == <<0>> \o Tail(ti.Deltas)
           new == [i \in DOMAIN ixs |-> [bt |-> res[i], layers |-> NewLayers(i)]]
           ui == ApplyPersist(ti, res)
<1> res[1] = SubSeq(S, 1, p) /\ \A i \in DOMAIN ti.Indexes : res[i] \in Seq(Nat)
    BY Zenon DEF ForIndexes
<1>1. /\ ti.Deltas \in Seq(Nat) /\ ti.Nrows \in Nat /\ ti.BtreeNrows \in Nat
      /\ ixs \in Seq(Ovs) /\ 1 \in DOMAIN ixs /\ \A i \in DOMAIN ixs : ixs[i] \in Ovs
      /\ ixs[1].bt \in Seq(Nat) /\ ixs[1].layers \in Seq(Seq(Nat))
      /\ Stack(ixs[1].bt, ixs[1].layers, S, p) /\ Deep(ixs, Len(ti.Deltas))
      /\ Tally(Len(ixs[1].bt), ti.Deltas, ti.Nrows, ti.BtreeNrows, Len(S), p)
    BY HasLayers, Zenon
<1>2. ui = [Indexes |-> new, Deltas |-> ds, Nrows |-> ti.Nrows,
            BtreeNrows |-> ti.BtreeNrows + ti.Deltas[1]]
    BY Zenon DEF ApplyPersist
<1> HIDE DEF ui, ixs
<1>3. /\ Len(ti.Deltas) = 1 + Len(S) - p /\ p <= Len(S) /\ Len(S) \in Nat
      /\ ti.Deltas # <<>> /\ Len(ixs[1].bt) \in Nat
    BY <1>1 DEF Tally
<1>4. Len(ti.Deltas) \in Nat /\ Len(ti.Deltas) >= 1 /\ ti.Deltas[1] \in Nat
  <2> SUFFICES ASSUME NEW ds0 \in Seq(Nat), ds0 # <<>>
               PROVE  Len(ds0) \in Nat /\ Len(ds0) >= 1 /\ ds0[1] \in Nat
    BY <1>1, <1>3, Zenon
  <2> QED
    OBVIOUS
<1>5. /\ Tally(p, ds, ti.Nrows, ti.BtreeNrows + ti.Deltas[1], Len(S), p) /\ ds \in Seq(Nat)
    BY <1>1, <1>3, <1>TallyPersist, Zenon
<1>6. ti.BtreeNrows + ti.Deltas[1] \in Nat
    BY SMTT(60), <1>1, <1>4
<1>7. Len(ds) = Len(ti.Deltas)
    BY <1>1, <1>3
<1> HIDE DEF ds
<1>8. ASSUME NEW i \in DOMAIN ixs
      PROVE  /\ NewLayers(i) \in Seq(Seq(Nat)) /\ Len(NewLayers(i)) >= Len(ds)
             /\ NewLayers(i)[1] = <<>> /\ res[i] \in Seq(Nat)
  <2>1. ixs[i].layers \in Seq(Seq(Nat)) /\ Len(ixs[i].layers) >= Len(ti.Deltas)
    BY <1>1, OvTypes, Zenon DEF Deep
  <2>2. Len(ixs[i].layers) \in Nat
    BY <2>1
  <2>3. 1 \in 1 .. Len(ixs[i].layers) /\ Len(ixs[i].layers) # 0
    BY <1>4, <2>1, <2>2
  <2>4. ixs[i].layers # <<>> /\ <<>> \in Seq(Nat)
    BY <2>3
  <2>5. IsCons(NewLayers(i), Seq(Nat), <<>>, ixs[i].layers, 1)
    BY Zenon, <2>1, <2>3, <2>4, ConsTail, ConsRest
  <2> HIDE DEF NewLayers
  <2>6. /\ NewLayers(i) \in Seq(Seq(Nat)) /\ Len(NewLayers(i)) = 1 + Len(ixs[i].layers) - 1
        /\ NewLayers(i)[1] = <<>>
    BY <2>5, Zenon DEF IsCons
  <2>7. Len(NewLayers(i)) >= Len(ds)
    BY <1>7, <2>1, <2>2, <2>6
  <2> QED
    BY <2>6, <2>7, Zenon DEF ixs
<1>9. new = [i \in DOMAIN ixs |-> new[i]]
    BY Zenon
<1>10. \A i \in DOMAIN ixs : new[i].bt = res[i] /\ new[i].layers = NewLayers(i)
    BY Zenon
<1>11. \A i \in DOMAIN ixs : new[i] \in Ovs
    BY Zenon, <1>8 DEF Ovs
<1> HIDE DEF new, NewLayers
<1>12. new \in Seq(Ovs) /\ DOMAIN new = DOMAIN ixs
    BY <1>1, <1>9, <1>11, Mapped, Zenon
<1>13. new # <<>>
    BY <1>1, <1>12
<1>14. Stack(new[1].bt, new[1].layers, S, p)
  <2>1. Stack(SubSeq(S, 1, p), NewLayers(1), S, p)
    BY <1>1, StackPersist DEF NewLayers
  <2> QED
    BY <1>1, <1>10, <2>1, Zenon
<1>15. Tally(Len(new[1].bt), ds, ti.Nrows, ti.BtreeNrows + ti.Deltas[1], Len(S), p)
  <2>1. Len(new[1].bt) = p
    BY <1>1, <1>3, <1>10
  <2> QED
    BY <1>5, <2>1, Zenon
<1>16. Deep(new, Len(ds))
    BY <1>8, <1>10, <1>12, Zenon DEF Deep
<1>17. Layered(ui, S, p)
    BY <1>1, <1>2, <1>5, <1>6, <1>12, <1>13, <1>14, <1>15, <1>16, IsLayered, Zenon
<1>18. ui.Indexes = new
    BY Zenon, <1>2
<1>19. ~Modified(ui)
    BY <1>1, <1>8, <1>10, <1>18, Zenon DEF Modified
<1> QED
    BY <1>12, <1>17, <1>18, <1>19, Zenon DEF ui, ixs

(* A new Overlay has its entries in the btree, and empty layers.             *)
LEMMA OverlayIs ==
    ASSUME NEW bt \in Seq(Nat), NEW n \in Nat
    PROVE  /\ Overlay(bt, n) \in Ovs /\ Overlay(bt, n).bt = bt
           /\ Len(Overlay(bt, n).layers) = n
           /\ (n = 1 => Stack(bt, Overlay(bt, 1).layers, bt, Len(bt))
                        /\ Overlay(bt, 1).layers = <<(<<>>)>>)
<1>1. [i \in 1 .. n |-> <<>>] \in Seq(Seq(Nat)) /\ Len([i \in 1 .. n |-> <<>>]) = n
    OBVIOUS
<1>2. Overlay(bt, n).bt = bt /\ Overlay(bt, n).layers = [i \in 1 .. n |-> <<>>]
    BY Zenon DEF Overlay
<1>3. Overlay(bt, n) \in Ovs
    BY Zenon, <1>1 DEF Overlay, Ovs
<1>4. Overlay(bt, 1).layers = <<(<<>>)>>
    BY DEF Overlay
<1>5. Stack(bt, <<(<<>>)>>, bt, Len(bt))
    BY DEF Stack
<1> QED
    BY Zenon, <1>1, <1>2, <1>3, <1>4, <1>5

(* What is written to the file and read back (Info.Write, ReadInfo) has the  *)
(* transactions that were merged, if they have been saved.                   *)
LEMMA InfoWritten ==
    ASSUME NEW ti, NEW S \in Seq(Nat), NEW p \in Nat, Layered(ti, S, p), ~Modified(ti),
           p <= Len(S)
    PROVE  /\ Layered(Written(ti), SubSeq(S, 1, p), p)
           /\ DOMAIN Written(ti).Indexes = DOMAIN ti.Indexes
           /\ ~Modified(Written(ti))
<1> DEFINE ixs == ti.Indexes
           new == [i \in DOMAIN ixs |-> Overlay(ixs[i].bt, 1)]
           ui == Written(ti)
           T == SubSeq(S, 1, p)
<1>1. /\ ti.BtreeNrows \in Nat
      /\ ixs \in Seq(Ovs) /\ 1 \in DOMAIN ixs /\ \A i \in DOMAIN ixs : ixs[i].bt \in Seq(Nat)
    BY HasLayers, Zenon
<1>2. ixs[1].bt = T /\ ti.BtreeNrows = p
    BY InfoReads, Zenon
<1>3. ui = [Indexes |-> new, Deltas |-> <<0>>, Nrows |-> ti.BtreeNrows,
            BtreeNrows |-> ti.BtreeNrows]
    BY Zenon DEF Written
<1>4. T \in Seq(Nat) /\ Len(T) = p
    OBVIOUS
<1> HIDE DEF ui, ixs, T
<1>5. new = [i \in DOMAIN ixs |-> new[i]]
    BY Zenon
<1>6. \A i \in DOMAIN ixs : /\ new[i] \in Ovs /\ new[i].bt = ixs[i].bt
                            /\ Len(new[i].layers) = 1
    BY Zenon, <1>1, OverlayIs
<1>7. new[1] = Overlay(T, 1)
    BY Zenon, <1>1, <1>2
<1> HIDE DEF new
<1>8. new \in Seq(Ovs) /\ DOMAIN new = DOMAIN ixs
    BY <1>1, <1>5, <1>6, Mapped, Zenon
<1>9. new # <<>>
    BY <1>1, <1>8
<1>10. /\ Stack(new[1].bt, new[1].layers, T, p) /\ new[1].layers = <<(<<>>)>>
       /\ new[1].bt = T
    BY <1>4, <1>7, OverlayIs
<1>11. <<0>> \in Seq(Nat) /\ Len(<<0>>) = 1
    OBVIOUS
<1>12. Tally(p, <<0>>, p, p, p, p)
    BY DEF Tally
<1>13. Deep(new, Len(<<0>>))
  <2>1. 1 >= 1
    OBVIOUS
  <2> QED
    BY <1>6, <1>8, <1>11, <2>1, Zenon DEF Deep
<1>14. Tally(Len(new[1].bt), <<0>>, ti.BtreeNrows, ti.BtreeNrows, Len(T), p)
    BY <1>2, <1>4, <1>10, <1>12, Zenon
<1>15. Layered(ui, T, p)
    BY <1>1, <1>3, <1>8, <1>9, <1>10, <1>11, <1>13, <1>14, IsLayered, Zenon
<1>16. ui.Indexes = new
    BY Zenon, <1>3
<1>17. ~Modified(ui)
    BY <1>10, <1>16 DEF Modified
<1> QED
    BY <1>8, <1>15, <1>16, <1>17, Zenon DEF ui, ixs, T

(* The elements of a sequence with one more.                                 *)
LEMMA AppendEach ==
    ASSUME NEW V, NEW s \in Seq(V), NEW v \in V, 1 \in DOMAIN s
    PROVE  /\ Append(s, v) \in Seq(V) /\ Append(s, v) # <<>> /\ Append(s, v)[1] = s[1]
           /\ \A i \in DOMAIN Append(s, v) :
                (i \in DOMAIN s /\ Append(s, v)[i] = s[i]) \/ Append(s, v)[i] = v
    OBVIOUS

(* Adding an index (AddIndex) that has enough layers.                        *)
LEMMA InfoAdded ==
    ASSUME NEW ti, NEW S \in Seq(Nat), NEW p \in Nat, Layered(ti, S, p),
           NEW ov \in Ovs, Len(ov.layers) >= Len(ti.Deltas)
    PROVE  Layered([ti EXCEPT !.Indexes = Append(@, ov)], S, p)
(* Adding an index to an Info changes nothing else of it.                    *)
<1>WithIndexes. ASSUME NEW T, NEW U, NEW V, NEW W, NEW ixs,
                       NEW ui \in [Indexes : T, Deltas : U, Nrows : V, BtreeNrows : W]
                PROVE  [ui EXCEPT !.Indexes = ixs] =
                           [Indexes |-> ixs, Deltas |-> ui.Deltas, Nrows |-> ui.Nrows,
                            BtreeNrows |-> ui.BtreeNrows]
      OBVIOUS
<1> DEFINE ixs == ti.Indexes
           new == Append(ixs, ov)
           ui == [ti EXCEPT !.Indexes = Append(@, ov)]
<1>1. /\ ti.Deltas \in Seq(Nat) /\ ti.Nrows \in Nat /\ ti.BtreeNrows \in Nat
      /\ ixs \in Seq(Ovs) /\ 1 \in DOMAIN ixs
      /\ Stack(ixs[1].bt, ixs[1].layers, S, p) /\ Deep(ixs, Len(ti.Deltas))
      /\ Tally(Len(ixs[1].bt), ti.Deltas, ti.Nrows, ti.BtreeNrows, Len(S), p)
    BY HasLayers, Zenon
<1>2. ti \in [Indexes : Seq(Ovs), Deltas : Seq(Nat), Nrows : Nat, BtreeNrows : Nat]
    BY Zenon DEF Layered, Infos
<1>3. ui = [Indexes |-> new, Deltas |-> ti.Deltas, Nrows |-> ti.Nrows,
            BtreeNrows |-> ti.BtreeNrows]
  <2>1. ui = [ti EXCEPT !.Indexes = new]
    BY Zenon
  <2> HIDE DEF ui, new
  <2> QED
    BY <1>2, <2>1, <1>WithIndexes, Zenon
<1> HIDE DEF ui, ixs
<1>4. /\ new \in Seq(Ovs) /\ new # <<>> /\ new[1] = ixs[1]
      /\ \A i \in DOMAIN new : (i \in DOMAIN ixs /\ new[i] = ixs[i]) \/ new[i] = ov
    BY SMTT(60), <1>1, AppendEach
<1> HIDE DEF new
<1>5. Deep(new, Len(ti.Deltas))
    BY <1>1, <1>4, Zenon DEF Deep
<1>6. Layered(ui, S, p)
    BY <1>1, <1>3, <1>4, <1>5, IsLayered, Zenon
<1> QED
    BY Zenon, <1>6 DEF ui

(* An empty layer.                                                           *)
LEMMA EmptyIsSeq == <<>> \in Seq(Nat)
    OBVIOUS
(* What Overlay.Merge makes of layers is a layer.                            *)
LEMMA FlattenSeq ==
    ASSUME NEW ls \in Seq(Seq(Nat))
    PROVE  Flatten(ls) \in Seq(Nat)
<1>1. PICK f \in [0 .. Len(ls) -> Seq(Nat)] : Flatten(ls) = f[Len(ls)]
    BY Zenon, FlattenIs
<1>2. Len(ls) \in 0 .. Len(ls)
    OBVIOUS
<1> QED
    BY Zenon, <1>1, <1>2

(* Concatenation is associative.                                             *)
LEMMA Assoc ==
    ASSUME NEW a \in Seq(Nat), NEW b \in Seq(Nat), NEW c \in Seq(Nat)
    PROVE  (a \o b) \o c = a \o (b \o c)
    OBVIOUS
(* A concatenation of layers is a layer, and an empty layer adds nothing.    *)
LEMMA ConcatSeq ==
    ASSUME NEW a \in Seq(Nat), NEW b \in Seq(Nat)
    PROVE  a \o b \in Seq(Nat) /\ a \o <<>> = a /\ <<>> \o a = a
    OBVIOUS

(* The first k layers are what has been added after k steps of Flatten.      *)
LEMMA FlattenPrefix ==
    ASSUME NEW ls \in Seq(Seq(Nat)), NEW k \in 0 .. Len(ls),
           NEW f \in [0 .. Len(ls) -> Seq(Nat)], f[0] = <<>>,
           \A i \in 1 .. Len(ls) : f[i] = f[i - 1] \o ls[i]
    PROVE  Flatten(SubSeq(ls, 1, k)) = f[k]
<1> DEFINE us == SubSeq(ls, 1, k)
<1>1. us \in Seq(Seq(Nat)) /\ Len(us) = k /\ \A j \in 1 .. k : us[j] = ls[j]
    BY Zenon, Prefix
<1> HIDE DEF us
<1>2. PICK g \in [0 .. Len(us) -> Seq(Nat)] :
              /\ g[0] = <<>>
              /\ \A i \in 1 .. Len(us) : g[i] = g[i - 1] \o us[i]
              /\ Flatten(us) = g[Len(us)]
    BY Zenon, <1>1, FlattenIs
<1>3. k \in Nat /\ k \in 0 .. k /\ \A i \in 1 .. k : i \in 1 .. Len(ls)
    OBVIOUS
<1>4. AgreeOn(f, g, k)
    BY Zenon, <1>1, <1>2, <1>3 DEF AgreeOn
<1>5. f[k] = g[k]
    BY Zenon, <1>3, <1>4, Agree
<1> QED
    BY Zenon, <1>1, <1>2, <1>5 DEF us

(* A layer on top comes last.                                                *)
LEMMA FlattenAppend ==
    ASSUME NEW ls \in Seq(Seq(Nat)), NEW y \in Seq(Nat)
    PROVE  Flatten(Append(ls, y)) = Flatten(ls) \o y
<1> DEFINE as == Append(ls, y)
           n == Len(ls)
<1>1. /\ as \in Seq(Seq(Nat)) /\ Len(as) = n + 1 /\ as[n + 1] = y
      /\ SubSeq(as, 1, n) = SubSeq(ls, 1, n) /\ SubSeq(ls, 1, n) = ls
      /\ n \in 0 .. n + 1 /\ n + 1 \in 1 .. n + 1 /\ (n + 1) - 1 = n
    OBVIOUS
<1> HIDE DEF as
<1>2. PICK f \in [0 .. Len(as) -> Seq(Nat)] :
              /\ f[0] = <<>>
              /\ \A i \in 1 .. Len(as) : f[i] = f[i - 1] \o as[i]
              /\ Flatten(as) = f[Len(as)]
    BY Zenon, <1>1, FlattenIs
<1>3. n \in 0 .. Len(as)
    BY Zenon, <1>1
<1>4. Flatten(SubSeq(as, 1, n)) = f[n]
    BY Zenon, <1>1, <1>2, <1>3, FlattenPrefix
<1> QED
    BY Zenon, <1>1, <1>2, <1>4 DEF as

(* a and r are together the first k layers of ls, and ms has r in their      *)
(* place: a is what moves to the btree, r the new base layer.                *)
Regroups(ms, a, r, ls, k) ==
    /\ ls \in Seq(Seq(Nat)) /\ a \in Seq(Nat) /\ r \in Seq(Nat) /\ k \in 1 .. Len(ls)
    /\ IsCons(ms, Seq(Nat), r, ls, k)
    /\ a \o r = Flatten(SubSeq(ls, 1, k))

(* With a in front, ms has the entries of ls.                                *)
Completes(ms, a, ls) == a \o Flatten(ms) = Flatten(ls)

(* Replacing the first k layers by some of their entries, with the others in *)
(* front of them, changes no entry and no order.                             *)
LEMMA FlattenCons ==
    ASSUME NEW ls, NEW a, NEW r, NEW k, NEW ms, Regroups(ms, a, r, ls, k)
    PROVE  Completes(ms, a, ls)
<1> /\ ls \in Seq(Seq(Nat)) /\ a \in Seq(Nat) /\ r \in Seq(Nat) /\ k \in 1 .. Len(ls)
    /\ IsCons(ms, Seq(Nat), r, ls, k)
    /\ a \o r = Flatten(SubSeq(ls, 1, k))
    BY Zenon DEF Regroups
<1> DEFINE m == Len(ls) - k
<1>1. /\ ms \in Seq(Seq(Nat)) /\ Len(ms) = m + 1 /\ ms[1] = r
      /\ \A j \in 2 .. Len(ms) : ms[j] = ls[j + k - 1]
  <2>1. /\ ms \in Seq(Seq(Nat)) /\ Len(ms) = 1 + Len(ls) - k /\ ms[1] = r
        /\ \A j \in 2 .. Len(ms) : ms[j] = ls[j + k - 1]
    BY Zenon DEF IsCons
  <2>2. 1 + Len(ls) - k = m + 1
    OBVIOUS
  <2> QED
    BY Zenon, <2>1, <2>2
<1>2. PICK f \in [0 .. Len(ls) -> Seq(Nat)] :
              /\ f[0] = <<>>
              /\ \A i \in 1 .. Len(ls) : f[i] = f[i - 1] \o ls[i]
              /\ Flatten(ls) = f[Len(ls)]
    BY Zenon, FlattenIs
<1>3. PICK g \in [0 .. Len(ms) -> Seq(Nat)] :
              /\ g[0] = <<>>
              /\ \A i \in 1 .. Len(ms) : g[i] = g[i - 1] \o ms[i]
              /\ Flatten(ms) = g[Len(ms)]
    BY Zenon, <1>1, FlattenIs
<1> DEFINE F == [i \in 0 .. m |-> f[k + i]]
           G == [i \in 0 .. m |-> a \o g[i + 1]]
<1>4. /\ m \in Nat /\ 0 \in 0 .. m /\ m \in 0 .. m /\ k + m = Len(ls) /\ k + 0 = k /\ 0 + 1 = 1
      /\ k \in 0 .. Len(ls) /\ 1 \in 1 .. m + 1 /\ 1 - 1 = 0
    OBVIOUS
<1>5. ASSUME NEW i \in 1 .. m
      PROVE  /\ i \in 0 .. m /\ i - 1 \in 0 .. m /\ k + i \in 1 .. Len(ls)
             /\ (k + i) - 1 = k + (i - 1) /\ i + 1 \in 1 .. m + 1 /\ i + 1 \in 2 .. m + 1
             /\ (i + 1) - 1 = i /\ (i - 1) + 1 = i /\ (i + 1) + k - 1 = k + i /\ i \in 0 .. m + 1
    OBVIOUS
<1> HIDE DEF m
<1>6. F[0] = G[0]
  <2>1. f[k] = a \o r
    BY Zenon, <1>2, <1>4, FlattenPrefix
  <2>2. g[1] = <<>> \o ms[1]
    BY Zenon, <1>1, <1>3, <1>4
  <2>3. g[1] = r
    BY Zenon, <1>1, <2>2, ConcatSeq
  <2> QED
    BY Zenon, <1>4, <2>1, <2>3
<1>7. ASSUME NEW i \in 1 .. m, F[i - 1] = G[i - 1]
      PROVE  F[i] = G[i]
  <2>1. f[k + i] = f[k + (i - 1)] \o ls[k + i]
    BY Zenon, <1>2, <1>5
  <2>2. g[i + 1] = g[i] \o ms[i + 1] /\ ms[i + 1] = ls[k + i]
    BY Zenon, <1>1, <1>3, <1>5
  <2>3. f[k + (i - 1)] = a \o g[i]
    BY Zenon, <1>5, <1>7
  <2>4. g[i] \in Seq(Nat)
    BY Zenon, <1>1, <1>3, <1>5
  <2>5. ls[k + i] \in Seq(Nat)
    BY <1>5
  <2>6. (a \o g[i]) \o ls[k + i] = a \o (g[i] \o ls[k + i])
    BY Zenon, <2>4, <2>5, Assoc
  <2> QED
    BY Zenon, <1>5, <2>1, <2>2, <2>3, <2>6
<1>8. AgreeOn(F, G, m)
    BY Zenon, <1>6, <1>7 DEF AgreeOn
<1>9. F[m] = G[m]
  <2>1. m \in Nat /\ m \in 0 .. m
    BY Zenon, <1>4
  <2> HIDE DEF F, G
  <2>2. \A i \in 0 .. m : F[i] = G[i]
    BY <1>8, <2>1, Agree
  <2> QED
    BY Zenon, <2>1, <2>2
<1>10. F[m] = f[Len(ls)] /\ G[m] = a \o g[Len(ms)]
    BY Zenon, <1>1, <1>4
<1> QED
    BY Zenon, <1>2, <1>3, <1>9, <1>10 DEF Completes

(* All indexes of the table have the same entries.                           *)
Agrees(ti) ==
    \A i \in DOMAIN ti.Indexes : Entries(ti.Indexes[i]) = Entries(ti.Indexes[1])

(* ti and ui have the same entries in each of their indexes.                 *)
SameEntries(ti, ui) ==
    /\ DOMAIN ui.Indexes = DOMAIN ti.Indexes
    /\ \A i \in DOMAIN ti.Indexes : Entries(ui.Indexes[i]) = Entries(ti.Indexes[i])

(* What changes the entries of no index keeps the indexes equal.             *)
LEMMA StillAgrees ==
    ASSUME NEW ti, NEW ui, SameEntries(ti, ui), Agrees(ti), 1 \in DOMAIN ti.Indexes
    PROVE  Agrees(ui) /\ Entries(ui.Indexes[1]) = Entries(ti.Indexes[1])
    BY Zenon DEF SameEntries, Agrees

(* The entries of an Overlay that is given by its parts.                     *)
LEMMA EntriesOf ==
    ASSUME NEW bt, NEW ls
    PROVE  Entries([bt |-> bt, layers |-> ls]) = bt \o Flatten(ls)
    BY Zenon DEF Entries

(* The Info is right for some transactions.                                  *)
Whole(ti) == \E S \in Seq(Nat), p \in Nat : Layered(ti, S, p)

(* The parts of an Info that is right.                                       *)
LEMMA Layers ==
    ASSUME NEW ti, Whole(ti)
    PROVE  /\ ti.Indexes \in Seq(Ovs) /\ 1 \in DOMAIN ti.Indexes
           /\ \A i \in DOMAIN ti.Indexes :
                 /\ ti.Indexes[i] \in Ovs /\ ti.Indexes[i].bt \in Seq(Nat)
                 /\ ti.Indexes[i].layers \in Seq(Seq(Nat)) /\ ti.Indexes[i].layers # <<>>
<1> PICK S \in Seq(Nat), p \in Nat : Layered(ti, S, p)
    BY Zenon DEF Whole
<1>1. /\ ti.Deltas \in Seq(Nat) /\ ti.Indexes \in Seq(Ovs) /\ 1 \in DOMAIN ti.Indexes
      /\ \A i \in DOMAIN ti.Indexes :
            /\ ti.Indexes[i] \in Ovs /\ ti.Indexes[i].bt \in Seq(Nat)
            /\ ti.Indexes[i].layers \in Seq(Seq(Nat))
      /\ Tally(Len(ti.Indexes[1].bt), ti.Deltas, ti.Nrows, ti.BtreeNrows, Len(S), p)
      /\ Deep(ti.Indexes, Len(ti.Deltas))
    BY Zenon, HasLayers
<1>2. Len(ti.Deltas) = 1 + Len(S) - p /\ p <= Len(S)
    BY Zenon, <1>1 DEF Tally
<1>3. Len(ti.Deltas) >= 1
    BY <1>2
<1>4. ASSUME NEW i \in DOMAIN ti.Indexes PROVE ti.Indexes[i].layers # <<>>
  <2>1. Len(ti.Indexes[i].layers) >= Len(ti.Deltas)
    BY Zenon, <1>1, <1>4 DEF Deep
  <2>2. Len(<<>>) = 0
    OBVIOUS
  <2>3. Len(ti.Deltas) \in Nat
    BY <1>1
  <2> QED
    BY <1>3, <2>1, <2>2, <2>3
<1> QED
    BY Zenon, <1>1, <1>4

(* A commit (Meta.LayeredOnto) adds the same entry to every index, and       *)
(* changes nothing that a merge or a persist that is being computed has      *)
(* read.                                                                     *)
LEMMA CommitKeepsEqual ==
    ASSUME NEW ti, Whole(ti), NEW x \in Nat
    PROVE  /\ Agrees(ti) => Agrees(LayeredOnto(ti, x))
           /\ SaveResults(LayeredOnto(ti, x)) = SaveResults(ti)
           /\ \A n \in Nat : CanMerge(ti, n) =>
                MergeResults(LayeredOnto(ti, x), n) = MergeResults(ti, n)
<1> DEFINE ixs == ti.Indexes
           new == [i \in DOMAIN ixs |-> UpdateWith(ixs[i], <<x>>)]
<1>1. /\ 1 \in DOMAIN ixs
      /\ \A i \in DOMAIN ixs :
            /\ ixs[i] \in Ovs /\ ixs[i].bt \in Seq(Nat)
            /\ ixs[i].layers \in Seq(Seq(Nat)) /\ ixs[i].layers # <<>>
    BY Zenon, Layers
<1>2. LayeredOnto(ti, x).Indexes = new
    BY Zenon DEF LayeredOnto
<1>3. <<x>> \in Seq(Nat)
    OBVIOUS
<1>4. ASSUME NEW i \in DOMAIN ixs
      PROVE  new[i].bt = ixs[i].bt /\ new[i].layers = Append(ixs[i].layers, <<x>>)
  <2>1. new[i] = UpdateWith(ixs[i], <<x>>)
    BY Zenon
  <2> QED
    BY Zenon, <1>1, <1>3, <1>4, <2>1, UpdateWithIs
<1>5. DOMAIN new = DOMAIN ixs
    BY Zenon
<1> HIDE DEF new
<1>6. ASSUME NEW i \in DOMAIN ixs
      PROVE  Entries(new[i]) = Entries(ixs[i]) \o <<x>>
  <2>1. Flatten(new[i].layers) = Flatten(ixs[i].layers) \o <<x>>
    BY Zenon, <1>1, <1>3, <1>4, <1>6, FlattenAppend
  <2>2. Flatten(ixs[i].layers) \in Seq(Nat)
    BY Zenon, <1>1, <1>6, FlattenSeq
  <2>3. (ixs[i].bt \o Flatten(ixs[i].layers)) \o <<x>>
          = ixs[i].bt \o (Flatten(ixs[i].layers) \o <<x>>)
    <3> DEFINE b == ixs[i].bt
               a == Flatten(ixs[i].layers)
               c == <<x>>
    <3>1. b \in Seq(Nat) /\ a \in Seq(Nat) /\ c \in Seq(Nat)
      BY Zenon, <1>1, <1>3, <1>6, <2>2
    <3> HIDE DEF b, a, c
    <3>2. (b \o a) \o c = b \o (a \o c)
      BY Zenon, <3>1, Assoc
    <3> QED
      BY Zenon, <3>2 DEF b, a, c
  <2>4. Entries(new[i]) = ixs[i].bt \o (Flatten(ixs[i].layers) \o <<x>>)
    BY Zenon, <1>4, <1>6, <2>1 DEF Entries
  <2> QED
    BY Zenon, <2>3, <2>4 DEF Entries
<1>7. Agrees(ti) => Agrees(LayeredOnto(ti, x))
    BY Zenon, <1>1, <1>2, <1>5, <1>6 DEF Agrees
<1>8. ASSUME NEW i \in DOMAIN ixs
      PROVE  /\ new[i].layers[1] = ixs[i].layers[1]
             /\ \A n \in Nat : Len(ixs[i].layers) > n =>
                  SubSeq(new[i].layers, 1, n + 1) = SubSeq(ixs[i].layers, 1, n + 1)
  <2> DEFINE ls == ixs[i].layers
  <2>1. ls \in Seq(Seq(Nat)) /\ ls # <<>> /\ new[i].layers = Append(ls, <<x>>)
    BY Zenon, <1>1, <1>4, <1>8
  <2> HIDE DEF ls
  <2>2. 1 \in 1 .. Len(ls) /\ 1 \in Nat \ {0}
    BY <2>1
  <2>3. \A n \in Nat : Len(ls) > n => n + 1 \in 0 .. Len(ls)
    BY <2>1
  <2>4. /\ \A j \in 1 .. Len(ls) : Append(ls, <<x>>)[j] = ls[j]
        /\ \A a \in Nat \ {0}, b \in 0 .. Len(ls) :
             SubSeq(Append(ls, <<x>>), a, b) = SubSeq(ls, a, b)
    <3> DEFINE y == <<x>>
    <3>1. y \in Seq(Nat) /\ ls \in Seq(Seq(Nat))
      BY Zenon, <1>3, <2>1
    <3> HIDE DEF y
    <3>2. /\ \A j \in 1 .. Len(ls) : Append(ls, y)[j] = ls[j]
          /\ \A a \in Nat \ {0}, b \in 0 .. Len(ls) :
               SubSeq(Append(ls, y), a, b) = SubSeq(ls, a, b)
      BY <3>1, AppendIs
    <3> QED
      BY Zenon, <3>2 DEF y
  <2>5. Append(ls, <<x>>)[1] = ls[1] /\ \A n \in Nat : Len(ls) > n =>
                  SubSeq(Append(ls, <<x>>), 1, n + 1) = SubSeq(ls, 1, n + 1)
    BY Zenon, <2>2, <2>3, <2>4
  <2> QED
    BY Zenon, <2>1, <2>5 DEF ls
<1>9. SaveResults(LayeredOnto(ti, x)) = SaveResults(ti)
    BY Zenon, <1>2, <1>4, <1>5, <1>8 DEF SaveResults
<1>10. ASSUME NEW n \in Nat, CanMerge(ti, n)
       PROVE  MergeResults(LayeredOnto(ti, x), n) = MergeResults(ti, n)
    BY Zenon, <1>10, <1>2, <1>5, <1>8 DEF MergeResults, CanMerge
<1> QED
    BY Zenon, <1>7, <1>9, <1>10

(* Overlay.Merge and WithMerged of every index: a merge changes the entries  *)
(* of none.                                                                  *)
LEMMA MergeKeepsEntries ==
    ASSUME NEW ti, Whole(ti), NEW n \in Nat, CanMerge(ti, n)
    PROVE  SameEntries(ti, ApplyMerge(ti, n, MergeResults(ti, n)))
<1> DEFINE ixs == ti.Indexes
           res == MergeResults(ti, n)
           ui == ApplyMerge(ti, n, res)
<1>1. \A i \in DOMAIN ixs :
            /\ ixs[i] \in Ovs /\ ixs[i].bt \in Seq(Nat)
            /\ ixs[i].layers \in Seq(Seq(Nat)) /\ ixs[i].layers # <<>>
    BY Zenon, Layers
<1>2. ui.Indexes = [i \in DOMAIN ixs |-> [ixs[i] EXCEPT
                        !.layers = <<res[i]>> \o Rest(ixs[i].layers, n + 1)]]
    BY Zenon DEF ApplyMerge
<1> HIDE DEF ui
<1>3. ASSUME NEW i \in DOMAIN ixs
      PROVE  Entries(ui.Indexes[i]) = Entries(ixs[i])
  <2> DEFINE ls == ixs[i].layers
             r == res[i]
             ms == <<r>> \o Rest(ls, n + 1)
  <2>1. ls \in Seq(Seq(Nat)) /\ Len(ls) > n
    BY Zenon, <1>1, <1>3 DEF CanMerge
  <2>2. r = Flatten(SubSeq(ls, 1, n + 1))
    BY Zenon, <1>3 DEF MergeResults
  <2>3. ui.Indexes[i] = [ixs[i] EXCEPT !.layers = ms]
    BY Zenon, <1>2, <1>3
  <2>4. ui.Indexes[i] = [bt |-> ixs[i].bt, layers |-> ms]
    BY Zenon, <1>1, <1>3, <2>3, WithLayers DEF Ovs
  <2> HIDE DEF ls, r
  <2>5. n + 1 \in 1 .. Len(ls) /\ n + 1 \in 0 .. Len(ls)
    BY <2>1
  <2>6. SubSeq(ls, 1, n + 1) \in Seq(Seq(Nat))
    BY Zenon, <2>1, <2>5, Prefix
  <2>7. r \in Seq(Nat) /\ <<>> \in Seq(Nat)
    BY Zenon, <2>2, <2>6, FlattenSeq, EmptyIsSeq
  <2>8. IsCons(ms, Seq(Nat), r, ls, n + 1)
    BY Zenon, <2>1, <2>5, <2>7, ConsRest
  <2> HIDE DEF ms
  <2>9. <<>> \o r = Flatten(SubSeq(ls, 1, n + 1))
    BY Zenon, <2>2, <2>7, ConcatSeq
  <2>10. <<>> \o Flatten(ms) = Flatten(ls)
    <3>1. Regroups(ms, <<>>, r, ls, n + 1)
      BY Zenon, <2>1, <2>5, <2>7, <2>8, <2>9 DEF Regroups
    <3>2. Completes(ms, <<>>, ls)
      BY Zenon, <3>1, FlattenCons
    <3> QED
      BY Zenon, <3>2 DEF Completes
  <2>11. ms \in Seq(Seq(Nat))
    BY Zenon, <2>8 DEF IsCons
  <2>12. Flatten(ms) = Flatten(ls)
    BY Zenon, <2>10, <2>11, FlattenSeq, ConcatSeq
  <2>13. Entries(ui.Indexes[i]) = ixs[i].bt \o Flatten(ms)
    BY Zenon, <2>4, EntriesOf
  <2> QED
    BY Zenon, <2>12, <2>13 DEF Entries, ls
<1>4. DOMAIN ui.Indexes = DOMAIN ixs
    BY Zenon, <1>2
<1> QED
    BY Zenon, <1>3, <1>4 DEF SameEntries, ui

(* Overlay.Save and WithSaved of every index: a persist changes the entries  *)
(* of none.                                                                  *)
LEMMA PersistKeepsEntries ==
    ASSUME NEW ti, Whole(ti)
    PROVE  SameEntries(ti, ApplyPersist(ti, SaveResults(ti)))
<1> DEFINE ixs == ti.Indexes
           ui == ApplyPersist(ti, SaveResults(ti))
<1>1. \A i \in DOMAIN ixs :
            /\ ixs[i].bt \in Seq(Nat)
            /\ ixs[i].layers \in Seq(Seq(Nat)) /\ ixs[i].layers # <<>>
    BY Zenon, Layers
<1>2. ui.Indexes = [i \in DOMAIN ixs |-> [bt |-> SaveResults(ti)[i],
                        layers |-> <<(<<>>)>> \o Tail(ixs[i].layers)]]
    BY Zenon DEF ApplyPersist
<1> HIDE DEF ui
<1>3. ASSUME NEW i \in DOMAIN ixs
      PROVE  Entries(ui.Indexes[i]) = Entries(ixs[i])
  <2> DEFINE ls == ixs[i].layers
             ms == <<(<<>>)>> \o Tail(ls)
  <2>1. ls \in Seq(Seq(Nat)) /\ ls # <<>> /\ ixs[i].bt \in Seq(Nat)
    BY Zenon, <1>1, <1>3
  <2>2. ui.Indexes[i] = [bt |-> ixs[i].bt \o ls[1], layers |-> ms]
    BY Zenon, <1>2, <1>3 DEF SaveResults
  <2> HIDE DEF ls
  <2>3. 1 \in 1 .. Len(ls) /\ ls[1] \in Seq(Nat) /\ 1 \in 0 .. Len(ls) /\ 1 - 1 = 0
    BY <2>1
  <2>4. IsCons(ms, Seq(Nat), <<>>, ls, 1)
    BY Zenon, <2>1, <2>3, EmptyIsSeq, ConsTail, ConsRest
  <2> HIDE DEF ms
  <2>5. Flatten(SubSeq(ls, 1, 1)) = ls[1]
    <3>1. PICK f \in [0 .. Len(ls) -> Seq(Nat)] :
              /\ f[0] = <<>>
              /\ \A j \in 1 .. Len(ls) : f[j] = f[j - 1] \o ls[j]
      BY Zenon, <2>1, FlattenIs
    <3>2. f[1] = <<>> \o ls[1]
      BY Zenon, <2>3, <3>1
    <3>3. f[1] = ls[1]
      BY Zenon, <2>3, <3>2, ConcatSeq
    <3> DEFINE k == 1
    <3>4. k \in 0 .. Len(ls)
      BY Zenon, <2>3
    <3> HIDE DEF k
    <3>5. Flatten(SubSeq(ls, 1, k)) = f[k]
      BY Zenon, <2>1, <3>1, <3>4, FlattenPrefix
    <3> QED
      BY Zenon, <3>3, <3>5 DEF k
  <2>6. ls[1] \o <<>> = Flatten(SubSeq(ls, 1, 1))
    BY Zenon, <2>3, <2>5, ConcatSeq
  <2>7. ls[1] \o Flatten(ms) = Flatten(ls)
    <3>1. Regroups(ms, ls[1], <<>>, ls, 1)
      BY Zenon, <2>1, <2>3, <2>4, <2>6, EmptyIsSeq DEF Regroups
    <3>2. Completes(ms, ls[1], ls)
      BY Zenon, <3>1, FlattenCons
    <3> QED
      BY Zenon, <3>2 DEF Completes
  <2>8. ms \in Seq(Seq(Nat))
    BY Zenon, <2>4 DEF IsCons
  <2>9. (ixs[i].bt \o ls[1]) \o Flatten(ms) = ixs[i].bt \o Flatten(ls)
    <3> DEFINE b == ixs[i].bt
               a == ls[1]
               c == Flatten(ms)
    <3>1. b \in Seq(Nat) /\ a \in Seq(Nat) /\ c \in Seq(Nat)
      BY Zenon, <2>1, <2>3, <2>8, FlattenSeq
    <3> HIDE DEF b, a, c
    <3>2. (b \o a) \o c = b \o (a \o c)
      BY Zenon, <3>1, Assoc
    <3> QED
      BY Zenon, <2>7, <3>2 DEF b, a, c
  <2>10. Entries(ui.Indexes[i]) = (ixs[i].bt \o ls[1]) \o Flatten(ms)
    BY Zenon, <2>2, EntriesOf
  <2> QED
    BY Zenon, <2>9, <2>10 DEF Entries, ls
<1>4. DOMAIN ui.Indexes = DOMAIN ixs
    BY Zenon, <1>2
<1> QED
    BY Zenon, <1>3, <1>4 DEF SameEntries, ui

(* The Overlay that buildIndexes makes has the entries of its btree.         *)
LEMMA OverlayEntries ==
    ASSUME NEW bt \in Seq(Nat), NEW n \in Nat
    PROVE  Entries(Overlay(bt, n)) = bt
<1> DEFINE ls == [i \in 1 .. n |-> <<>>]
           none == [i \in 0 .. n |-> <<>>]
<1>1. /\ ls \in Seq(Seq(Nat)) /\ Len(ls) = n /\ n \in 0 .. n /\ 0 \in 0 .. n
      /\ \A i \in 1 .. n : i - 1 \in 0 .. n /\ i \in 0 .. n
    OBVIOUS
<1>2. \A i \in 1 .. n : ls[i] = <<>>
    BY Zenon
<1>3. \A i \in 0 .. n : none[i] = <<>>
    BY Zenon
<1> HIDE DEF ls, none
<1>4. PICK f \in [0 .. Len(ls) -> Seq(Nat)] :
              /\ f[0] = <<>>
              /\ \A i \in 1 .. Len(ls) : f[i] = f[i - 1] \o ls[i]
              /\ Flatten(ls) = f[Len(ls)]
    BY Zenon, <1>1, FlattenIs
<1>5. AgreeOn(f, none, n)
  <2>1. f[0] = none[0]
    BY Zenon, <1>1, <1>3, <1>4
  <2>2. ASSUME NEW i \in 1 .. n, f[i - 1] = none[i - 1] PROVE f[i] = none[i]
    <3>1. f[i - 1] = <<>> /\ none[i] = <<>> /\ f[i] = f[i - 1] \o ls[i] /\ ls[i] = <<>>
      BY Zenon, <1>1, <1>2, <1>3, <1>4, <2>2
    <3>2. <<>> \o <<>> = <<>>
      BY Zenon, EmptyIsSeq, ConcatSeq
    <3> QED
      BY Zenon, <3>1, <3>2
  <2> QED
    BY Zenon, <2>1, <2>2 DEF AgreeOn
<1>6. f[n] = <<>>
  <2>1. \A i \in 0 .. n : f[i] = none[i]
    BY Zenon, <1>5, Agree
  <2> QED
    BY Zenon, <1>1, <1>3, <2>1
<1>7. Flatten(ls) = <<>>
    BY Zenon, <1>1, <1>4, <1>6
<1>8. Overlay(bt, n).bt = bt /\ Overlay(bt, n).layers = ls
    BY Zenon DEF Overlay, ls
<1> QED
    BY Zenon, <1>7, <1>8, EmptyIsSeq, ConcatSeq DEF Entries

(* Adding an index (AddIndex) with the entries of the first one keeps the    *)
(* indexes equal.                                                            *)
LEMMA AddedAgrees ==
    ASSUME NEW ti \in Infos, 1 \in DOMAIN ti.Indexes, Agrees(ti), NEW ov \in Ovs,
           Entries(ov) = Entries(ti.Indexes[1])
    PROVE  Agrees([ti EXCEPT !.Indexes = Append(@, ov)])
<1> DEFINE ixs == Append(ti.Indexes, ov)
           ui == [ti EXCEPT !.Indexes = ixs]
<1>1. ti.Indexes \in Seq(Ovs)
    BY Zenon DEF Infos
<1>2. /\ ixs[1] = ti.Indexes[1]
      /\ \A i \in DOMAIN ixs : (i \in DOMAIN ti.Indexes /\ ixs[i] = ti.Indexes[i]) \/ ixs[i] = ov
    BY <1>1, AppendEach
<1>3. ui.Indexes = ixs
    BY Zenon DEF Infos
<1> HIDE DEF ixs
<1>4. \A i \in DOMAIN ixs : Entries(ixs[i]) = Entries(ixs[1])
    BY Zenon, <1>2 DEF Agrees
<1> HIDE DEF ui
<1>5. Agrees(ui)
    BY Zenon, <1>3, <1>4 DEF Agrees
<1> QED
    BY Zenon, <1>5 DEF ui, ixs

==============================================================================
