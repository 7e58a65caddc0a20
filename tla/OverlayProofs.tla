--------------------------- MODULE OverlayProofs ----------------------------
(***************************************************************************)
(* Why merging and saving the layers of an index is sound, key by key: what *)
(* Combine (db19/index/ixbuf/ixbuf.go) makes of two operations does what   *)
(* the two do one after the other, and is again one that may be done there.*)
(* So a merge of layers that transactions could commit in this order never *)
(* meets a panic of Combine, nor a save a failed assertion of modify       *)
(* (db19/index/btree3/merge.go).                                           *)
(***************************************************************************)
EXTENDS Overlay, TLAPS

Ops == {"none", "add", "update", "delete"}

Slots == {s \in [op : Ops, off : Nat] : s.op = "none" <=> s = None}

\* an operation that may be done where under is the record's offset, 0 if
\* there is none: adds where there is none, updates and deletes where there is
Fits(slot, under) ==
    /\ slot.op \in {"add", "update"} => slot.off # 0
    /\ slot.op = "add" => under = 0
    /\ slot.op \in {"update", "delete"} => under # 0

\* The slot Combine leaves for two operations done one after the other
\* (ixbuf.Insert, ixbuf.Merge) is not a panic, may be done where the first
\* may, and leaves the record the two leave.
THEOREM CombineTheorem ==
    ASSUME NEW under \in Nat, NEW s1 \in Slots, NEW s2 \in Slots,
           Fits(s1, under), Fits(s2, Result(s1, under))
    PROVE  /\ Joined(s1, s2) \in Slots
           /\ Fits(Joined(s1, s2), under)
           /\ Result(Joined(s1, s2), under) = Result(s2, Result(s1, under))
<1> DEFINE r == Joined(s1, s2)
<1>1. /\ s1 \in [op : Ops, off : Nat] /\ s2 \in [op : Ops, off : Nat]
      /\ s1.op = "none" <=> s1 = None
      /\ s2.op = "none" <=> s2 = None
  BY DEF Slots
<1>2. None.op = "none" /\ None.off = 0 /\ None \in Slots
  BY DEF None, Slot, Slots, Ops
<1>3. CASE s1 = None
  <2>1. r = s2 /\ Result(s1, under) = under
    BY <1>2, <1>3 DEF Joined, Result
  <2> QED  BY <2>1, <1>3
<1>4. CASE s1 # None /\ s2 = None
  <2>1. r = s1 /\ Result(s2, Result(s1, under)) = Result(s1, under)
    BY <1>2, <1>4 DEF Joined, Result
  <2> QED  BY <2>1, <1>4
<1>5. CASE s1 # None /\ s2 # None
  <2>1. r = Combine(s1, s2)
    BY <1>5 DEF Joined
  <2>2. CASE s1.op = "add" /\ s2.op = "update"
    <3>1. r = Slot("add", s2.off)
      BY <2>1, <2>2 DEF Combine
    <3>2. under = 0 /\ s2.off # 0 /\ s2.off \in Nat
      BY <1>1, <2>2 DEF Fits
    <3> QED  BY <1>1, <2>2, <3>1, <3>2 DEF Slots, Slot, Ops, None, Fits, Result
  <2>3. CASE s1.op = "add" /\ s2.op = "delete"
    <3>1. r = None
      BY <2>1, <2>3 DEF Combine
    <3>2. under = 0
      BY <2>3 DEF Fits
    <3> QED  BY <1>2, <2>3, <3>1, <3>2 DEF Fits, Result
  <2>4. CASE s1.op = "update" /\ s2.op \in {"update", "delete"}
    <3>1. r = s2
      BY <2>1, <2>4 DEF Combine
    <3>2. under # 0 /\ (s2.op = "update" => s2.off # 0)
      BY <2>4 DEF Fits
    <3> QED  BY <1>1, <2>4, <3>1, <3>2 DEF Fits, Result
  <2>5. CASE s1.op = "delete" /\ s2.op = "add"
    <3>1. r = Slot("update", s2.off)
      BY <2>1, <2>5 DEF Combine
    <3>2. under # 0 /\ s2.off # 0 /\ s2.off \in Nat
      BY <1>1, <2>5 DEF Fits
    <3> QED  BY <1>1, <2>5, <3>1, <3>2 DEF Slots, Slot, Ops, None, Fits, Result
  <2>6. \/ s1.op = "add" /\ s2.op = "update"
        \/ s1.op = "add" /\ s2.op = "delete"
        \/ s1.op = "update" /\ s2.op \in {"update", "delete"}
        \/ s1.op = "delete" /\ s2.op = "add"
    BY <1>1, <1>5 DEF Ops, Fits, Result
  <2> QED  BY <2>2, <2>3, <2>4, <2>5, <2>6
<1> QED  BY <1>3, <1>4, <1>5

\* Saving a slot that may be done where the btree's record is meets none of
\* the assertions of modify, and leaves in the btree what Lookup found over
\* it before.
THEOREM SaveTheorem ==
    ASSUME NEW under \in Nat, NEW slot \in Slots, Fits(slot, under)
    PROVE  modify(under, slot) \in Nat /\ modify(under, slot) = Result(slot, under)
<1>1. slot.op \in Ops /\ slot.off \in Nat
  BY DEF Slots
<1>2. Result(slot, under) \in Nat
  BY <1>1 DEF Result, Ops
<1>3. modify(under, slot) = Result(slot, under)
  BY <1>1 DEF modify, Result, Fits, Ops
<1> QED  BY <1>2, <1>3

\* The same for whole buffers: merging one that could be committed over
\* another leaves at every key what the two leave (ixbuf.Merge of two layers,
\* slot by slot).
THEOREM MergeTheorem ==
    ASSUME NEW bt \in [Keys -> Nat],
           NEW a \in [Keys -> Slots], NEW b \in [Keys -> Slots],
           \A k \in Keys : Fits(a[k], bt[k]) /\ Fits(b[k], Result(a[k], bt[k]))
    PROVE  LET m == [k \in Keys |-> Joined(a[k], b[k])]
           IN  /\ m \in [Keys -> Slots]
               /\ MergeAndSave(bt, m) = MergeAndSave(MergeAndSave(bt, a), b)
<1> DEFINE m == [k \in Keys |-> Joined(a[k], b[k])]
<1>1. ASSUME NEW k \in Keys
      PROVE  /\ m[k] \in Slots
             /\ modify(bt[k], m[k]) = modify(modify(bt[k], a[k]), b[k])
  <2>1. bt[k] \in Nat /\ a[k] \in Slots /\ b[k] \in Slots
    OBVIOUS
  <2>2. Fits(a[k], bt[k]) /\ Fits(b[k], Result(a[k], bt[k]))
    OBVIOUS
  <2>3. /\ m[k] \in Slots
        /\ Fits(m[k], bt[k])
        /\ Result(m[k], bt[k]) = Result(b[k], Result(a[k], bt[k]))
    BY <2>1, <2>2, CombineTheorem
  <2>4. modify(bt[k], m[k]) = Result(m[k], bt[k])
    BY <2>1, <2>3, SaveTheorem
  <2>5. modify(bt[k], a[k]) = Result(a[k], bt[k]) /\ modify(bt[k], a[k]) \in Nat
    BY <2>1, <2>2, SaveTheorem
  <2>6. modify(Result(a[k], bt[k]), b[k]) = Result(b[k], Result(a[k], bt[k]))
    BY <2>1, <2>2, <2>5, SaveTheorem
  <2> QED  BY <2>3, <2>4, <2>5, <2>6
<1>2. MergeAndSave(bt, m) = MergeAndSave(MergeAndSave(bt, a), b)
  BY <1>1 DEF MergeAndSave
<1> QED  BY <1>1, <1>2
=============================================================================
