------------------------------ MODULE Overlay -------------------------------
(***************************************************************************)
(* What an index holds (db19/index/overlay.go, db19/index/ixbuf): the      *)
(* stored btree; over it the layers, first the base layer of the changes   *)
(* merged since the last persist, then a buffer for each committed         *)
(* transaction that is not merged yet; and on top, in a transaction that   *)
(* has written, its own buffer.                                            *)
(*                                                                         *)
(* A buffer (ixbuf) maps a key to a slot: an operation (the two top bits   *)
(* of the offset) and the offset of a record.  Its chunks only make it     *)
(* fast and are left out.  A btree maps a key to an offset, 0 if the key   *)
(* is not there.                                                           *)
(***************************************************************************)
EXTENDS Integers, Sequences, FiniteSetsExt

CONSTANT Keys

ASSUME KeysAssumption == Keys \subseteq Nat \ {0}

Slot(op, off) == [op |-> op, off |-> off]

None == Slot("none", 0)

\* a panic of Combine, or a failed assertion of MergeAndSave
Panic == Slot("panic", 0)

Empty == [k \in Keys |-> None]

KeysOf(ib) == {k \in Keys : ib[k] # None}

\* a bug: the tombstone is dropped although the record is in another layer
Combine_DropsDelete(s1, s2) ==
    CASE s1.op = "add"    /\ s2.op = "update" -> Slot("add", s2.off)
      [] s1.op = "add"    /\ s2.op = "delete" -> None
      [] s1.op = "update" /\ s2.op = "update" -> s2
      [] s1.op = "update" /\ s2.op = "delete" -> None
      [] s1.op = "delete" /\ s2.op = "add"    -> Slot("update", s2.off)
      [] OTHER -> Panic

\* a bug: an add after a delete stays an add
Combine_AddStays(s1, s2) ==
    CASE s1.op = "add"    /\ s2.op = "update" -> Slot("add", s2.off)
      [] s1.op = "add"    /\ s2.op = "delete" -> None
      [] s1.op = "update" /\ s2.op = "update" -> s2
      [] s1.op = "update" /\ s2.op = "delete" -> s2
      [] s1.op = "delete" /\ s2.op = "add"    -> s2
      [] OTHER -> Panic

\* one slot for an operation on a key and a later one on the same key
Combine(s1, s2) ==
    CASE s1.op = "add"    /\ s2.op = "update" -> Slot("add", s2.off)
      [] s1.op = "add"    /\ s2.op = "delete" -> None
      [] s1.op = "update" /\ s2.op = "update" -> s2
      [] s1.op = "update" /\ s2.op = "delete" -> s2
      [] s1.op = "delete" /\ s2.op = "add"    -> Slot("update", s2.off)
      [] OTHER -> Panic

\* a slot put where another may be: ixbuf.Insert, which Update and Delete
\* call with their bit set, and outputSlot of a merge
Joined(s1, s2) ==
    IF s1 = None THEN s2 ELSE IF s2 = None THEN s1 ELSE Combine(s1, s2)

\* ixbuf.Merge of buffers, the oldest first
Merge(ibs) ==
    LET upTo[i \in 1 .. Len(ibs)] ==
            IF i = 1 THEN ibs[1]
            ELSE [k \in Keys |-> Joined(upTo[i - 1][k], ibs[i][k])]
    IN  upTo[Len(ibs)]

-----------------------------------------------------------------------------
\* Overlays.  id stands for the address of the Overlay: two of them are the
\* same for OverIter if their addresses are.

\* what a slot makes of the offset under it
Result(slot, under) ==
    CASE slot.op = "none"   -> under
      [] slot.op = "delete" -> 0
      [] OTHER              -> slot.off

Buffers(ov) == IF ov.rw THEN Append(ov.layers, ov.mut) ELSE ov.layers

\* the topmost buffer that has the key decides, else the btree
Lookup(ov, key) ==
    LET ibs  == Buffers(ov)
        have == {i \in DOMAIN ibs : ibs[i][key] # None}
    IN  IF have = {} THEN ov.bt[key] ELSE Result(ibs[Max(have)][key], 0)

Mutable(ov, id) == [ov EXCEPT !.id = id, !.rw = TRUE, !.mut = Empty]

\* the transaction's Overlay itself is changed, so it keeps its address
UpdateWith(ov, latest) ==
    [ov EXCEPT !.bt = latest.bt, !.layers = Append(latest.layers, ov.mut),
               !.rw = FALSE, !.mut = Empty]

\* Overlay.Merge and then WithMerged, of the base and n layers
WithMerged(ov, n, id) ==
    [ov EXCEPT !.id = id,
               !.layers = <<Merge(SubSeq(@, 1, n + 1))>>
                              \o SubSeq(@, n + 2, Len(@))]

\* what modify leaves at a key, -1 if its assertion fails
modify(off, slot) ==
    CASE slot.op = "none" -> off
      [] slot.op \in {"update", "delete"} /\ off # 0 -> Result(slot, off)
      [] slot.op = "add" /\ off = 0 -> slot.off
      [] OTHER -> -1

MergeAndSave(bt, ib) == [k \in Keys |-> modify(bt[k], ib[k])]

\* Overlay.Save and then WithSaved
WithSaved(ov, id) ==
    [ov EXCEPT !.id = id, !.bt = MergeAndSave(@, ov.layers[1]),
               !.layers[1] = Empty]
=============================================================================
