-------------------------------- MODULE Info ---------------------------------
(***************************************************************************)
(* The Info of a table: the Overlay of each of its indexes and the counts  *)
(* of its rows (db19/meta/info.go, db19/index/overlay.go), and what a      *)
(* commit, a merge and a persist make of it (LayeredOnto of meta.go,       *)
(* MergeUpdate and PersistUpdate of info.go).                              *)
(*                                                                         *)
(* An entry of an index is the number of the transaction that made it, and *)
(* a btree or a layer is the sequence of its entries in the order in which *)
(* they were made, so that merging is concatenation.                       *)
(***************************************************************************)
EXTENDS Naturals, Sequences

Overlay(bt, nlayers) == [bt |-> bt, layers |-> [i \in 1 .. nlayers |-> <<>>]]

\* the entries of some layers, the ones of the first layer first
Flatten(layers) ==
    LET flat[i \in 0 .. Len(layers)] ==
            IF i = 0 THEN <<>> ELSE flat[i - 1] \o layers[i]
    IN  flat[Len(layers)]

\* what a reader finds in an index
Entries(ov) == ov.bt \o Flatten(ov.layers)

NewInfo(ovs) ==
    [Indexes    |-> ovs, Deltas |-> <<0>>,
     Nrows      |-> Len(ovs[1].bt), BtreeNrows |-> Len(ovs[1].bt)]

SumSeq(s) ==
    LET sum[i \in 0 .. Len(s)] == IF i = 0 THEN 0 ELSE sum[i - 1] + s[i]
    IN  sum[Len(s)]

UpdateWith(latest, mut) == [latest EXCEPT !.layers = Append(@, mut)]

\* Meta.LayeredOnto for one table: a transaction outputs one record
LayeredOnto(ti, tran) ==
    [Indexes    |-> [i \in DOMAIN ti.Indexes |->
                       UpdateWith(ti.Indexes[i], <<tran>>)],
     Deltas     |-> Append(ti.Deltas, 1),
     Nrows      |-> ti.Nrows + 1,
     BtreeNrows |-> ti.BtreeNrows]

\* the slices that Merge and Apply1 take of the layers and the Deltas exist
CanMerge(ti, nmerge) ==
    /\ Len(ti.Deltas) > nmerge
    /\ \A i \in DOMAIN ti.Indexes : Len(ti.Indexes[i].layers) > nmerge

\* Overlay.Merge of each index
MergeResults(ti, nmerge) ==
    [i \in DOMAIN ti.Indexes |->
        Flatten(SubSeq(ti.Indexes[i].layers, 1, nmerge + 1))]

Rest(s, n) == SubSeq(s, n + 1, Len(s))

\* mutant of ApplyMerge: layers committed since the merge began are dropped
ApplyMerge_AllLayers(ti, nmerged, results) ==
    [ti EXCEPT
        !.Deltas  = <<SumSeq(@)>>,
        !.Indexes = [i \in DOMAIN @ |-> [@[i] EXCEPT !.layers = <<results[i]>>]]]

\* MergeUpdate.Apply1 and Apply2 (WithMerged)
ApplyMerge(ti, nmerged, results) ==
    [Indexes    |-> [i \in DOMAIN ti.Indexes |->
                       [ti.Indexes[i] EXCEPT
                          !.layers = <<results[i]>> \o Rest(@, nmerged + 1)]],
     Deltas     |-> <<SumSeq(SubSeq(ti.Deltas, 1, nmerged + 1))>>
                       \o Rest(ti.Deltas, nmerged + 1),
     Nrows      |-> ti.Nrows,
     BtreeNrows |-> ti.BtreeNrows]

\* Overlay.Modified of the first index
Modified(ti) == ti.Indexes[1].layers[1] # <<>>

\* Overlay.Save of each index
SaveResults(ti) ==
    [i \in DOMAIN ti.Indexes |-> ti.Indexes[i].bt \o ti.Indexes[i].layers[1]]

\* mutants of ApplyPersist: the layers committed since are dropped; the delta
\* of the saved layer is kept
ApplyPersist_AllLayers(ti, results) ==
    [ti EXCEPT
        !.BtreeNrows = @ + SumSeq(ti.Deltas), !.Deltas = <<0>>,
        !.Indexes    = [i \in DOMAIN @ |-> Overlay(results[i], 1)]]
ApplyPersist_KeepDelta(ti, results) ==
    [ti EXCEPT
        !.BtreeNrows = @ + ti.Deltas[1],
        !.Indexes    = [i \in DOMAIN @ |->
            [bt |-> results[i], layers |-> <<(<<>>)>> \o Tail(@[i].layers)]]]

\* PersistUpdate.Apply1 and Apply2 (WithSaved)
ApplyPersist(ti, results) ==
    [Indexes    |-> [i \in DOMAIN ti.Indexes |->
                       [bt     |-> results[i],
                        layers |-> <<(<<>>)>> \o Tail(ti.Indexes[i].layers)]],
     Deltas     |-> <<0>> \o Tail(ti.Deltas),
     Nrows      |-> ti.Nrows,
     BtreeNrows |-> ti.BtreeNrows + ti.Deltas[1]]

\* what Info.Write writes and ReadInfo reads: the btrees and the counts
Written(ti) ==
    [Indexes    |-> [i \in DOMAIN ti.Indexes |-> Overlay(ti.Indexes[i].bt, 1)],
     Deltas     |-> <<0>>,
     Nrows      |-> ti.BtreeNrows,
     BtreeNrows |-> ti.BtreeNrows]
==============================================================================
