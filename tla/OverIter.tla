------------------------------ MODULE OverIter ------------------------------
(***************************************************************************)
(* The iterator over an index (db19/index/overiter.go) and what happens to *)
(* the index under it.  It merges one iterator for the btree and one for   *)
(* each buffer.  Between two of its steps the transaction it reads in may  *)
(* write, it may be used in another transaction (a cursor is), other       *)
(* transactions commit, and layers are merged and saved.                   *)
(*                                                                         *)
(* Keys are numbers, 0 is ixkey.Min.  One transaction at a time uses the   *)
(* iterator; the commits of the others are single actions.                 *)
(***************************************************************************)
EXTENDS Overlay

CONSTANTS
    Stored,     \* the keys that are in the btree at the start
    Bounds,     \* the ends of the ranges the iterator is given
    MaxWrites,  \* bound: writes of all transactions together
    MaxLayers,  \* bound: layers of an Overlay
    Reuse       \* whether a transaction may begin on the Overlay that the
                \* iterator is on, by its address, when UpdateWith has changed
                \* it since or the last step was given up half way

VARIABLES
    latest,     \* the Overlay in the current database state
    tran,       \* the one the open transaction sees (GetIndexI)
    open,       \* whether the transaction is open
    oi,         \* the OverIter
    writes,     \* how many writes there were; a new record's offset
    touched,    \* keys that other transactions have changed since tran began
    committed,  \* history: the offset at each key, by the commits so far
    view        \* history: the same as the open transaction should see it

vars == <<latest, tran, open, oi, writes, touched, committed, view>>

-----------------------------------------------------------------------------
\* The iterator of one btree or buffer: rewound, within or eof.  The current
\* key says where it is; what it holds at eof is never read.  modified
\* stands for modCount # ib.modCount.

Rewound == [state |-> "rewound", cur |-> 0, modified |-> FALSE]

AtEof(it) == [it EXCEPT !.state = "eof", !.cur = 0]

Eof(ib, it) == KeysOf(ib) = {} \/ it.state = "eof"

InRange(key, rng) == rng.Org <= key /\ key < rng.End

\* the first key that is not less, or the last key
SeekAll(ib, it, key) ==
    LET have == KeysOf(ib)
        geq  == {k \in have : k >= key}
    IN  IF have = {} THEN AtEof(it)
        ELSE [state |-> "within", modified |-> FALSE,
              cur   |-> IF geq = {} THEN Max(have) ELSE Min(geq)]

Seek(ib, rng, it, key) ==
    LET s == SeekAll(ib, it, key)
    IN  IF s.state = "within" /\ InRange(s.cur, rng) THEN s ELSE AtEof(s)

IterNext(ib, rng, it) ==
    LET after == {k \in KeysOf(ib) : k > it.cur}
    IN  CASE it.state = "eof"     -> it
          [] it.state = "rewound" -> Seek(ib, rng, it, rng.Org)
          [] OTHER -> IF after = {} \/ Min(after) >= rng.End THEN AtEof(it)
                      ELSE [it EXCEPT !.cur = Min(after)]

Back(ib, rng, it) ==
    LET before == {k \in KeysOf(ib) : k < it.cur}
    IN  IF before = {} \/ ~InRange(Max(before), rng) THEN AtEof(it)
        ELSE [it EXCEPT !.cur = Max(before)]

IterPrev(ib, rng, it) ==
    LET s == SeekAll(ib, it, rng.End)
    IN  CASE it.state = "eof"     -> it
          [] it.state = "rewound" ->
                 IF s.state = "eof" \/ InRange(s.cur, rng) THEN s
                 ELSE Back(ib, rng, s)
          [] OTHER -> Back(ib, rng, it)

IterRewind(it) == [it EXCEPT !.state = "rewound", !.cur = 0]

-----------------------------------------------------------------------------
\* The OverIter.  src are the btree and the buffers its iterators are on.

All == [Org |-> 0, End |-> Max(Keys) + 1]

Ranges == {rng \in [Org : Bounds, End : Bounds] : rng.Org < rng.End}

NewOverIter ==
    [overlay |-> 0, src |-> <<>>, iters |-> <<>>, rng |-> All,
     state |-> "rewound", curKey |-> 0, curOff |-> 0, lastDir |-> "none"]

BtreeIxbuf(bt) ==
    [k \in Keys |-> IF bt[k] = 0 THEN None ELSE Slot("add", bt[k])]

Sources(ov) == <<BtreeIxbuf(ov.bt)>> \o Buffers(ov)

\* oi.update: new iterators if the transaction has another Overlay
update(o) ==
    IF o.overlay = tran.id THEN o
    ELSE [o EXCEPT !.overlay = tran.id, !.src = Sources(tran),
                   !.iters = [i \in DOMAIN Sources(tran) |-> Rewound]]

EofAt(o, i) == Eof(o.src[i], o.iters[i])

NextAt(o, i) == IterNext(o.src[i], o.rng, o.iters[i])

PrevAt(o, i) == IterPrev(o.src[i], o.rng, o.iters[i])

atKey(o, i) == ~EofAt(o, i) /\ o.iters[i].cur = o.curKey

\* one iterator in modNext
modNextAt(o, modified, i) ==
    LET ib   == o.src[i]
        seek == modified \/ o.iters[i].modified
        s    == Seek(ib, o.rng, o.iters[i], o.curKey)
        r    == IF EofAt(o, i) THEN IterRewind(o.iters[i]) ELSE o.iters[i]
    IN  CASE seek ->
                 IF ~Eof(ib, s) /\ s.cur <= o.curKey
                 THEN IterNext(ib, o.rng, s) ELSE s
          [] ~seek /\ o.lastDir # "next" -> IterNext(ib, o.rng, r)
          [] OTHER -> IF atKey(o, i) THEN NextAt(o, i) ELSE o.iters[i]

\* a bug: no step back from what Seek found when there is nothing after it
modPrevAt_EofStays(o, modified, i) ==
    LET ib   == o.src[i]
        seek == modified \/ o.iters[i].modified
        s    == Seek(ib, o.rng, o.iters[i], o.curKey)
        r    == IF EofAt(o, i) THEN IterRewind(o.iters[i]) ELSE o.iters[i]
    IN  CASE seek ->
                 IF ~Eof(ib, s) /\ s.cur >= o.curKey
                 THEN IterPrev(ib, o.rng, s) ELSE s
          [] ~seek /\ o.lastDir # "prev" -> IterPrev(ib, o.rng, r)
          [] OTHER -> IF atKey(o, i) THEN PrevAt(o, i) ELSE o.iters[i]

\* one iterator in modPrev
modPrevAt(o, modified, i) ==
    LET ib   == o.src[i]
        seek == modified \/ o.iters[i].modified
        s    == Seek(ib, o.rng, o.iters[i], o.curKey)
        r    == IF EofAt(o, i) THEN IterRewind(o.iters[i]) ELSE o.iters[i]
    IN  CASE seek ->
                 IF Eof(ib, s) THEN IterPrev(ib, o.rng, IterRewind(s))
                 ELSE IF s.cur >= o.curKey THEN IterPrev(ib, o.rng, s) ELSE s
          [] ~seek /\ o.lastDir # "prev" -> IterPrev(ib, o.rng, r)
          [] OTHER -> IF atKey(o, i) THEN PrevAt(o, i) ELSE o.iters[i]

\* what modNext and modPrev panic for, before they move that iterator
modifiedNotLast(o) == \E i \in DOMAIN o.iters : o.iters[i].modified /\ i # Len(o.iters)

\* the assertion in Cur of a buffer's iterator
Broken(o) == \E i \in DOMAIN o.iters : ~EofAt(o, i) /\ o.iters[i].state = "rewound"

RECURSIVE Extreme(_, _)
\* the loop of minIter and maxIter: the nearest key, by the topmost source
\* that has it, and on past the keys whose topmost operation is a delete
Extreme(o, dir) ==
    LET live == {i \in DOMAIN o.iters : ~EofAt(o, i)}
        curs == {o.iters[i].cur : i \in live}
        key  == IF dir = "next" THEN Min(curs) ELSE Max(curs)
        at   == {i \in live : o.iters[i].cur = key}
        slot == o.src[Max(at)][key]
    IN  IF live = {} THEN [o EXCEPT !.state = "eof", !.curKey = 0, !.curOff = 0]
        ELSE IF slot.op # "delete"
        THEN [o EXCEPT !.curKey = key, !.curOff = slot.off]
        ELSE Extreme([o EXCEPT !.iters = [i \in DOMAIN @ |->
                          IF i \notin at THEN @[i]
                          ELSE IF dir = "next" THEN NextAt(o, i)
                          ELSE PrevAt(o, i)]], dir)

minIter(o) == Extreme(o, "next")

maxIter(o) == Extreme(o, "prev")

-----------------------------------------------------------------------------
Init ==
    LET offs == [k \in Keys |-> IF k \in Stored THEN 1 ELSE 0]
    IN  /\ latest = [id |-> 1, bt |-> offs, layers |-> <<Empty>>,
                     rw |-> FALSE, mut |-> Empty]
        /\ tran = latest
        /\ open = TRUE
        /\ oi = NewOverIter
        /\ writes = 1
        /\ touched = {}
        /\ committed = offs
        /\ view = offs

\* the address of a new Overlay
Fresh == Min(1 .. 4 \ {latest.id, tran.id, oi.overlay})

\* The OverIter after a step that may leave no one its Overlay: then it will
\* never be the transaction's again, and its iterators need not be told apart.
Kept(o, ids) ==
    IF o.overlay \in ids THEN o
    ELSE [o EXCEPT !.overlay = 0, !.src = <<>>, !.iters = <<>>]

\* a bug: Next reads from the current key, even if the iterator is rewound
NextRead_FromCur(o, r) ==
    <<o.curKey, IF r.state = "eof" THEN o.rng.End ELSE r.curKey>>

\* the range given to the transaction's Read by a Next from o to r
NextRead(o, r) ==
    <<IF o.state = "rewound" THEN o.rng.Org ELSE o.curKey,
      IF r.state = "eof" THEN o.rng.End ELSE r.curKey>>

\* and by a Prev
PrevRead(o, r) ==
    <<IF r.state = "eof" THEN o.rng.Org ELSE r.curKey,
      IF o.state = "rewound" THEN o.rng.End ELSE o.curKey>>

\* Next and Prev up to the call of Read
Stepped(dir) ==
    LET new == oi.overlay # tran.id
        o0  == update(oi)
        its == [i \in DOMAIN o0.iters |->
                   CASE dir = "next" /\ oi.state = "rewound" -> NextAt(o0, i)
                     [] dir = "next" /\ oi.state # "rewound" -> modNextAt(o0, new, i)
                     [] dir = "prev" /\ oi.state = "rewound" -> PrevAt(o0, i)
                     [] dir = "prev" /\ oi.state # "rewound" -> modPrevAt(o0, new, i)]
        o1  == [o0 EXCEPT !.iters = its,
                          !.state = IF @ # "rewound" THEN @
                                    ELSE IF dir = "next" THEN "front" ELSE "back"]
    IN  IF (oi.state # "rewound" /\ modifiedNotLast(o0)) \/ Broken(o1)
        THEN [oi EXCEPT !.state = "panic"]
        ELSE IF dir = "next" THEN minIter(o1) ELSE maxIter(o1)

\* at eof Next and Prev do nothing
CanStep == open /\ oi.state \notin {"eof", "panic"}

\* Read returns
ReadDone(o, dir) ==
    /\ oi' = [o EXCEPT !.lastDir = dir]
    /\ UNCHANGED <<tran, open, touched, view>>

\* Read panics because the transaction has been aborted: it ends, and lastDir
\* is not set any more.  Unless Reuse, an iterator that this leaves with
\* another lastDir is only used with another Overlay.
ReadFails(o, dir) ==
    /\ oi' = Kept(o, IF Reuse \/ dir = oi.lastDir THEN {latest.id} ELSE {})
    /\ open' = FALSE
    /\ tran' = latest
    /\ touched' = {}
    /\ view' = committed

OverIterNext ==
    /\ CanStep
    /\ \E o \in {Stepped("next")} : ReadDone(o, "next") \/ ReadFails(o, "next")
    /\ UNCHANGED <<latest, writes, committed>>

OverIterPrev ==
    /\ CanStep
    /\ \E o \in {Stepped("prev")} : ReadDone(o, "prev") \/ ReadFails(o, "prev")
    /\ UNCHANGED <<latest, writes, committed>>

\* OverIter.Rewind
Rewind ==
    /\ oi' = [oi EXCEPT !.iters = [i \in DOMAIN @ |-> IterRewind(@[i])],
                        !.state = "rewound", !.curKey = 0, !.curOff = 0]
    /\ UNCHANGED <<latest, tran, open, writes, touched, committed, view>>

\* OverIter.Range, which leaves the current key
SetRange(rng) ==
    /\ oi' = [oi EXCEPT !.rng = rng, !.state = "rewound",
                        !.iters = [i \in DOMAIN @ |-> IterRewind(@[i])]]
    /\ UNCHANGED <<latest, tran, open, writes, touched, committed, view>>

-----------------------------------------------------------------------------
\* A write puts slots into the transaction's own buffer (Info.GetRwInfo
\* makes one the first time).  The checker lets no transaction write what
\* another has changed since it began.
Write(slots, newView) ==
    LET ov  == IF tran.rw THEN tran ELSE Mutable(tran, Fresh)
        mut == [k \in Keys |-> Joined(ov.mut[k], slots[k])]
        n   == Len(oi.iters)
    IN  /\ open
        /\ writes < MaxWrites
        /\ KeysOf(slots) \cap touched = {}
        /\ tran' = [ov EXCEPT !.mut = mut]
        /\ oi' = IF oi.overlay # ov.id THEN Kept(oi, {ov.id, latest.id})
                 ELSE [oi EXCEPT !.src[n] = mut, !.iters[n].modified = TRUE]
        /\ writes' = writes + 1
        /\ view' = newView
        /\ UNCHANGED <<latest, open, touched, committed>>

\* UpdateTran.Output: a duplicate key is refused
Output(k) ==
    /\ Lookup(tran, k) = 0
    /\ Write([Empty EXCEPT ![k] = Slot("add", writes + 1)],
             [view EXCEPT ![k] = writes + 1])

\* UpdateTran.Delete of the record at a key
Delete(k) ==
    /\ Lookup(tran, k) # 0
    /\ Write([Empty EXCEPT ![k] = Slot("delete", Lookup(tran, k))],
             [view EXCEPT ![k] = 0])

\* UpdateTran.update of a record, its key unchanged or changed
Update(old, new) ==
    /\ Lookup(tran, old) # 0
    /\ IF old = new
       THEN Write([Empty EXCEPT ![old] = Slot("update", writes + 1)],
                  [view EXCEPT ![old] = writes + 1])
       ELSE /\ Lookup(tran, new) = 0
            /\ Write([Empty EXCEPT ![old] = Slot("delete", Lookup(tran, old)),
                                   ![new] = Slot("add", writes + 1)],
                     [view EXCEPT ![old] = 0, ![new] = writes + 1])

\* the commit of a transaction that has written: LayeredOnto, UpdateWith
Commit ==
    /\ open
    /\ tran.rw
    /\ Len(latest.layers) < MaxLayers
    /\ latest' = UpdateWith(tran, latest)
    /\ committed' = [k \in Keys |-> IF tran.mut[k] = None THEN committed[k]
                                    ELSE view[k]]
    /\ open' = FALSE
    /\ tran' = latest'
    /\ touched' = {}
    /\ view' = committed'
    /\ oi' = Kept(oi, {tran.id, latest'.id})
    /\ UNCHANGED writes

\* a transaction begins, and what the one before has not committed is gone
Begin ==
    /\ Reuse \/ latest.id # oi.overlay \/ Sources(latest) = oi.src
    /\ tran' = latest
    /\ open' = TRUE
    /\ touched' = {}
    /\ view' = committed
    /\ oi' = Kept(oi, {latest.id})
    /\ UNCHANGED <<latest, writes, committed>>

\* another transaction commits a write of a key this one has not written
CommitOther(k, op) ==
    /\ writes < MaxWrites
    /\ Len(latest.layers) < MaxLayers
    /\ open /\ tran.rw => tran.mut[k] = None
    /\ (op = "add") <=> (committed[k] = 0)
    /\ LET off  == IF op = "delete" THEN committed[k] ELSE writes + 1
           slot == Slot(op, off)
       IN  /\ latest' = UpdateWith(
                  [latest EXCEPT !.id = Fresh,
                                 !.mut = [Empty EXCEPT ![k] = slot]], latest)
           /\ committed' = [committed EXCEPT ![k] = Result(slot, 0)]
    /\ touched' = touched \cup {k}
    /\ writes' = writes + 1
    /\ oi' = Kept(oi, {tran.id, latest'.id})
    /\ UNCHANGED <<tran, open, view>>

MergeLayers(n) ==
    /\ n < Len(latest.layers)
    /\ latest' = WithMerged(latest, n, Fresh)
    /\ oi' = Kept(oi, {tran.id, latest'.id})
    /\ UNCHANGED <<tran, open, writes, touched, committed, view>>

Persist ==
    /\ latest.layers[1] # Empty
    /\ latest' = WithSaved(latest, Fresh)
    /\ oi' = Kept(oi, {tran.id, latest'.id})
    /\ UNCHANGED <<tran, open, writes, touched, committed, view>>

Next ==
    \/ OverIterNext \/ OverIterPrev \/ Rewind
    \/ \E rng \in Ranges : SetRange(rng)
    \/ \E k \in Keys : Output(k) \/ Delete(k)
    \/ \E old, new \in Keys : Update(old, new)
    \/ Commit \/ Begin
    \/ \E k \in Keys, op \in {"add", "update", "delete"} : CommitOther(k, op)
    \/ \E n \in 1 .. MaxLayers - 1 : MergeLayers(n)
    \/ Persist

Spec == Init /\ [][Next]_vars

-----------------------------------------------------------------------------
IsSlot(s) ==
    \/ s = None
    \/ s.op \in {"add", "update", "delete"} /\ s.off \in 1 .. MaxWrites

IsOverlay(ov) ==
    /\ ov.id \in 1 .. 4
    /\ \A k \in Keys : ov.bt[k] \in 0 .. MaxWrites
    /\ Len(ov.layers) \in 1 .. MaxLayers
    /\ \A ib \in {ov.mut} \cup {ov.layers[i] : i \in DOMAIN ov.layers} :
           \A k \in Keys : IsSlot(ib[k])

\* Every Overlay has a base layer, slots and offsets are what the code calls
\* valid (Combine never meets two operations it panics on, MergeAndSave none
\* whose assertion fails), and no step of the OverIter panics.
TypeOK ==
    /\ IsOverlay(latest) /\ IsOverlay(tran)
    /\ oi.state \in {"rewound", "front", "back", "eof"}
    /\ Len(oi.iters) = Len(oi.src)
    /\ \A i \in DOMAIN oi.iters :
           oi.iters[i].state \in {"rewound", "within", "eof"}

\* Lookup gives, in the database state and in the open transaction, the last
\* record written at a key, whatever has been committed, layered in place,
\* merged and saved in between (Overlay.Lookup, Combine, UpdateWith,
\* WithMerged, WithSaved).
LookupIsLastWrite ==
    \A k \in Keys : /\ Lookup(latest, k) = committed[k]
                    /\ open => Lookup(tran, k) = view[k]

\* a step of the OverIter itself, by where it has left lastDir
Moves(dir) ==
    UNCHANGED <<latest, tran, open>> /\ oi'.state # "rewound" /\ oi'.lastDir = dir

\* the keys of v that are ahead of the current key, or of an end
Ahead(v, dir) ==
    {k \in Keys : /\ v[k] # 0 /\ InRange(k, oi.rng)
                  /\ \/ oi.state = "rewound"
                     \/ IF dir = "next" THEN k > oi.curKey ELSE k < oi.curKey}

\* the step has gone to the next of them and has its record
Finds(v, dir) ==
    IF Ahead(v, dir) = {} THEN oi'.state = "eof"
    ELSE LET key == IF dir = "next" THEN Min(Ahead(v, dir)) ELSE Max(Ahead(v, dir))
         IN  /\ oi'.state \in {"front", "back"}
             /\ oi'.curKey = key /\ oi'.curOff = v[key]

\* OverIter.Next goes to the next record of the range the transaction can
\* see, and Prev to the previous one - from the current key, even if that has
\* been deleted, and by what has been written since, in whatever direction
\* the last step was, in whatever transaction - or to eof if there is none.
StepIsRight ==
    [][\A dir \in {"next", "prev"} : Moves(dir) => Finds(view, dir)]_vars

\* the views that differ from the transaction's only outside a range, by what
\* others have inserted, changed or deleted there
Elsewhere(read) ==
    {[k \in Keys |-> IF read[1] <= k /\ k <= read[2] THEN view[k]
                     ELSE IF k \in S THEN MaxWrites + 1 ELSE 0] : S \in SUBSET Keys}

\* The checker compares what others write with nothing but the range that a
\* step gives to the transaction's Read.  That is enough: whatever others
\* have committed or will commit outside of it, the step would have found
\* the same record, or none - also when it has skipped deleted records, has
\* turned round, starts at an end of a range that was changed, or goes on
\* from where another transaction was.
ReadCoversStep ==
    [][/\ Moves("next") => \A v \in Elsewhere(NextRead(oi, oi')) : Finds(v, "next")
       /\ Moves("prev") => \A v \in Elsewhere(PrevRead(oi, oi')) : Finds(v, "prev")]_vars
=============================================================================
