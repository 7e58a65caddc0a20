------------------------------ MODULE MetaChain ------------------------------
(***************************************************************************)
(* The metadata of the database and how it is saved: db19/meta and the     *)
(* Chain of util/generic/hamt.                                             *)
(*                                                                         *)
(* Meta is two hash tries, the schema and the info of the tables.  Each is *)
(* saved as a chain of chunks: a persist writes a chunk with the items     *)
(* modified since the last one, and from time to time also the items of    *)
(* some older chunks, which it unlinks.  What makes this work is           *)
(* bookkeeping: a clock per chain, the clock of an item's last             *)
(* modification, the age of each chunk, tombstones for what was dropped,   *)
(* and the clock at which an item was created, which saves a tombstone.    *)
(*                                                                         *)
(* A value stands for what is written of an item (a table's columns and    *)
(* indexes, its counts and btree roots).  It is the number of states that  *)
(* the file held when the item was last changed, which tells apart all     *)
(* the versions that can be on disk.  The checksum of a trie is ideal: two *)
(* tries have the same checksum only if they have the same live items.     *)
(***************************************************************************)
EXTENDS Integers, Sequences, FiniteSetsExt

CONSTANTS
    Tables,      \* names of tables
    Views,       \* names of views (in the schema they are prefixed by "=")
    Start,       \* the tables of the database at first
    Kept,        \* those of them that are never dropped or renamed
    Ops,         \* what is done besides transactions, merges and persists
    maxChain,    \* hamt.go maxChain
    MaxSpan,     \* how many persists happen at most during a transaction
    MaxPending,  \* bound: unmerged layers of a table
    MaxStates    \* bound: states written to the file

ASSUME MetaChainAssumption ==
    /\ Kept \subseteq Start /\ Start \subseteq Tables /\ Tables \cap Views = {}
    /\ Ops \subseteq {"create", "drop", "rename", "alter", "columns", "view",
                      "crash", "shutdown"}
    /\ maxChain \in Nat \ {0}
    /\ {MaxSpan, MaxPending, MaxStates} \subseteq Nat

VARIABLES
    schema,     \* Meta.schema, a Chain
    info,       \* Meta.info, a Chain
    pending,    \* for each table, the layers committed and not yet merged
    modified,   \* the tables whose base layer has entries (Overlay.Modified)
    since,      \* for each table, the info clock when its current use began
    changed,    \* db.GetState() # prevState of the merger
    disk,       \* the last state in the file: the chunks of the two chains
    size,       \* the number of states in the file
    saved       \* history: the live items of both chains at the last persist

vars == <<schema, info, pending, modified, since, changed, disk, size, saved>>

-----------------------------------------------------------------------------
(* Hamt and Chain *)

Names == Tables \cup Views

\* lastMod and created of a Schema or an Info; a tombstone has no indexes
Item == [tomb : BOOLEAN, val : Nat, lastMod : Int, created : Nat]

NewItem(val) == [tomb |-> FALSE, val |-> val, lastMod |-> 0, created |-> 0]

Tomb == [tomb |-> TRUE, val |-> 0, lastMod |-> 0, created |-> 0]

EmptyChain == [items |-> <<>>, offs |-> <<>>, ages |-> <<>>, clock |-> 0]

\* Hamt.Get of something that is not a tombstone
Has(c, k) == k \in DOMAIN c.items /\ ~c.items[k].tomb

\* what the checksum of a Hamt is computed from
Live(items) ==
    [k \in {n \in DOMAIN items : ~items[n].tomb} |-> items[k].val]

\* Hamt.Put of an item whose lastMod is set to the chain's clock
PutItem(c, k, it) ==
    [c EXCEPT !.items = [n \in DOMAIN c.items \cup {k} |->
        IF n = k THEN [it EXCEPT !.lastMod = c.clock] ELSE c.items[n]]]

\* Hamt.Delete
DeleteItem(c, k) ==
    [c EXCEPT !.items = [n \in DOMAIN c.items \ {k} |-> c.items[n]]]

TrailingOnes(n) == Max({i \in 0 .. n : (n + 1) % (2 ^ i) = 0})

nmerge(no, clock) ==
    IF no >= maxChain THEN no ELSE Min({no, TrailingOnes(clock)})

\* mutant: the age of the newest merged chunk
OldestAge_Newest(c, merge) ==
    IF merge > 0 THEN c.ages[Len(c.ages)] ELSE c.clock

OldestAge(c, merge) ==
    IF merge > 0 THEN c.ages[Len(c.offs) - merge + 1] ELSE c.clock

\* mutant: tombstones are never written
Chunk_NoTombs(c, merge) ==
    LET its == {k \in DOMAIN c.items :
                  /\ ~c.items[k].tomb
                  /\ \/ merge = Len(c.offs)
                     \/ c.items[k].lastMod >= OldestAge(c, merge)}
    IN  [k \in its |-> [tomb |-> FALSE, val |-> c.items[k].val]]

\* the items that Hamt.Write puts into a chunk
Chunk(c, merge) ==
    LET all == merge = Len(c.offs)
        its == {k \in DOMAIN c.items :
                  IF all THEN ~c.items[k].tomb
                  ELSE c.items[k].lastMod >= OldestAge(c, merge)}
    IN  [k \in its |-> [tomb |-> c.items[k].tomb, val |-> c.items[k].val]]

WriteChain(c) ==
    LET merge == nmerge(Len(c.offs), c.clock)
        chunk == Chunk(c, merge)
        n     == Len(c.offs) - merge
    IN  IF DOMAIN chunk = {} THEN c
        ELSE [items |-> c.items,
              offs  |-> Append(SubSeq(c.offs, 1, n),
                               [items |-> chunk, ck |-> Live(c.items)]),
              ages  |-> Append(SubSeq(c.ages, 1, n), OldestAge(c, merge)),
              clock |-> c.clock + 1]

\* the newest of a sequence of chunks that has an item for k
Newest(offs, k) == Max({i \in DOMAIN offs : k \in DOMAIN offs[i].items})

Stored(offs) == UNION {DOMAIN offs[i].items : i \in DOMAIN offs}

ReadChain(offs) ==
    [items |-> [k \in Stored(offs) |->
                  LET i == Newest(offs, k)
                  IN  [tomb    |-> offs[i].items[k].tomb,
                       val     |-> offs[i].items[k].val,
                       lastMod |-> i - Len(offs) - 1,
                       created |-> 0]],
     offs  |-> offs,
     ages  |-> [i \in DOMAIN offs |-> i - Len(offs) - 1],
     clock |-> 0]

\* ReadChain does not panic with "metadata checksum mismatch"
ChecksumOK(offs) ==
    offs = <<>> \/ Live(ReadChain(offs).items) = offs[Len(offs)].ck

\* ReadMeta takes the Ixspec of every table that has info from its schema: it
\* panics if there is none (MustGet), or a tombstone, which has no Indexes
SchemaFound(offSchema, offInfo) ==
    DOMAIN Live(ReadChain(offInfo).items)
        \subseteq DOMAIN Live(ReadChain(offSchema).items)

-----------------------------------------------------------------------------
(* Schema changes.  All but AddView are run by the merger, between merges, *)
(* while the checker waits, and nobody else uses the table.                *)

Init ==
    LET base == [t \in Start |-> NewItem(0)]
        c    == WriteChain([EmptyChain EXCEPT !.items = base])
    IN  /\ schema = ReadChain(c.offs) /\ info = ReadChain(c.offs)
        /\ pending = [t \in Tables |-> 0]
        /\ modified = {}
        /\ since = [t \in Tables |-> 0]
        /\ changed = FALSE
        /\ disk = [schema |-> c.offs, info |-> c.offs]
        /\ size = 1
        /\ saved = [schema |-> Live(base), info |-> Live(base)]

\* an UpdateState by the merger or by AddView
SetMeta(s, i) ==
    /\ schema' = s /\ info' = i /\ changed' = TRUE
    /\ UNCHANGED <<disk, size, saved>>

AllMerged == \A t \in Tables : pending[t] = 0

Admin(op) == op \in Ops /\ AllMerged /\ UNCHANGED pending

\* PutNew: created is set unless there is an entry, be it a tombstone
New(c, k) ==
    [NewItem(size) EXCEPT !.created =
        IF k \in DOMAIN c.items THEN 0 ELSE c.clock]

Create(t) ==
    /\ Admin("create")
    /\ ~Has(schema, t)
    /\ SetMeta(PutItem(schema, t, New(schema, t)), PutItem(info, t, New(info, t)))
    /\ since' = [since EXCEPT ![t] = info.clock]
    /\ modified' = modified \ {t}

Dropped(c, k, created) ==
    IF created # 0 /\ created = c.clock THEN DeleteItem(c, k)
    ELSE PutItem(c, k, Tomb)

\* for both chains the code compares the created of the schema
Drop(t) ==
    /\ Admin("drop")
    /\ Has(schema, t) /\ t \notin Kept
    /\ LET created == schema.items[t].created
       IN  SetMeta(Dropped(schema, t, created), Dropped(info, t, created))
    /\ modified' = modified \ {t}
    /\ UNCHANGED since

\* mutant: the old name is not marked as dropped
Renamed_NoTomb(c, from, to) ==
    PutItem(DeleteItem(c, from), to, c.items[from])

\* the copy keeps everything but the name, created included
Renamed(c, from, to) == PutItem(PutItem(c, from, Tomb), to, c.items[from])

RenameTable(from, to) ==
    /\ Admin("rename")
    /\ Has(schema, from) /\ ~Has(schema, to) /\ from \notin Kept
    /\ SetMeta(Renamed(schema, from, to), Renamed(info, from, to))
    /\ modified' = IF from \in modified THEN (modified \ {from}) \cup {to}
                   ELSE modified
    /\ since' = [since EXCEPT ![to] = info.clock]

\* Ensure, AlterCreate and AlterDrop: new columns and indexes
Alter(t) ==
    /\ Admin("alter")
    /\ Has(schema, t)
    /\ SetMeta(PutItem(schema, t, [schema.items[t] EXCEPT !.val = size]),
               PutItem(info, t, [info.items[t] EXCEPT !.val = size]))
    /\ since' = [since EXCEPT ![t] = info.clock]
    /\ UNCHANGED modified

\* AlterRename: the names of columns are only in the schema
AlterRename(t) ==
    /\ Admin("columns")
    /\ Has(schema, t)
    /\ SetMeta(PutItem(schema, t, [schema.items[t] EXCEPT !.val = size]), info)
    /\ since' = [since EXCEPT ![t] = info.clock]
    /\ UNCHANGED modified

\* Put without Info; does not go through the checker and the merger
AddView(v) ==
    /\ "view" \in Ops
    /\ ~Has(schema, v)
    /\ SetMeta(PutItem(schema, v, NewItem(size)), info)
    /\ UNCHANGED <<pending, modified, since>>

DropView(v) ==
    /\ Admin("view")
    /\ Has(schema, v)
    /\ SetMeta(PutItem(schema, v, Tomb), info)
    /\ UNCHANGED <<modified, since>>

-----------------------------------------------------------------------------
(* Transactions, merges and persists *)

\* The clock of the Meta that a transaction took when it started: since then
\* the table was not used exclusively, and at most MaxSpan persists happened.
StartClocks(t) ==
    {c \in since[t] .. info.clock : c + MaxSpan >= info.clock}

\* UpdateTran.commit: LayeredOnto sets lastMod to the clock of the start
Commit(t) ==
    /\ Has(info, t)
    /\ pending[t] < MaxPending
    /\ \E c \in StartClocks(t) :
         SetMeta(schema, [info EXCEPT !.items[t].lastMod = c])
    /\ pending' = [pending EXCEPT ![t] = @ + 1]
    /\ UNCHANGED <<modified, since>>

\* meta.Apply for one table
Applied(c, t, val) ==
    PutItem(c, t, [c.items[t] EXCEPT !.val = val])

\* Database.Merge of one or more of the pending layers of a table
Merge(t) ==
    /\ \E n \in 1 .. pending[t] : pending' = [pending EXCEPT ![t] = @ - n]
    /\ SetMeta(schema, Applied(info, t, info.items[t].val))
    /\ modified' = modified \cup {t}
    /\ UNCHANGED since

\* meta.Apply for the tables that persist has saved; their btrees have new roots
AppliedAll ==
    [info EXCEPT !.items = [t \in DOMAIN info.items |->
        IF t \in modified THEN Applied(info, t, size).items[t]
        ELSE info.items[t]]]

\* Database.persist up to and including the write of the state
Persisted(s, i) ==
    /\ disk' = [schema |-> s.offs, info |-> i.offs]
    /\ saved' = [schema |-> Live(s.items), info |-> Live(i.items)]
    /\ size < MaxStates
    /\ size' = size + 1
    /\ modified' = {}
    /\ changed' = FALSE

Persist ==
    /\ changed
    /\ schema' = WriteChain(schema)
    /\ info' = WriteChain(AppliedAll)
    /\ Persisted(schema', info')
    /\ UNCHANGED <<pending, since>>

Readable(state) ==
    /\ ChecksumOK(state.schema) /\ ChecksumOK(state.info)
    /\ SchemaFound(state.schema, state.info)

\* OpenDbStor after a shutdown, or after a repair that found the last state
Opened(state) ==
    /\ Readable(state)
    /\ schema' = ReadChain(state.schema)
    /\ info' = ReadChain(state.info)
    /\ pending' = [t \in Tables |-> 0]
    /\ since' = [t \in Tables |-> 0]

Crash ==
    /\ "crash" \in Ops
    /\ Opened(disk)
    /\ modified' = {} /\ changed' = FALSE
    /\ UNCHANGED <<disk, size, saved>>

\* the merger's final persist, also without a change if the file has grown
Shutdown ==
    /\ "shutdown" \in Ops
    /\ AllMerged
    /\ LET s == WriteChain(schema)
           i == WriteChain(AppliedAll)
       IN  /\ Persisted(s, i)
           /\ Opened([schema |-> s.offs, info |-> i.offs])

Next ==
    \/ \E t \in Tables :
         \/ Create(t) \/ Drop(t) \/ Alter(t) \/ AlterRename(t)
         \/ Commit(t) \/ Merge(t)
         \/ \E to \in Tables : RenameTable(t, to)
    \/ \E v \in Views : AddView(v) \/ DropView(v)
    \/ Persist \/ Crash \/ Shutdown

Spec == Init /\ [][Next]_vars

-----------------------------------------------------------------------------
(* Properties *)

\* The types of Chain, Schema and Info: the clock of a chain is never behind the
\* lastMod and created of its items (hamt.go Chain: "lastMod is set to the
\* current clock to mark an item as modified"), and ages is parallel to offs.
TypeOK ==
    /\ \A c \in {schema, info} :
         /\ DOMAIN c.items \subseteq Names /\ c.clock \in Nat
         /\ \A k \in DOMAIN c.items :
              /\ c.items[k] \in Item
              /\ c.items[k].lastMod <= c.clock /\ c.items[k].created <= c.clock
         /\ Len(c.ages) = Len(c.offs)
         /\ \A i \in DOMAIN c.ages : c.ages[i] < c.clock
         /\ \A i, j \in DOMAIN c.ages : i < j => c.ages[i] < c.ages[j]
    /\ pending \in [Tables -> 0 .. MaxPending]
    /\ modified \subseteq {t \in Tables : Has(info, t)}
    /\ since \in [Tables -> Nat] /\ changed \in BOOLEAN /\ size \in Nat

\* The last state in the file can be opened - "the checksum of the most recent
\* chunk is the checksum of the Hamt" (hamt.go:443) for both chains, and every
\* table that has info has a schema (ReadMeta) - and holds what was in memory
\* when it was persisted: nothing dropped comes back and no change is missing.
\* WriteChain writes "at least the newly modified items" (hamt.go:348), and
\* items are deleted without a tombstone if they were "not persisted"
\* (meta.go:359, 367).
DiskIsSaved ==
    /\ Readable(disk)
    /\ Live(ReadChain(disk.schema).items) = saved.schema
    /\ Live(ReadChain(disk.info).items) = saved.info

\* The chunk that holds the newest version of an item is one that a merge
\* reaching back to the item's lastMod rewrites: "ages are the oldest/min ages
\* in the chunks" (hamt.go:337), and WriteChain relies on it.
AgesCoverItems ==
    \A c \in {schema, info} : \A k \in Stored(c.offs) :
        k \in DOMAIN c.items =>
            c.items[k].lastMod >= c.ages[Newest(c.offs, k)]
=============================================================================
