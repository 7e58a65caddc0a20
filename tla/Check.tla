-------------------------------- MODULE Check --------------------------------
(***************************************************************************)
(* The transaction conflict checker of db19/check.go.                      *)
(*                                                                         *)
(* Check is single threaded: CheckCo runs one call of it at a time, so one *)
(* action below is one whole call (StartTran, Read, Output, ...), with the *)
(* aborts and the cleanEnded it makes.                                     *)
(*                                                                         *)
(* A transaction is identified by its start, a value of the counter seq.   *)
(* math.MaxInt is the constant MaxInt: it marks "not ended", "no oldest"   *)
(* and "exclusive now", and seq stays below it.  Go's zero value for a     *)
(* missing map entry is kept: exclusive[table] = 0 is "no entry", and      *)
(* NoActions is "no entry" of bytable.  An index key is a number and a     *)
(* read is a range of them on one index; a location is an index and a key. *)
(*                                                                         *)
(* Abstracted: outputs and deletes are one set of writes (the code tests   *)
(* both wherever it tests one); an aborted CkTran keeps only its failure;  *)
(* a call for a transaction that is gone returns at once and is no step;   *)
(* whether a read reaches readMax, or a write overflows an ordset, is left *)
(* to chance.                                                              *)
(*                                                                         *)
(* A definition named X_Y is X with a plausible mistake in it, used only   *)
(* to see that the properties detect the mistake.                          *)
(***************************************************************************)
EXTENDS Naturals

CONSTANTS
    Tables,     \* table names
    Indexes,    \* the indexes of a table
    Keys,       \* the key values of an index, numbers
    MaxAge,     \* ticks an update transaction may be outstanding
    MaxInt,     \* math.MaxInt; bounds seq
    AdminTables,\* tables that schema changes make exclusive
    MayCorrupt  \* whether an error in the file may be met

ASSUME CheckAssumption ==
    /\ Keys \subseteq Nat
    /\ MaxAge \in Nat \ {0}
    /\ MaxInt \in Nat
    /\ AdminTables \subseteq Tables
    /\ MayCorrupt \in BOOLEAN

Starts == {n \in 3 .. (MaxInt - 1) : n % 2 = 1}
Loc == Indexes \X Keys
Entry == Tables \X Loc

(* CkTran.  age is clock - birth: tick compares nothing else. *)
CkTran == [end : Starts \cup {MaxInt}, age : Nat, hasUpdates : BOOLEAN,
           readConflict : BOOLEAN, failed : BOOLEAN]
Actions == [writes : SUBSET Loc, reads : SUBSET Loc]

NewCkTran == [end |-> MaxInt, age |-> 0, hasUpdates |-> FALSE,
              readConflict |-> FALSE, failed |-> FALSE]
AbortedCkTran == [NewCkTran EXCEPT !.failed = TRUE]
NoActions == [writes |-> {}, reads |-> {}]
NoHistory == [reads |-> {}, writes |-> {}]

VARIABLES
    seq,        \* the counter behind start and end
    actvTran,   \* starts of the active transactions
    cmtdTran,   \* starts of the committed transactions still remembered
    ct,         \* the CkTran of each start
    bytable,    \* bytable[table][start], the actions of a transaction
    exclusive,  \* exclusive[table], 0 when there is no entry
    oldest,     \* start of the oldest active, or MaxInt: recompute
    corrupted,  \* Database.corrupted
    acked,      \* transactions whose Commit returned true
    hist,       \* history: everything each transaction read and wrote
    periods     \* history: the exclusive periods of the tables

vars == <<seq, actvTran, cmtdTran, ct, bytable, exclusive, oldest, corrupted,
          acked, hist, periods>>
history == <<acked, hist, periods>>

Init ==
    /\ seq = 1
    /\ actvTran = {} /\ cmtdTran = {}
    /\ ct = [t \in Starts |-> NewCkTran]
    /\ bytable = [table \in Tables |-> [t \in Starts |-> NoActions]]
    /\ exclusive = [table \in Tables |-> 0]
    /\ oldest = MaxInt
    /\ corrupted = FALSE
    /\ acked = {}
    /\ hist = [t \in Starts |-> NoHistory]
    /\ periods = {}
------------------------------------------------------------------------------
(* Bookkeeping shared by the calls *)

next_EveryNumber == seq + 1

next == seq + 2

CanStep == next < MaxInt

Ended(t) == ct[t].end # MaxInt

Overlap_Outstanding(t1, t2) == ~Ended(t1) /\ ~Ended(t2)

Overlap(t1, t2) == ct[t1].end > t2 /\ ct[t2].end > t1

OldestOf_Newest(S) ==
    IF S = {} THEN MaxInt ELSE CHOOSE m \in S : \A n \in S : m >= n

(* The start of the oldest of a set of active transactions. *)
OldestOf(S) ==
    IF S = {} THEN MaxInt ELSE CHOOSE m \in S : \A n \in S : m <= n

(* cleanEnded with removeByTable: live and cmtd are actvTran and cmtdTran  *)
(* when it is called, old is oldest, and the entries of the transactions   *)
(* of gone have been dropped from acts already.  cleaning is FALSE where   *)
(* the caller does not reach cleanEnded.                                   *)
CleanEnded(cleaning, old, live, cmtd, gone, cts, acts, excl) ==
    LET old2 == IF cleaning /\ old = MaxInt THEN OldestOf(live) ELSE old
        done == IF cleaning THEN {c \in cmtd : cts[c].end < old2} ELSE {}
    IN  /\ oldest' = old2
        /\ actvTran' = live
        /\ cmtdTran' = cmtd \ done
        /\ ct' = cts
        /\ bytable' = [table \in Tables |-> [t \in Starts |->
                        IF t \in gone \cup done THEN NoActions
                        ELSE acts[table][t]]]
        /\ exclusive' = [table \in Tables |->
                        IF cleaning /\ excl[table] < old2 THEN 0
                        ELSE excl[table]]

AbortAll_OldestKept(A, cts, acts, excl) ==
    LET out == A \cap actvTran
    IN  CleanEnded(FALSE, oldest, actvTran \ out, cmtdTran, out,
                   [t \in Starts |-> IF t \in out THEN AbortedCkTran ELSE cts[t]],
                   acts, excl)

(* Aborting the transactions of A one after the other, in any order.       *)
(* Those no longer active are skipped.                                     *)
AbortAll(A, cts, acts, excl) ==
    LET out == A \cap actvTran
        lost == out # {} /\ (oldest \in out \/ oldest = MaxInt)
    IN  CleanEnded(lost, IF lost THEN MaxInt ELSE oldest,
                   actvTran \ out, cmtdTran, out,
                   [t \in Starts |-> IF t \in out THEN AbortedCkTran ELSE cts[t]],
                   acts, excl)

(* abort1of for the transactions of C that conflict with an action of a    *)
(* transaction that has updates, in the order the map yields them: seen    *)
(* were settled, marking those without updates and aborting the others,    *)
(* before the actor itself was picked (loses) or until none was left.      *)
(* A conflict with an ended transaction always picks the actor.            *)
Abort1of(C, seen, loses) ==
    /\ seen \subseteq C
    /\ \A c \in seen : ct[c].hasUpdates => ~Ended(c)
    /\ IF loses THEN \E c \in C \ seen : ct[c].hasUpdates ELSE seen = C

Victims_Anyone(seen) == {c \in seen : ~Ended(c)}

Victims(seen) == {c \in seen : ct[c].hasUpdates}
Marked(seen) == {c \in seen : ~ct[c].hasUpdates}

WithConflict(cts, S) ==
    [t \in Starts |->
        IF t \in S THEN [cts[t] EXCEPT !.readConflict = TRUE] ELSE cts[t]]
------------------------------------------------------------------------------
(* StartTran.  GetState is taken in the same call, so a transaction sees   *)
(* the commits that ended before its start.                                *)
StartTran ==
    /\ CanStep
    /\ seq' = next
    /\ actvTran' = actvTran \cup {next}
    /\ ct' = [ct EXCEPT ![next] = NewCkTran]
    /\ UNCHANGED <<cmtdTran, bytable, exclusive, oldest, corrupted, history>>

(* History: what a transaction has read and written; forgotten when it is  *)
(* aborted or completes without updates.                                   *)
Record(t, read, written) ==
    hist' = [x \in Starts |->
        IF ct'[x].failed \/ (ct'[x].end # MaxInt /\ ~ct'[x].hasUpdates)
        THEN NoHistory
        ELSE IF x = t THEN [reads |-> hist[x].reads \cup read,
                            writes |-> hist[x].writes \cup written]
        ELSE hist[x]]

ForgetAborted == Record(MaxInt, {}, {})

Read(t, table, index, from, to) ==
    LET range == {index} \X {k \in Keys : from <= k /\ k <= to}
        C == {c \in Starts \ {t} : /\ Overlap(t, c)
                                   /\ bytable[table][c].writes \cap range # {}}
        saved == [bytable EXCEPT ![table][t].reads = @ \cup range]
    IN  /\ t \in actvTran
        /\ \/ /\ ct[t].readConflict
              /\ UNCHANGED <<actvTran, cmtdTran, ct, bytable, exclusive, oldest>>
           \/ /\ ~ct[t].readConflict /\ ~ct[t].hasUpdates
              /\ \E tooMany \in BOOLEAN :
                    AbortAll(IF tooMany THEN {t} ELSE {},
                             WithConflict(ct, IF C = {} THEN {} ELSE {t}),
                             saved, exclusive)
           \/ /\ ~ct[t].readConflict /\ ct[t].hasUpdates
              /\ \E seen \in SUBSET C, loses, tooMany \in BOOLEAN :
                    /\ Abort1of(C, seen, loses)
                    /\ AbortAll(Victims(seen)
                                    \cup (IF loses \/ tooMany THEN {t} ELSE {}),
                                WithConflict(ct, Marked(seen)),
                                saved, exclusive)
        /\ Record(t, {table} \X range, {})
        /\ UNCHANGED <<seq, corrupted, acked, periods>>

Late_Allowed(t) == FALSE

(* gotUpdate: the first update of a transaction with a read conflict. *)
Late(t) == ct[t].readConflict /\ ~ct[t].hasUpdates

Refused_OnlyDuring(t, table) == exclusive[table] = MaxInt

(* The table is exclusive, or was when the transaction started. *)
Refused(t, table) == t < exclusive[table]

(* What Output, Delete and Update have in common: gotUpdate, the exclusive *)
(* test, the check of the locations written against the reads of the       *)
(* outstanding transactions, and the save.                                 *)
Write(t, table, written) ==
    LET C == {c \in Starts \ {t} : /\ Overlap(t, c) /\ ~Ended(c)
                                   /\ bytable[table][c].reads \cap written # {}}
        gotUpdate == [ct EXCEPT ![t].hasUpdates = TRUE]
        saved == [bytable EXCEPT ![table][t].writes = @ \cup written]
    IN  /\ t \in actvTran
        /\ \/ /\ Late(t) \/ Refused(t, table)
              /\ AbortAll({t}, ct, bytable, exclusive)
           \/ /\ ~Late(t) /\ ~Refused(t, table)
              /\ \E seen \in SUBSET C, loses, tooMany \in BOOLEAN :
                    /\ Abort1of(C, seen, loses)
                    /\ AbortAll(Victims(seen)
                                    \cup (IF loses \/ tooMany THEN {t} ELSE {}),
                                WithConflict(gotUpdate, Marked(seen)),
                                saved, exclusive)
        /\ Record(t, {}, {table} \X written)
        /\ UNCHANGED <<seq, corrupted, acked, periods>>

(* The locations of a record: its key in each index. *)
KeyLocs(keys) == {<<i, keys[i]>> : i \in Indexes}

Output(t, table, keys) == Write(t, table, KeyLocs(keys))

Delete(t, table, keys) == Write(t, table, KeyLocs(keys))

(* The new keys that did not change are among the old keys, so leaving     *)
(* them out of the second loop leaves nothing unchecked.                   *)
Update(t, table, oldkeys, newkeys) ==
    Write(t, table, KeyLocs(oldkeys) \cup KeyLocs(newkeys))

Abort(t) ==
    /\ t \in actvTran
    /\ AbortAll({t}, ct, bytable, exclusive)
    /\ ForgetAborted
    /\ UNCHANGED <<seq, corrupted, acked, periods>>

OldestWithout(t) == IF t = oldest THEN MaxInt ELSE oldest

(* commit with commitByTable.  On a corrupted database the transaction is  *)
(* aborted, if it was not already, and the answer is still "committed".    *)
Commit(t) ==
    LET old == OldestWithout(t)
        kept == ct[t].hasUpdates
    IN  /\ \/ /\ corrupted /\ t <= seq /\ ~Ended(t)
              /\ AbortAll({t}, ct, bytable, exclusive)
              /\ UNCHANGED seq
           \/ /\ ~corrupted /\ CanStep
              /\ t \in actvTran
              /\ seq' = next
              /\ CleanEnded(old = MaxInt, old, actvTran \ {t},
                            IF kept THEN cmtdTran \cup {t} ELSE cmtdTran,
                            IF kept THEN {} ELSE {t},
                            [ct EXCEPT ![t].end = next],
                            [table \in Tables |->
                                [bytable[table] EXCEPT ![t].reads = {}]],
                            exclusive)
        /\ acked' = acked \cup {t}
        /\ ForgetAborted
        /\ UNCHANGED <<corrupted, periods>>

(* The writers of the table are aborted; a committed one is not affected.  *)
AddExclusive(table) ==
    /\ exclusive[table] # MaxInt
    /\ AbortAll({t \in Starts : bytable[table][t].writes # {}}, ct,
                bytable, [exclusive EXCEPT ![table] = MaxInt])
    /\ periods' = periods \cup {[table |-> table, from |-> seq, to |-> MaxInt]}
    /\ ForgetAborted
    /\ UNCHANGED <<seq, corrupted, acked>>

EndExclusive(table) ==
    /\ exclusive[table] = MaxInt /\ CanStep
    /\ seq' = next
    /\ CleanEnded(TRUE, oldest, actvTran, cmtdTran, {}, ct, bytable,
                  [exclusive EXCEPT ![table] = next])
    /\ periods' = {IF p.table = table /\ p.to = MaxInt
                   THEN [p EXCEPT !.to = next] ELSE p : p \in periods}
    /\ UNCHANGED <<corrupted, acked, hist>>

Older_WritersOnly ==
    [t \in Starts |-> IF t \in actvTran /\ ct[t].hasUpdates
                      THEN [ct[t] EXCEPT !.age = @ + 1] ELSE ct[t]]

(* tick aborts the transactions that have become MaxAge old. *)
Older == [t \in Starts |-> IF t \in actvTran
                           THEN [ct[t] EXCEPT !.age = @ + 1] ELSE ct[t]]

Tick ==
    /\ actvTran # {}
    /\ AbortAll({t \in actvTran : Older[t].age >= MaxAge}, Older, bytable,
                exclusive)
    /\ ForgetAborted
    /\ UNCHANGED <<seq, corrupted, acked, periods>>

(* Database.Corrupt, called by whoever meets an error in the file. *)
Corrupt ==
    /\ MayCorrupt /\ ~corrupted
    /\ corrupted' = TRUE
    /\ UNCHANGED <<seq, actvTran, cmtdTran, ct, bytable, exclusive, oldest,
                   history>>

Next ==
    \/ StartTran
    \/ \E t \in Starts, table \in Tables :
        \/ \E index \in Indexes, from, to \in Keys :
                from <= to /\ Read(t, table, index, from, to)
        \/ \E keys \in [Indexes -> Keys] :
                Output(t, table, keys) \/ Delete(t, table, keys)
        \/ \E old, new \in [Indexes -> Keys] : Update(t, table, old, new)
    \/ \E t \in Starts : Abort(t) \/ Commit(t)
    \/ \E table \in AdminTables : AddExclusive(table) \/ EndExclusive(table)
    \/ Tick
    \/ Corrupt

Spec == Init /\ [][Next]_vars

(* tickGenerator calls tick once a second for as long as the database is   *)
(* open.                                                                   *)
FairSpec == Spec /\ WF_vars(Tick)
------------------------------------------------------------------------------
(* Properties *)

TypeOK ==
    /\ seq \in {1} \cup Starts
    /\ actvTran \subseteq Starts
    /\ cmtdTran \subseteq Starts
    /\ ct \in [Starts -> CkTran]
    /\ bytable \in [Tables -> [Starts -> Actions]]
    /\ exclusive \in [Tables -> Starts \cup {0, MaxInt}]
    /\ oldest \in Starts \cup {MaxInt}
    /\ corrupted \in BOOLEAN
    /\ acked \subseteq Starts
    /\ hist \in [Starts -> [reads : SUBSET Entry, writes : SUBSET Entry]]
    /\ periods \subseteq [table : Tables, from : {1} \cup Starts,
                          to : Starts \cup {MaxInt}]

Committed(t) == Ended(t) /\ ct[t].hasUpdates

(* "It verifies that a sequence of reads and writes are serializable"      *)
(* (check.go:20).  Update transactions are serializable in the order of    *)
(* their commits: what a committed transaction read from the state of its  *)
(* start was not written by any transaction that committed in between, so  *)
(* it would have read the same at its commit.                              *)
Serializable ==
    \A t, c \in Starts :
        /\ t # c /\ Committed(t) /\ Committed(c)
        /\ t < ct[c].end /\ ct[c].end < ct[t].end
        => hist[t].reads \cap hist[c].writes = {}

(* The rules of VerifyConsistency (check_verify.go), which the code checks *)
(* on demand: the remembered committed transactions are newer than the     *)
(* oldest active one, bytable has only entries of remembered transactions, *)
(* and oldest is right or to be recomputed.                                *)
VerifyConsistency ==
    /\ \A c \in cmtdTran : actvTran # {} => ct[c].end > OldestOf(actvTran)
    /\ \A table \in Tables, t \in Starts :
            bytable[table][t] # NoActions => t \in actvTran \cup cmtdTran
    /\ oldest \in {MaxInt, OldestOf(actvTran)}

(* commit's assertion that a transaction with updates has no read conflict *)
(* (check.go:583), and the assertions of Read, Output, Delete and Update   *)
(* that an active transaction has not ended.                               *)
AssertionsHold ==
    \A t \in actvTran : ~Ended(t) /\ ~(ct[t].hasUpdates /\ ct[t].readConflict)

(* A committed transaction that an active one overlaps is still remembered *)
(* with all its writes: cleanEnded forgets none that can still conflict.   *)
RememberedWhileOverlapping ==
    \A c \in Starts, t \in actvTran :
        Committed(c) /\ ct[c].end > t =>
            /\ c \in cmtdTran
            /\ \A table \in Tables, loc \in Loc : <<table, loc>> \in hist[c].writes =>
                  loc \in bytable[table][c].writes

(* AddExclusive .. EndExclusive: a transaction that commits a write to the *)
(* table has ended before the period began or started after it ended ("we  *)
(* still block transactions that started previously", check.go:182).       *)
ExclusiveRespected ==
    \A p \in periods, t \in Starts :
        Committed(t) /\ (\E e \in hist[t].writes : e[1] = p.table)
            => ct[t].end <= p.from \/ t > p.to

(* abort1of only marks a transaction that has made no updates: no action   *)
(* of another transaction aborts it.                                       *)
ReadersAreNotVictims ==
    [][\A t, c \in Starts :
        /\ t # c /\ t \in actvTran /\ ~ct[t].hasUpdates
        /\ hist[c] # hist'[c] /\ ~ct'[c].failed
        => t \in actvTran']_vars

(* Commit "returns false if the transaction is not found (e.g. already     *)
(* aborted)" (check.go:558): it answers true only for one that is active.  *)
AckedWasFound ==
    [][\A t \in Starts : t \in acked' \ acked => t \in actvTran]_vars

(* No update transaction stays outstanding: tick ends the ones that        *)
(* neither commit nor abort.                                               *)
EveryTranEnds ==
    \A t \in Starts : t \in actvTran ~> t \notin actvTran
==============================================================================
