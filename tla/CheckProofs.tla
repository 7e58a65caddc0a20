--------------------------- MODULE CheckProofs ----------------------------
(***************************************************************************)
(* The safety properties of Check, for any tables, indexes and keys, any   *)
(* MaxAge and any bound of the counter.                                    *)
(*                                                                         *)
(* The inductive invariant IInv comes first, then what the calls of the    *)
(* checker have in common: the aborts that they make, the clean up after   *)
(* them, and the check of an action against the overlapping transactions.  *)
(* Each call then has a lemma of its own.  The results follow, the last of *)
(* them, about the victims of a step, with an invariant of its own.        *)
(***************************************************************************)
EXTENDS Check, WellFoundedInduction, TLAPS

(* What the checker knows of time: active transactions have started and    *)
(* not ended, ended ones ended after their start and before now, and no    *)
(* transaction starts at the moment another one ends.                      *)
Times ==
    /\ \A t \in actvTran : t <= seq /\ ct[t].end = MaxInt /\ ~ct[t].failed
    /\ \A t \in Starts : Ended(t) => /\ t < ct[t].end /\ ct[t].end <= seq
                                     /\ ~ct[t].failed
    /\ \A t \in actvTran, c \in Starts : ct[c].end # t
    /\ \A c \in cmtdTran : Committed(c)
    /\ \A t \in Starts : t > seq => hist[t] = NoHistory

(* What Check.oldest may be: unknown, or the least of the active starts.   *)
IsOldest(old, live) ==
    old = MaxInt \/ (old \in live /\ \A a \in live : old <= a)

(* What cleanEnded may forget and what it must forget. *)
Remembered ==
    /\ IsOldest(oldest, actvTran)
    /\ \A c \in Starts : Committed(c) /\ c \notin cmtdTran
            => \A a \in actvTran : ct[c].end < a
    /\ \A c \in cmtdTran : \E a \in actvTran : a < ct[c].end
    /\ \A table \in Tables, t \in Starts :
            t \notin actvTran \cup cmtdTran => bytable[table][t] = NoActions

(* bytable holds what the transactions did, apart from the reads after a   *)
(* read conflict.                                                          *)
Tracked ==
    /\ \A table \in Tables, loc \in Loc, t \in actvTran \cup cmtdTran :
            <<table, loc>> \in hist[t].writes => loc \in bytable[table][t].writes
    /\ \A table \in Tables, loc \in Loc, t \in actvTran :
            <<table, loc>> \in hist[t].reads /\ ~ct[t].readConflict
                => loc \in bytable[table][t].reads
    /\ \A table \in Tables, t \in actvTran :
            bytable[table][t].writes # {} => ct[t].hasUpdates
    /\ \A t \in actvTran : ~(ct[t].hasUpdates /\ ct[t].readConflict)

(* Every conflict with an overlapping transaction has been acted upon. *)
Disjoint ==
    \A t \in actvTran, c \in actvTran \cup cmtdTran :
        t # c /\ ~ct[t].readConflict /\ ct[c].end > t
            => \A table \in Tables, loc \in Loc :
                    ~(loc \in bytable[table][t].reads /\ loc \in bytable[table][c].writes)

(* The exclusive periods: an ongoing one is in exclusive, an ended one is  *)
(* until no transaction that started before its end is active, and such a  *)
(* transaction has not written to the table.                               *)
PeriodsAt(now, P, live, acts, excl) ==
    \A p \in P :
        /\ p.from <= now /\ (p.to # MaxInt => p.to <= now)
        /\ p.to \notin live
        /\ p.to = MaxInt => excl[p.table] = MaxInt
        /\ p.to <= excl[p.table] \/ \A a \in live : p.to < a
        /\ \A t \in live : acts[p.table][t].writes # {} => p.to < t

Periods == PeriodsAt(seq, periods, actvTran, bytable, exclusive)

(* The inductive invariant. *)
IInv == TypeOK /\ Times /\ Remembered /\ Tracked /\ Disjoint /\ Serializable
        /\ Periods /\ ExclusiveRespected
------------------------------------------------------------------------------
(* Starts and times are natural numbers below MaxInt. *)
LEMMA StartsAreNumbers ==
    /\ Starts \subseteq Nat /\ MaxInt \in Nat
    /\ \A t \in Starts : 0 < t /\ t < MaxInt
    /\ \A n \in Starts \cup {0, MaxInt} : n \in Nat /\ n <= MaxInt
    /\ 0 \notin Starts /\ MaxInt \notin Starts
  BY CheckAssumption DEF Starts

(* next is a value that was not used before. *)
LEMMA NextIsNew ==
    ASSUME TypeOK, CanStep
    PROVE  /\ next \in Starts /\ next \in Nat /\ seq \in Nat /\ seq < next
  BY CheckAssumption DEF TypeOK, CanStep, next, Starts

(* A non-empty set of natural numbers has a least element. *)
LEMMA LeastExists ==
    ASSUME NEW S \in SUBSET Nat, S # {}
    PROVE  \E m \in S : \A n \in S : m <= n
<1> DEFINE R == {ss \in Nat \X Nat : ss[1] < ss[2]}
<1>1. IsWellFoundedOn(R, Nat)
  BY NatLessThanWellFounded, Zenon DEF OpToRel
<1> HIDE DEF R
<1>2. PICK x \in S : \A y \in S : ~ (<<y, x>> \in R)
  BY <1>1, WFMin, Zenon
<1>3. \A y \in S : ~ (y < x)
  BY Zenon, <1>2 DEF R
<1>4. QED
  BY <1>3

(* cleanEnded's search for the oldest active transaction finds it. *)
LEMMA OldestOfIsOldest ==
    ASSUME NEW S \in SUBSET Starts
    PROVE  /\ IsOldest(OldestOf(S), S)
           /\ OldestOf(S) \in Starts \cup {MaxInt}
           /\ OldestOf(S) = MaxInt => S = {}
<1>1. CASE S = {}
  BY Zenon, <1>1 DEF OldestOf, IsOldest
<1>2. CASE S # {}
  <2>1. \E m \in S : \A n \in S : m <= n
    BY Zenon, <1>2, StartsAreNumbers, LeastExists
  <2>2. OldestOf(S) \in S /\ \A n \in S : OldestOf(S) <= n
    BY Zenon, <1>2, <2>1 DEF OldestOf
  <2>3. QED
    BY Zenon, <2>2, StartsAreNumbers DEF IsOldest
<1>3. QED
  BY Zenon, <1>1, <1>2

(* What cleanEnded leaves behind: an oldest that is right, the entries of  *)
(* the transactions it keeps, and the exclusives that can still refuse.    *)
Kept(cleaning, live, cmtd, gone, cts, acts, excl) ==
    /\ actvTran' = live
    /\ ct' = cts
    /\ oldest' \in Starts \cup {MaxInt}
    /\ IsOldest(oldest', live)
    /\ cmtdTran' \subseteq cmtd
    /\ \A c \in cmtd \ cmtdTran', a \in live : cts[c].end < a
    /\ cleaning => /\ oldest' = MaxInt => live = {}
                   /\ \A c \in cmtdTran' : oldest' <= cts[c].end
    /\ ~cleaning => cmtdTran' = cmtd
    /\ bytable' \in [Tables -> [Starts -> Actions]]
    /\ \A table \in Tables, t \in Starts :
          bytable'[table][t] = IF t \in gone \cup (cmtd \ cmtdTran')
                               THEN NoActions ELSE acts[table][t]
    /\ exclusive' \in [Tables -> Starts \cup {0, MaxInt}]
    /\ \A table \in Tables :
          \/ exclusive'[table] = excl[table]
          \/ excl[table] # MaxInt /\ \A a \in live : excl[table] < a

(* cleanEnded, called with an oldest that is right or to be recomputed.    *)
LEMMA CleanEndedKeeps ==
    ASSUME TypeOK,
           NEW cleaning \in BOOLEAN, NEW old \in Starts \cup {MaxInt},
           NEW live \in SUBSET Starts, NEW cmtd \in SUBSET Starts,
           NEW gone \in SUBSET Starts, NEW cts \in [Starts -> CkTran],
           NEW acts \in [Tables -> [Starts -> Actions]],
           NEW excl \in [Tables -> Starts \cup {0, MaxInt}],
           IsOldest(old, live),
           CleanEnded(cleaning, old, live, cmtd, gone, cts, acts, excl)
    PROVE  Kept(cleaning, live, cmtd, gone, cts, acts, excl)
<1> DEFINE old2 == IF cleaning /\ old = MaxInt THEN OldestOf(live) ELSE old
           done == IF cleaning THEN {c \in cmtd : cts[c].end < old2} ELSE {}
<1>1. /\ oldest' = old2 /\ actvTran' = live /\ cmtdTran' = cmtd \ done /\ ct' = cts
      /\ bytable' = [table \in Tables |-> [t \in Starts |->
                        IF t \in gone \cup done THEN NoActions
                        ELSE acts[table][t]]]
      /\ exclusive' = [table \in Tables |->
                        IF cleaning /\ excl[table] < old2 THEN 0
                        ELSE excl[table]]
  BY Zenon DEF CleanEnded
<1>2. /\ old2 \in Starts \cup {MaxInt} /\ IsOldest(old2, live)
      /\ cleaning /\ old2 = MaxInt => live = {}
  BY Zenon, OldestOfIsOldest
<1>3. /\ old2 \in Nat /\ \A c \in Starts : cts[c].end \in Nat
      /\ \A a \in live : a \in Nat /\ (old2 # MaxInt => old2 <= a)
  BY Zenon, <1>2, StartsAreNumbers DEF IsOldest, CkTran
<1>4. done \subseteq cmtd /\ cmtd \ cmtdTran' = done
  BY Zenon, <1>1
<1> HIDE DEF old2
<1>5. \A c \in done, a \in live : cts[c].end < a
  BY <1>2, <1>3
<1>6. cleaning => \A c \in cmtdTran' : old2 <= cts[c].end
  BY <1>1, <1>3
<1>7. NoActions \in Actions
  BY Zenon DEF NoActions, Actions
<1>8. bytable' \in [Tables -> [Starts -> Actions]]
  BY Zenon, <1>1, <1>7
<1>9. /\ exclusive' \in [Tables -> Starts \cup {0, MaxInt}]
      /\ \A table \in Tables :
            \/ exclusive'[table] = excl[table]
            \/ excl[table] # MaxInt /\ \A a \in live : excl[table] < a
  <2>1. \A table \in Tables : excl[table] \in Nat /\ excl[table] <= MaxInt
    BY Zenon, StartsAreNumbers
  <2>2. exclusive' \in [Tables -> Starts \cup {0, MaxInt}]
    BY Zenon, <1>1
  <2>3. ASSUME NEW table \in Tables, exclusive'[table] # excl[table]
        PROVE  excl[table] # MaxInt /\ \A a \in live : excl[table] < a
    <3>1. cleaning /\ excl[table] < old2
      BY Zenon, <1>1, <2>3
    <3>2. excl[table] # MaxInt
      BY <1>2, <2>1, <3>1, StartsAreNumbers
    <3>3. \A a \in live : excl[table] < a
      BY <1>2, <1>3, <2>1, <3>1
    <3>4. QED
      BY Zenon, <3>2, <3>3
  <2>4. QED
    BY Zenon, <2>2, <2>3
<1>10. QED
  BY Zenon, <1>1, <1>2, <1>4, <1>5, <1>6, <1>8, <1>9 DEF Kept
------------------------------------------------------------------------------
(* How the checker's data is when cleanEnded is called. *)
Cleanable(cleaning, live, cmtd, gone, cts, acts) ==
    /\ cleaning \in BOOLEAN
    /\ cmtd \subseteq Starts
    /\ cts \in [Starts -> CkTran]
    /\ \A c \in cmtd : cts[c].end # MaxInt
    /\ \A a \in live, c \in Starts : cts[c].end # a
    /\ ~cleaning => \A c \in cmtd : \E a \in live : a < cts[c].end
    /\ \A c \in Starts : cts[c].end # MaxInt /\ cts[c].hasUpdates /\ c \notin cmtd
            => \A a \in live : cts[c].end < a
    /\ \A table \in Tables, t \in Starts :
            t \notin live \cup cmtd \cup gone => acts[table][t] = NoActions

(* What cleanEnded forgets can conflict with nothing any more, and what it *)
(* keeps is newer than the oldest active transaction.                      *)
LEMMA CleanEndedRemembers ==
    ASSUME NEW cleaning, NEW live, NEW cmtd, NEW gone, NEW cts, NEW acts, NEW excl,
           Cleanable(cleaning, live, cmtd, gone, cts, acts),
           Kept(cleaning, live, cmtd, gone, cts, acts, excl)
    PROVE  Remembered'
<1> USE DEF Cleanable
<1>1. IsOldest(oldest, actvTran)'
  BY Zenon DEF Kept, IsOldest
<1>2. ASSUME NEW c \in Starts, Committed(c)', c \notin cmtdTran'
      PROVE  \A a \in actvTran' : ct'[c].end < a
  BY Zenon, <1>2 DEF Kept, Committed, Ended
<1>3. ASSUME NEW c \in cmtdTran'
      PROVE  \E a \in actvTran' : a < ct'[c].end
  <2>1. /\ c \in cmtd /\ c \in Starts /\ actvTran' = live /\ ct' = cts
        /\ cts[c].end \in Starts
    BY ZenonT(60), <1>3 DEF Kept, CkTran
  <2>2. CASE cleaning
    <3>1. oldest' <= cts[c].end /\ oldest' \in Starts \cup {MaxInt}
      BY Zenon, <1>3, <2>2 DEF Kept
    <3>a. /\ oldest' \in Nat /\ MaxInt \in Nat
          /\ cts[c].end \in Nat /\ cts[c].end < MaxInt
      BY Zenon, <2>1, <3>1, StartsAreNumbers
    <3>2. oldest' # MaxInt
      BY <3>1, <3>a
    <3>3. oldest' \in live
      BY Zenon, <3>2 DEF Kept, IsOldest
    <3>4. oldest' # cts[c].end
      BY Zenon, <2>1, <3>3
    <3>5. oldest' < cts[c].end
      BY <3>1, <3>4, <3>a
    <3>6. QED
      BY Zenon, <2>1, <3>3, <3>5
  <2>3. CASE ~cleaning
    BY Zenon, <2>1, <2>3
  <2>4. QED
    BY Zenon, <2>2, <2>3
<1>4. ASSUME NEW table \in Tables, NEW t \in Starts,
             t \notin actvTran' \cup cmtdTran'
      PROVE  bytable'[table][t] = NoActions
  BY <1>4 DEF Kept
<1>5. QED
  BY Zenon, <1>1, <1>2, <1>3, <1>4 DEF Remembered

(* What Read, Output, Delete, Update, Abort, AddExclusive and tick have in *)
(* common: they change the records of active transactions only, abort some *)
(* of them, and record the reads rd and the writes wr of u.                *)
Doing(A, cts, acts, excl, u, rd, wr) ==
    /\ AbortAll(A, cts, acts, excl)
    /\ Record(u, rd, wr)
    /\ seq' = seq
    /\ A \subseteq Starts
    /\ cts \in [Starts -> CkTran]
    /\ acts \in [Tables -> [Starts -> Actions]]
    /\ excl \in [Tables -> Starts \cup {0, MaxInt}]
    /\ \A t \in Starts : cts[t].end = ct[t].end /\ cts[t].failed = ct[t].failed
    /\ \A t \in Starts \ actvTran : cts[t] = ct[t]
    /\ \A table \in Tables, t \in Starts \ actvTran :
            acts[table][t] = bytable[table][t]
    /\ u \in actvTran \cup {MaxInt}
    /\ rd \subseteq Entry /\ wr \subseteq Entry

(* Whether the oldest transaction was, or may have been, among those of A. *)
Lost(A) ==
    A \cap actvTran # {} /\ (oldest \in A \cap actvTran \/ oldest = MaxInt)

(* The transactions after those of A have been aborted. *)
AfterAbort(A, cts) ==
    [t \in Starts |-> IF t \in A \cap actvTran THEN AbortedCkTran ELSE cts[t]]

(* The aborts of a call leave what cleanEnded leaves. *)
LEMMA AbortAllKeeps ==
    ASSUME TypeOK, Remembered,
           NEW A, NEW cts, NEW acts, NEW excl, NEW u, NEW rd, NEW wr,
           Doing(A, cts, acts, excl, u, rd, wr)
    PROVE  /\ AfterAbort(A, cts) \in [Starts -> CkTran]
           /\ Kept(Lost(A), actvTran \ A, cmtdTran, A \cap actvTran,
                   AfterAbort(A, cts), acts, excl)
<1>1. AbortedCkTran \in CkTran
  BY Zenon DEF AbortedCkTran, NewCkTran, CkTran
<1>2. AfterAbort(A, cts) \in [Starts -> CkTran]
  BY Zenon, <1>1 DEF AfterAbort, Doing
<1>3. CleanEnded(Lost(A), IF Lost(A) THEN MaxInt ELSE oldest, actvTran \ A,
                 cmtdTran, A \cap actvTran, AfterAbort(A, cts), acts, excl)
  <2>1. actvTran \ (A \cap actvTran) = actvTran \ A
    BY Zenon
  <2>2. QED
    BY <2>1, Zenon DEF Doing, AbortAll, Lost, AfterAbort
<1>4. IsOldest(IF Lost(A) THEN MaxInt ELSE oldest, actvTran \ A)
  BY Zenon DEF Remembered, IsOldest, Lost
<1>5. QED
  <2>1. /\ (IF Lost(A) THEN MaxInt ELSE oldest) \in Starts \cup {MaxInt}
        /\ actvTran \ A \in SUBSET Starts /\ cmtdTran \in SUBSET Starts
        /\ A \cap actvTran \in SUBSET Starts /\ Lost(A) \in BOOLEAN
        /\ acts \in [Tables -> [Starts -> Actions]]
        /\ excl \in [Tables -> Starts \cup {0, MaxInt}]
    BY Zenon DEF TypeOK, Doing, Lost
  <2>2. QED
    BY Zenon, <1>2, <1>3, <1>4, <2>1, CleanEndedKeeps
(* Ended transactions stay as they are, and of the active ones those of A  *)
(* are aborted.                                                            *)
LEMMA DoingEffect ==
    ASSUME TypeOK, Times, Remembered,
           NEW A, NEW cts, NEW acts, NEW excl, NEW u, NEW rd, NEW wr,
           Doing(A, cts, acts, excl, u, rd, wr)
    PROVE  /\ actvTran' = actvTran \ A
           /\ ct' \in [Starts -> CkTran]
           /\ \A t \in Starts : ct'[t].end = ct[t].end
           /\ \A t \in Starts : Ended(t) => ct'[t] = ct[t]
           /\ \A t \in actvTran' : ct'[t] = cts[t]
           /\ \A t \in A \cap actvTran : ct'[t] = AbortedCkTran
<1>1. /\ AfterAbort(A, cts) \in [Starts -> CkTran]
      /\ actvTran' = actvTran \ A /\ ct' = AfterAbort(A, cts)
  BY Zenon, AbortAllKeeps DEF Kept
<1>2. \A t \in Starts : ct'[t] = IF t \in A \cap actvTran THEN AbortedCkTran ELSE cts[t]
  BY Zenon, <1>1 DEF AfterAbort
<1>3. AbortedCkTran.end = MaxInt
  BY Zenon DEF AbortedCkTran, NewCkTran
<1>4. \A t \in Starts : ct'[t].end = ct[t].end
  BY <1>2, <1>3 DEF Times, Doing
<1>5. \A t \in Starts : Ended(t) => t \notin actvTran
  BY Zenon DEF Times, Ended
<1>6. \A t \in Starts : Ended(t) => ct'[t] = ct[t]
  BY Zenon, <1>2, <1>5 DEF Doing
<1>7. QED
  BY Zenon, <1>1, <1>2, <1>4, <1>6 DEF TypeOK, Doing

(* The history changes only for u and for the transactions that are gone.  *)
Recorded(u, rd, wr) ==
    /\ hist' \in [Starts -> [reads : SUBSET Entry, writes : SUBSET Entry]]
    /\ \A t \in Starts : Committed(t) => hist'[t] = hist[t]
    /\ \A t \in Starts : t > seq => hist'[t] = NoHistory
    /\ \A t \in actvTran' : t # u => hist'[t] = hist[t]
    /\ u \in actvTran' => hist'[u] = [reads |-> hist[u].reads \cup rd,
                                     writes |-> hist[u].writes \cup wr]

(* Record, after the aborts of a call. *)
LEMMA DoingRecords ==
    ASSUME TypeOK, Times, Remembered,
           NEW A, NEW cts, NEW acts, NEW excl, NEW u, NEW rd, NEW wr,
           Doing(A, cts, acts, excl, u, rd, wr)
    PROVE  Recorded(u, rd, wr)
<1> DEFINE Gone(x) == ct'[x].failed \/ (ct'[x].end # MaxInt /\ ~ct'[x].hasUpdates)
           More(x) == [reads |-> hist[x].reads \cup rd,
                       writes |-> hist[x].writes \cup wr]
<1>1. hist' = [x \in Starts |-> IF Gone(x) THEN NoHistory
                               ELSE IF x = u THEN More(x) ELSE hist[x]]
  BY Zenon DEF Doing, Record
<1>2. /\ NoHistory \in [reads : SUBSET Entry, writes : SUBSET Entry]
      /\ \A x \in Starts : More(x) \in [reads : SUBSET Entry, writes : SUBSET Entry]
  BY Zenon DEF TypeOK, NoHistory, Doing
<1>3. /\ u \in actvTran => ct[u].end = MaxInt /\ u <= seq
      /\ MaxInt \notin Starts /\ actvTran \subseteq Starts
      /\ u \in actvTran \cup {MaxInt}
  BY Zenon, StartsAreNumbers DEF Times, Doing, TypeOK
<1>4. \A t \in Starts : Committed(t) => ~Gone(t) /\ t # u
  BY <1>3, DoingEffect DEF Times, Committed, Ended
<1>5. \A t \in actvTran' : t \in Starts /\ ~Gone(t)
  <2>1. ASSUME NEW t \in actvTran' PROVE t \in Starts /\ ~Gone(t)
    <3>1. t \in actvTran /\ ct'[t] = cts[t] /\ t \in Starts
      BY <1>3, DoingEffect
    <3>2. cts[t].end = MaxInt /\ cts[t].failed = FALSE
      BY <3>1 DEF Times, Doing, TypeOK, CkTran
    <3>3. QED
      BY Zenon, <3>1, <3>2
  <2>2. QED
    BY Zenon, <2>1
<1>6. \A t \in Starts : t > seq => t # u
  <2>1. seq \in Nat
    BY StartsAreNumbers DEF TypeOK
  <2>2. QED
    BY <1>3, <2>1, StartsAreNumbers
<1> HIDE DEF Gone
<1>7. \A t \in Starts : t > seq => hist'[t] = NoHistory
  BY Zenon, <1>1, <1>6 DEF Times
<1>8. hist' \in [Starts -> [reads : SUBSET Entry, writes : SUBSET Entry]]
  BY Zenon, <1>1, <1>2 DEF TypeOK
<1> HIDE DEF More
<1>9. \A t \in Starts : Committed(t) => hist'[t] = hist[t]
  BY Zenon, <1>1, <1>4
<1>10. /\ \A t \in actvTran' : t # u => hist'[t] = hist[t]
       /\ u \in actvTran' => hist'[u] = More(u)
  BY Zenon, <1>1, <1>5
<1>11. QED
  BY Zenon, <1>7, <1>8, <1>9, <1>10 DEF More, Recorded
(* The same transactions are committed, at the same times. *)
LEMMA DoingCommitted ==
    ASSUME TypeOK, Times, Remembered,
           NEW A, NEW cts, NEW acts, NEW excl, NEW u, NEW rd, NEW wr,
           Doing(A, cts, acts, excl, u, rd, wr)
    PROVE  \A t \in Starts :
              /\ Ended(t)' <=> Ended(t)
              /\ Committed(t)' <=> Committed(t)
              /\ ct'[t].end = ct[t].end
              /\ Committed(t) => hist'[t] = hist[t]
<1>1. Recorded(u, rd, wr)
  BY Zenon, DoingRecords
<1>2. \A t \in Starts : ct'[t].end = ct[t].end /\ (Ended(t) => ct'[t] = ct[t])
  BY Zenon, DoingEffect
<1>3. QED
  BY Zenon, <1>1, <1>2 DEF Recorded, Committed, Ended

(* The part of the invariant that the calls preserve for the same reason.  *)
LEMMA DoingPreserves ==
    ASSUME TypeOK, Times, Remembered, Serializable,
           NEW A, NEW cts, NEW acts, NEW excl, NEW u, NEW rd, NEW wr,
           Doing(A, cts, acts, excl, u, rd, wr)
    PROVE  Times' /\ Remembered' /\ Serializable'
<1>0. /\ AfterAbort(A, cts) \in [Starts -> CkTran]
      /\ Kept(Lost(A), actvTran \ A, cmtdTran, A \cap actvTran,
              AfterAbort(A, cts), acts, excl)
  BY Zenon, AbortAllKeeps
<1>1. /\ actvTran' = actvTran \ A /\ actvTran \subseteq Starts /\ seq' = seq
      /\ cmtdTran' \subseteq cmtdTran /\ cmtdTran \subseteq Starts
  BY Zenon, <1>0 DEF Kept, TypeOK, Doing
<1>2. Times'
  <2>1. \A t \in actvTran' : t <= seq' /\ ct'[t].end = MaxInt /\ ~ct'[t].failed
    BY <1>1, DoingEffect DEF Times, Doing
  <2>2. \A t \in Starts : Ended(t)' => /\ t < ct'[t].end /\ ct'[t].end <= seq'
                                       /\ ~ct'[t].failed
    BY Zenon, <1>1, DoingEffect, DoingCommitted DEF Times
  <2>3. \A t \in actvTran', c \in Starts : ct'[c].end # t
    BY <1>1, DoingEffect DEF Times
  <2>4. \A c \in cmtdTran' : Committed(c)'
    BY Zenon, <1>1, DoingCommitted DEF Times
  <2>5. \A t \in Starts : t > seq' => hist'[t] = NoHistory
    <3>1. Recorded(u, rd, wr)
      BY Zenon, DoingRecords
    <3>2. QED
      BY Zenon, <1>1, <3>1 DEF Recorded
  <2>6. QED
    BY ZenonT(60), <2>1, <2>2, <2>3, <2>4, <2>5 DEF Times
<1>3. Remembered'
  <2> DEFINE N == AfterAbort(A, cts)
             live == actvTran \ A
             gone == A \cap actvTran
  <2>1. /\ N \in [Starts -> CkTran] /\ ct' = N
        /\ Kept(Lost(A), live, cmtdTran, gone, N, acts, excl)
    BY Zenon, <1>0 DEF Kept
  <2>2. \A t \in Starts : N[t].end = ct[t].end
    BY Zenon, <2>1, DoingEffect
  <2>3. \A c \in cmtdTran : N[c].end # MaxInt
    BY Zenon, <1>1, <2>2 DEF Times, Committed, Ended
  <2>4. \A a \in live, c \in Starts : N[c].end # a
    BY Zenon, <2>2 DEF Times
  <2>5. ASSUME ~Lost(A) PROVE \A c \in cmtdTran : \E a \in live : a < N[c].end
    <3>1. CASE gone = {}
      <4>1. live = actvTran
        BY Zenon, <3>1
      <4>2. QED
        BY Zenon, <1>1, <2>2, <4>1 DEF Remembered
    <3>2. CASE gone # {}
      <4>1. oldest \in live /\ \A a \in actvTran : oldest <= a
        BY Zenon, <2>5, <3>2 DEF Lost, Remembered, IsOldest
      <4>2. ASSUME NEW c \in cmtdTran PROVE oldest < N[c].end
        <5>1. PICK a \in actvTran : a < ct[c].end
          BY Zenon DEF Remembered
        <5>2. oldest <= a /\ oldest \in Nat /\ a \in Nat
          BY Zenon, <1>1, <4>1, StartsAreNumbers
        <5>3. N[c].end = ct[c].end /\ ct[c].end \in Nat
          BY Zenon, <1>1, <2>2, StartsAreNumbers DEF TypeOK, CkTran
        <5>4. QED
          BY <5>1, <5>2, <5>3
      <4>3. QED
        BY Zenon, <4>1, <4>2
    <3>3. QED
      BY Zenon, <3>1, <3>2
  <2>6. \A c \in Starts : N[c].end # MaxInt /\ N[c].hasUpdates /\ c \notin cmtdTran
            => \A a \in live : N[c].end < a
    BY Zenon, <2>1, DoingCommitted DEF Remembered, Committed, Ended
  <2>7. \A table \in Tables, t \in Starts :
            t \notin live \cup cmtdTran \cup gone => acts[table][t] = NoActions
    BY DEF Remembered, Doing
  <2> HIDE DEF N, live, gone
  <2>8. Cleanable(Lost(A), live, cmtdTran, gone, N, acts)
    BY Zenon, <1>1, <2>1, <2>3, <2>4, <2>5, <2>6, <2>7 DEF Cleanable, Lost
  <2>9. QED
    BY Zenon, <2>1, <2>8, CleanEndedRemembers
<1>4. Serializable'
  BY Zenon, DoingCommitted DEF Serializable
<1>5. QED
  BY Zenon, <1>2, <1>3, <1>4

(* The variables that a call sets have their types. *)
LEMMA DoingTypes ==
    ASSUME TypeOK, Times, Remembered,
           NEW A, NEW cts, NEW acts, NEW excl, NEW u, NEW rd, NEW wr,
           Doing(A, cts, acts, excl, u, rd, wr),
           corrupted' \in BOOLEAN, acked' \subseteq Starts,
           periods' \subseteq [table : Tables, from : {1} \cup Starts,
                               to : Starts \cup {MaxInt}]
    PROVE  TypeOK'
<1>1. Kept(Lost(A), actvTran \ A, cmtdTran, A \cap actvTran,
           AfterAbort(A, cts), acts, excl)
  BY Zenon, AbortAllKeeps
<1>2. ct' \in [Starts -> CkTran]
  BY Zenon, DoingEffect
<1>3. Recorded(u, rd, wr)
  BY Zenon, DoingRecords
<1>4. /\ actvTran' \subseteq Starts /\ cmtdTran' \subseteq Starts
      /\ bytable' \in [Tables -> [Starts -> Actions]]
      /\ exclusive' \in [Tables -> Starts \cup {0, MaxInt}]
      /\ oldest' \in Starts \cup {MaxInt}
      /\ seq' \in {1} \cup Starts
  BY Zenon, <1>1 DEF Kept, TypeOK, Doing
<1>5. QED
  BY <1>2, <1>3, <1>4, Zenon DEF TypeOK, Recorded

(* A call that only aborts leaves the other transactions as they were. *)
LEMMA AbortingPreserves ==
    ASSUME TypeOK, Times, Remembered, Tracked, Disjoint,
           NEW A, NEW cts, NEW excl, NEW u, NEW rd, NEW wr,
           Doing(A, cts, bytable, excl, u, rd, wr), u \in A \cup {MaxInt},
           \A t \in Starts : /\ cts[t].hasUpdates = ct[t].hasUpdates
                             /\ cts[t].readConflict = ct[t].readConflict
    PROVE  Tracked' /\ Disjoint'
<1>0. Kept(Lost(A), actvTran \ A, cmtdTran, A \cap actvTran,
           AfterAbort(A, cts), bytable, excl)
  BY Zenon, AbortAllKeeps
<1>1. /\ actvTran' = actvTran \ A /\ cmtdTran' \subseteq cmtdTran
      /\ actvTran \subseteq Starts /\ cmtdTran \subseteq Starts
  BY Zenon, <1>0 DEF Kept, TypeOK
<1>2. \A t \in actvTran' \cup cmtdTran' : hist'[t] = hist[t]
  <2>1. Recorded(u, rd, wr)
    BY Zenon, DoingRecords
  <2>2. QED
    BY <1>1, <2>1, StartsAreNumbers DEF Times, Recorded
<1>3. \A t \in actvTran', table \in Tables : bytable'[table][t] = bytable[table][t]
  <2>1. \A t \in actvTran : t \notin cmtdTran
    BY Zenon DEF Times, Committed, Ended
  <2>2. QED
    BY Zenon, <1>0, <1>1, <2>1 DEF Kept
<1>4. \A t \in cmtdTran', table \in Tables : bytable'[table][t] = bytable[table][t]
  <2>1. \A t \in cmtdTran : t \notin A \cap actvTran
    BY Zenon DEF Times, Committed, Ended
  <2>2. QED
    BY Zenon, <1>0, <1>1, <2>1 DEF Kept
<1>5. \A t \in actvTran' : /\ ct'[t].hasUpdates = ct[t].hasUpdates
                           /\ ct'[t].readConflict = ct[t].readConflict
  BY <1>1, DoingEffect
<1>6. \A t \in Starts : ct'[t].end = ct[t].end
  BY Zenon, DoingEffect
<1>7. Tracked'
  BY <1>1, <1>2, <1>3, <1>4, <1>5 DEF Tracked
<1>8. Disjoint'
  BY <1>1, <1>3, <1>4, <1>5, <1>6 DEF Disjoint
<1>9. QED
  BY Zenon, <1>7, <1>8
------------------------------------------------------------------------------
(* The check of an action against the overlapping transactions *)

(* The actor t adds the reads r and the writes w to its actions on table.  *)
(* If it survives, no overlapping transaction is left that has written     *)
(* what it reads, and those left that have read what it writes are marked. *)
Acting(A, cts, acts, t, table, r, w) ==
    /\ t \in actvTran /\ table \in Tables /\ r \subseteq Loc /\ w \subseteq Loc
    /\ \A tb \in Tables, x \in Starts :
          acts[tb][x] = IF tb = table /\ x = t
                        THEN [reads |-> bytable[tb][x].reads \cup r,
                              writes |-> bytable[tb][x].writes \cup w]
                        ELSE bytable[tb][x]
    /\ \A x \in Starts : ct[x].hasUpdates => cts[x].hasUpdates
    /\ \A x \in Starts : ct[x].readConflict => cts[x].readConflict
    /\ \A x \in actvTran \ A : ~(cts[x].hasUpdates /\ cts[x].readConflict)
    /\ t \notin A /\ w # {} => cts[t].hasUpdates
    /\ t \notin A /\ ~cts[t].readConflict =>
          \A c \in ((actvTran \ A) \cup cmtdTran) \ {t} :
             ct[c].end > t => bytable[table][c].writes \cap r = {}
    /\ t \notin A =>
          \A c \in actvTran \ (A \cup {t}) :
             ~cts[c].readConflict => bytable[table][c].reads \cap w = {}

(* Checking an action as it is done keeps the overlapping transactions     *)
(* free of conflicts.                                                      *)
LEMMA ActingPreserves ==
    ASSUME TypeOK, Times, Remembered, Tracked, Disjoint,
           NEW A, NEW cts, NEW acts, NEW excl, NEW t, NEW table, NEW r, NEW w,
           Doing(A, cts, acts, excl, t, {table} \X r, {table} \X w),
           Acting(A, cts, acts, t, table, r, w)
    PROVE  Tracked' /\ Disjoint'
<1>1. Kept(Lost(A), actvTran \ A, cmtdTran, A \cap actvTran,
           AfterAbort(A, cts), acts, excl)
  BY Zenon, AbortAllKeeps
<1>2. /\ actvTran' = actvTran \ A /\ cmtdTran' \subseteq cmtdTran
      /\ actvTran \subseteq Starts /\ cmtdTran \subseteq Starts
      /\ \A x \in actvTran : x \notin cmtdTran
      /\ \A x \in cmtdTran : x # t
      /\ t \in actvTran /\ table \in Tables
  <2>1. actvTran' = actvTran \ A /\ cmtdTran' \subseteq cmtdTran
    BY Zenon, <1>1 DEF Kept
  <2>2. \A x \in actvTran : x \notin cmtdTran
    BY Zenon DEF Times, Committed, Ended
  <2>3. t \in actvTran /\ table \in Tables
    BY Zenon DEF Acting
  <2>4. QED
    BY Zenon, <2>1, <2>2, <2>3 DEF TypeOK
<1>3. Recorded(t, {table} \X r, {table} \X w)
  BY Zenon, DoingRecords
<1>4. \A x \in actvTran' : ct'[x] = cts[x]
  BY DoingEffect
<1>5. \A x \in Starts : ct'[x].end = ct[x].end
  BY Zenon, DoingEffect
<1>6. \A tb \in Tables, x \in actvTran' \cup cmtdTran' : bytable'[tb][x] = acts[tb][x]
  BY Zenon, <1>1, <1>2 DEF Kept
<1>7. \A tb \in Tables, x \in actvTran' \cup cmtdTran' :
         /\ (tb # table \/ x # t) => bytable'[tb][x] = bytable[tb][x]
         /\ (tb = table /\ x = t) =>
                /\ bytable'[tb][x].reads = bytable[tb][x].reads \cup r
                /\ bytable'[tb][x].writes = bytable[tb][x].writes \cup w
  <2> SUFFICES ASSUME NEW tb \in Tables, NEW x \in actvTran' \cup cmtdTran'
               PROVE  /\ (tb # table \/ x # t) => bytable'[tb][x] = bytable[tb][x]
                      /\ (tb = table /\ x = t) =>
                            /\ bytable'[tb][x].reads = bytable[tb][x].reads \cup r
                            /\ bytable'[tb][x].writes = bytable[tb][x].writes \cup w
    BY Zenon
  <2>1. x \in Starts /\ bytable'[tb][x] = acts[tb][x]
    BY Zenon, <1>2, <1>6
  <2>2. acts[tb][x] = IF tb = table /\ x = t
                      THEN [reads |-> bytable[tb][x].reads \cup r,
                            writes |-> bytable[tb][x].writes \cup w]
                      ELSE bytable[tb][x]
    BY <2>1, Zenon DEF Acting
  <2>3. CASE tb = table /\ x = t
    BY <2>1, <2>2, <2>3
  <2>4. CASE ~(tb = table /\ x = t)
    BY Zenon, <2>1, <2>2, <2>4
  <2>5. QED
    BY Zenon, <2>3, <2>4
<1>8. /\ \A x \in actvTran' \cup cmtdTran' : x # t => hist'[x] = hist[x]
      /\ t \in actvTran' => /\ hist'[t].reads = hist[t].reads \cup ({table} \X r)
                            /\ hist'[t].writes = hist[t].writes \cup ({table} \X w)
  BY <1>2, <1>3 DEF Recorded, Times
<1>9. Tracked'
  <2>1. ASSUME NEW tb \in Tables, NEW loc \in Loc, NEW x \in actvTran' \cup cmtdTran',
               <<tb, loc>> \in hist'[x].writes
        PROVE  loc \in bytable'[tb][x].writes
    <3>1. CASE x # t
      BY <1>2, <1>7, <1>8, <2>1, <3>1 DEF Tracked
    <3>2. CASE x = t
      BY <1>2, <1>7, <1>8, <2>1, <3>2 DEF Tracked
    <3>3. QED
      BY Zenon, <3>1, <3>2
  <2>2. ASSUME NEW tb \in Tables, NEW loc \in Loc, NEW x \in actvTran',
               <<tb, loc>> \in hist'[x].reads, ~ct'[x].readConflict
        PROVE  loc \in bytable'[tb][x].reads
    <3>0. ~ct[x].readConflict /\ x \in actvTran
      BY Zenon, <1>2, <1>4, <2>2 DEF Acting
    <3>1. CASE x # t
      BY SMTT(60), <1>2, <1>7, <1>8, <2>2, <3>0, <3>1 DEF Tracked
    <3>2. CASE x = t
      BY <1>2, <1>7, <1>8, <2>2, <3>0, <3>2 DEF Tracked
    <3>3. QED
      BY Zenon, <3>1, <3>2
  <2>3. ASSUME NEW tb \in Tables, NEW x \in actvTran', bytable'[tb][x].writes # {}
        PROVE  ct'[x].hasUpdates
    <3>1. CASE bytable[tb][x].writes # {}
      BY Zenon, <1>2, <1>4, <3>1 DEF Tracked, Acting
    <3>2. CASE bytable[tb][x].writes = {}
      <4>1. x = t /\ w # {}
        BY <1>2, <1>7, <2>3, <3>2
      <4>2. QED
        BY Zenon, <1>2, <1>4, <2>3, <4>1 DEF Acting
    <3>3. QED
      BY Zenon, <3>1, <3>2
  <2>4. \A x \in actvTran' : ~(ct'[x].hasUpdates /\ ct'[x].readConflict)
    BY Zenon, <1>2, <1>4 DEF Acting
  <2>5. QED
    BY Zenon, <2>1, <2>2, <2>3, <2>4 DEF Tracked
<1>10. Disjoint'
  <2> SUFFICES ASSUME NEW x \in actvTran', NEW c \in actvTran' \cup cmtdTran',
                      x # c, ~ct'[x].readConflict, ct'[c].end > x,
                      NEW tb \in Tables, NEW loc \in Loc,
                      loc \in bytable'[tb][x].reads, loc \in bytable'[tb][c].writes
               PROVE  FALSE
    BY Zenon DEF Disjoint
  <2>1. /\ x \in actvTran /\ c \in actvTran \cup cmtdTran /\ ct[c].end > x
        /\ ~ct[x].readConflict /\ ~cts[x].readConflict
        /\ x \notin A /\ (c \in actvTran => c \notin A)
    BY Zenon, <1>2, <1>4, <1>5 DEF Acting
  <2>2. ~(loc \in bytable[tb][x].reads /\ loc \in bytable[tb][c].writes)
    BY Zenon, <2>1 DEF Disjoint
  <2>3. c \in (actvTran \ A) \cup cmtdTran
    BY ZenonT(60), <1>2
  <2>4. CASE x = t
    BY SMTT(60), <1>2, <1>7, <2>1, <2>2, <2>3, <2>4 DEF Acting
  <2>5. CASE x # t
    BY <1>2, <1>7, <2>1, <2>2, <2>3, <2>5 DEF Acting
  <2>6. QED
    BY Zenon, <2>4, <2>5
<1>11. QED
  BY Zenon, <1>9, <1>10
(* cleanEnded removes an exclusive that no active transaction started      *)
(* before the end of.                                                      *)
LEMMA CleanEndedPeriods ==
    ASSUME NEW cleaning, NEW live, NEW cmtd, NEW gone, NEW cts, NEW acts, NEW excl,
           live \subseteq Starts, excl \in [Tables -> Starts \cup {0, MaxInt}],
           Kept(cleaning, live, cmtd, gone, cts, acts, excl), TypeOK',
           PeriodsAt(seq', periods', live, acts, excl)
    PROVE  Periods'
<1> SUFFICES ASSUME NEW p \in periods'
             PROVE  /\ p.from <= seq' /\ (p.to # MaxInt => p.to <= seq')
                    /\ p.to \notin actvTran'
                    /\ p.to = MaxInt => exclusive'[p.table] = MaxInt
                    /\ p.to <= exclusive'[p.table] \/ \A a \in actvTran' : p.to < a
                    /\ \A t \in actvTran' : bytable'[p.table][t].writes # {} => p.to < t
  BY Zenon DEF Periods, PeriodsAt
<1>1. /\ p.table \in Tables /\ p.to \in Nat
      /\ excl[p.table] \in Nat /\ \A a \in live : a \in Nat
  BY Zenon, StartsAreNumbers DEF TypeOK
<1>2. /\ actvTran' = live
      /\ \/ exclusive'[p.table] = excl[p.table]
         \/ excl[p.table] # MaxInt /\ \A a \in live : excl[p.table] < a
      /\ \A t \in live : bytable'[p.table][t] \in {NoActions, acts[p.table][t]}
  BY Zenon, <1>1 DEF Kept
<1>3. /\ p.from <= seq' /\ (p.to # MaxInt => p.to <= seq')
      /\ p.to \notin live
      /\ p.to = MaxInt => excl[p.table] = MaxInt
      /\ p.to <= excl[p.table] \/ \A a \in live : p.to < a
      /\ \A t \in live : acts[p.table][t].writes # {} => p.to < t
  BY Zenon DEF PeriodsAt
<1>4. p.to <= exclusive'[p.table] \/ \A a \in actvTran' : p.to < a
  BY <1>1, <1>2, <1>3
<1>5. p.to = MaxInt => exclusive'[p.table] = MaxInt
  BY Zenon, <1>2, <1>3
<1>6. \A t \in actvTran' : bytable'[p.table][t].writes # {} => p.to < t
  BY <1>2, <1>3 DEF NoActions
<1>7. QED
  BY Zenon, <1>2, <1>3, <1>4, <1>5, <1>6

(* A call changes no committed transaction, and a period that begins now   *)
(* begins after they all ended.                                            *)
LEMMA DoingExclusive ==
    ASSUME TypeOK, Times, Remembered, ExclusiveRespected,
           NEW A, NEW cts, NEW acts, NEW excl, NEW u, NEW rd, NEW wr,
           Doing(A, cts, acts, excl, u, rd, wr),
           \A p \in periods' : p \in periods \/ p.from = seq
    PROVE  ExclusiveRespected'
<1> SUFFICES ASSUME NEW p \in periods', NEW t \in Starts, Committed(t)',
                    NEW e \in hist'[t].writes, e[1] = p.table
             PROVE  ct'[t].end <= p.from \/ t > p.to
  BY Zenon DEF ExclusiveRespected
<1>1. Committed(t) /\ ct'[t].end = ct[t].end /\ hist'[t] = hist[t]
  BY Zenon, DoingCommitted
<1>2. CASE p \in periods
  BY Zenon, <1>1, <1>2 DEF ExclusiveRespected
<1>3. CASE p.from = seq
  BY Zenon, <1>1, <1>3 DEF Times, Committed
<1>4. QED
  BY Zenon, <1>2, <1>3

(* All of the invariant, for a call that leaves the exclusives alone.      *)
LEMMA DoingInvariant ==
    ASSUME IInv, Tracked', Disjoint',
           NEW A, NEW cts, NEW acts, NEW u, NEW rd, NEW wr,
           Doing(A, cts, acts, exclusive, u, rd, wr),
           PeriodsAt(seq, periods, actvTran \ A, acts, exclusive),
           corrupted' = corrupted, acked' \subseteq Starts, periods' = periods
    PROVE  IInv'
<1> USE DEF IInv
<1>1. TypeOK'
  <2>1. corrupted' \in BOOLEAN /\ periods' \subseteq
            [table : Tables, from : {1} \cup Starts, to : Starts \cup {MaxInt}]
    BY Zenon DEF TypeOK
  <2>2. QED
    BY Zenon, <2>1, DoingTypes
<1>2. Times' /\ Remembered' /\ Serializable'
  BY Zenon, DoingPreserves
<1>3. Kept(Lost(A), actvTran \ A, cmtdTran, A \cap actvTran,
           AfterAbort(A, cts), acts, exclusive)
  BY Zenon, AbortAllKeeps
<1>4. Periods'
  <2>1. /\ actvTran \ A \subseteq Starts
        /\ exclusive \in [Tables -> Starts \cup {0, MaxInt}]
        /\ PeriodsAt(seq', periods', actvTran \ A, acts, exclusive)
    BY Zenon DEF TypeOK, Doing
  <2>2. QED
    BY Zenon, <1>1, <1>3, <2>1, CleanEndedPeriods
<1>5. ExclusiveRespected'
  <2>1. \A p \in periods' : p \in periods \/ p.from = seq
    BY Zenon
  <2>2. QED
    BY Zenon, <2>1, DoingExclusive
<1>6. QED
  BY Zenon, <1>1, <1>2, <1>4, <1>5

(* A call that only aborts. *)
LEMMA AbortingInvariant ==
    ASSUME IInv, NEW A, NEW cts, NEW u, NEW rd, NEW wr,
           Doing(A, cts, bytable, exclusive, u, rd, wr), u \in A \cup {MaxInt},
           \A t \in Starts : /\ cts[t].hasUpdates = ct[t].hasUpdates
                             /\ cts[t].readConflict = ct[t].readConflict,
           corrupted' = corrupted, acked' \subseteq Starts, periods' = periods
    PROVE  IInv'
<1>1. Tracked' /\ Disjoint'
  BY Zenon, AbortingPreserves DEF IInv
<1>2. PeriodsAt(seq, periods, actvTran \ A, bytable, exclusive)
  BY Zenon DEF IInv, Periods, PeriodsAt
<1>3. QED
  BY Zenon, <1>1, <1>2, DoingInvariant

(* Abort, and whatever else only aborts transactions. *)
LEMMA AbortInvariant ==
    ASSUME IInv, NEW A \in SUBSET Starts, NEW u \in A \cup {MaxInt},
           u \in actvTran \cup {MaxInt},
           NEW rd \in SUBSET Entry, NEW wr \in SUBSET Entry,
           AbortAll(A, ct, bytable, exclusive), Record(u, rd, wr),
           seq' = seq, corrupted' = corrupted, acked' \subseteq Starts,
           periods' = periods
    PROVE  IInv'
<1>1. Doing(A, ct, bytable, exclusive, u, rd, wr)
  BY Zenon DEF Doing, IInv, TypeOK
<1>2. QED
  BY Zenon, <1>1, AbortingInvariant

(* tick aborts transactions and changes nothing else but ages. *)
LEMMA TickInvariant ==
    ASSUME IInv, Tick
    PROVE  IInv'
<1> DEFINE A == {t \in actvTran : Older[t].age >= MaxAge}
<1>1. /\ AbortAll(A, Older, bytable, exclusive) /\ Record(MaxInt, {}, {})
      /\ seq' = seq /\ corrupted' = corrupted /\ acked' = acked /\ periods' = periods
  BY Zenon DEF Tick, ForgetAborted
<1>2. /\ Older \in [Starts -> CkTran]
      /\ \A t \in Starts : /\ Older[t].end = ct[t].end
                           /\ Older[t].failed = ct[t].failed
                           /\ Older[t].hasUpdates = ct[t].hasUpdates
                           /\ Older[t].readConflict = ct[t].readConflict
      /\ \A t \in Starts \ actvTran : Older[t] = ct[t]
  <2>1. ct \in [Starts -> CkTran]
    BY Zenon DEF IInv, TypeOK
  <2>2. QED
    BY <2>1 DEF Older, CkTran
<1>3. A \subseteq Starts
  BY Zenon DEF IInv, TypeOK
<1> HIDE DEF A
<1>4. Doing(A, Older, bytable, exclusive, MaxInt, {}, {})
  BY Zenon, <1>1, <1>2, <1>3 DEF Doing, IInv, TypeOK
<1>5. acked' \subseteq Starts
  BY Zenon, <1>1 DEF IInv, TypeOK
<1>6. QED
  BY <1>1, <1>2, <1>4, <1>5, AbortingInvariant

------------------------------------------------------------------------------
(* StartTran and AddExclusive *)

(* The times of a period are natural numbers. *)
LEMMA PeriodsAreNumbers ==
    ASSUME TypeOK, NEW p \in periods
    PROVE  /\ p.table \in Tables /\ p.to \in Nat /\ p.from \in Nat /\ MaxInt \in Nat
           /\ exclusive[p.table] \in Nat /\ exclusive[p.table] <= MaxInt
<1>1. /\ p.table \in Tables /\ p.to \in Starts \cup {MaxInt}
      /\ p.from \in {1} \cup Starts
      /\ exclusive[p.table] \in Starts \cup {0, MaxInt}
  BY Zenon DEF TypeOK
<1>2. exclusive[p.table] \in Nat /\ exclusive[p.table] <= MaxInt
  BY Zenon, <1>1, StartsAreNumbers
<1>3. Starts \subseteq Nat /\ MaxInt \in Nat
  BY Zenon, StartsAreNumbers
<1>4. p.to \in Nat
  BY Zenon, <1>1, <1>3
<1>5. CASE p.from = 1
  BY <1>1, <1>2, <1>3, <1>4, <1>5
<1>6. CASE p.from \in Starts
  BY Zenon, <1>1, <1>2, <1>3, <1>4, <1>6
<1>7. QED
  BY Zenon, <1>1, <1>5, <1>6

(* StartTran: the new transaction has done nothing, so it conflicts with   *)
(* nothing.                                                                *)
LEMMA StartTranInvariant ==
    ASSUME IInv, StartTran
    PROVE  IInv'
<1> USE DEF IInv
<1>1. next \in Starts /\ next \in Nat /\ seq \in Nat /\ seq < next
  BY Zenon, NextIsNew DEF StartTran
<1>2. /\ seq' = next /\ actvTran' = actvTran \cup {next}
      /\ ct' = [ct EXCEPT ![next] = NewCkTran]
      /\ cmtdTran' = cmtdTran /\ bytable' = bytable /\ exclusive' = exclusive
      /\ oldest' = oldest /\ corrupted' = corrupted
      /\ acked' = acked /\ hist' = hist /\ periods' = periods
  BY Zenon DEF StartTran, history
<1>3. TypeOK'
  BY Zenon, <1>1, <1>2 DEF TypeOK, NewCkTran, CkTran
<1>4. /\ actvTran \subseteq Starts /\ cmtdTran \subseteq Starts
      /\ \A t \in Starts : t \in Nat
      /\ \A t \in Starts : ct[t].end \in Nat
      /\ next \notin actvTran
      /\ \A t \in Starts : ct[t].end # next
      /\ ct[next].end = MaxInt
  <2>1. /\ actvTran \subseteq Starts /\ cmtdTran \subseteq Starts
        /\ \A t \in Starts : t \in Nat /\ t < MaxInt
        /\ MaxInt \in Nat
        /\ \A t \in Starts : ct[t].end \in Starts \cup {MaxInt}
    BY Zenon, StartsAreNumbers DEF TypeOK, CkTran
  <2>2. \A t \in Starts : ct[t].end \in Nat
    BY Zenon, <2>1
  <2>3. next \notin actvTran
    BY <1>1, <2>1 DEF Times
  <2>4. \A t \in Starts : Ended(t) => ct[t].end <= seq /\ t < ct[t].end
    BY Zenon DEF Times
  <2>5. \A t \in Starts : ct[t].end # next
    BY <1>1, <2>1, <2>2, <2>4 DEF Ended
  <2>6. ct[next].end = MaxInt
    BY <1>1, <2>2, <2>4 DEF Ended
  <2>7. QED
    BY Zenon, <2>1, <2>2, <2>3, <2>5, <2>6
<1>5. /\ next \notin cmtdTran
      /\ \A table \in Tables : bytable[table][next] = NoActions
      /\ hist[next] = NoHistory
  BY Zenon, <1>1, <1>4 DEF Times, Committed, Ended, Remembered
<1>6. /\ \A t \in Starts : ct'[t].end = ct[t].end
      /\ \A t \in Starts : t # next => ct'[t] = ct[t]
      /\ ct'[next] = NewCkTran
      /\ \A t \in Starts : Ended(t)' <=> Ended(t)
      /\ \A t \in Starts : Committed(t)' <=> Committed(t)
  BY Zenon, <1>1, <1>2, <1>4 DEF TypeOK, NewCkTran, Committed, Ended
<1>7. Times'
  <2>1. \A t \in actvTran' : t <= seq' /\ ct'[t].end = MaxInt /\ ~ct'[t].failed
    <3>1. seq \in Nat /\ next \in Nat /\ seq < next /\ seq' = next
          /\ actvTran' = actvTran \cup {next}
      BY Zenon, <1>1, <1>2
    <3>2. ASSUME NEW t \in actvTran
          PROVE  t <= seq' /\ ct'[t].end = MaxInt /\ ~ct'[t].failed
      <4>1. t <= seq /\ ct[t].end = MaxInt /\ ~ct[t].failed /\ t \in Starts
        BY Zenon, <1>4, <3>2 DEF Times
      <4>2. ct'[t] = ct[t]
        BY Zenon, <1>4, <1>6, <3>2, <4>1
      <4>3. QED
        BY <1>4, <3>1, <4>1, <4>2
    <3>3. next <= seq' /\ ct'[next].end = MaxInt /\ ~ct'[next].failed
      BY <1>6, <3>1 DEF NewCkTran
    <3>4. QED
      BY Zenon, <3>1, <3>2, <3>3
  <2>2. \A t \in Starts : Ended(t)' => /\ t < ct'[t].end /\ ct'[t].end <= seq'
                                       /\ ~ct'[t].failed
    <3>1. \A t \in Starts : Ended(t) => t # next
      BY Zenon, <1>4 DEF Ended
    <3>2. QED
      BY <1>1, <1>2, <1>4, <1>6, <3>1 DEF Times
  <2>3. \A t \in actvTran', c \in Starts : ct'[c].end # t
    BY <1>2, <1>4, <1>6 DEF Times
  <2>4. \A c \in cmtdTran' : Committed(c)'
    BY Zenon, <1>2, <1>4, <1>6 DEF Times
  <2>5. \A t \in Starts : t > seq' => hist'[t] = NoHistory
    BY <1>1, <1>2, <1>4 DEF Times
  <2>6. QED
    BY Zenon, <2>1, <2>2, <2>3, <2>4, <2>5 DEF Times
<1>8. Remembered'
  <2>1. IsOldest(oldest, actvTran)'
    <3>1. ASSUME oldest \in actvTran, \A a \in actvTran : oldest <= a
          PROVE  oldest <= next
      BY <1>1, <1>4, <3>1 DEF Times
    <3>2. QED
      BY Zenon, <1>2, <3>1 DEF Remembered, IsOldest
  <2>2. \A c \in Starts : Committed(c)' /\ c \notin cmtdTran'
            => \A a \in actvTran' : ct'[c].end < a
    <3>1. \A c \in Starts : Committed(c) => ct[c].end < next
      <4> SUFFICES ASSUME NEW c \in Starts, Committed(c) PROVE ct[c].end < next
        BY Zenon
      <4>1. ct[c].end <= seq
        BY Zenon DEF Times, Committed
      <4>2. QED
        BY <1>1, <1>4, <4>1
    <3>2. QED
      BY Zenon, <1>2, <1>6, <3>1 DEF Remembered
  <2>3. \A c \in cmtdTran' : \E a \in actvTran' : a < ct'[c].end
    BY ZenonT(60), <1>2, <1>4, <1>6 DEF Remembered
  <2>4. QED
    BY Zenon, <1>2, <2>1, <2>2, <2>3 DEF Remembered
<1>9. Tracked'
  BY SMTT(60), <1>2, <1>4, <1>5, <1>6 DEF Tracked, NoActions, NoHistory, NewCkTran
<1>10. Disjoint'
  BY <1>2, <1>4, <1>5, <1>6 DEF Disjoint, NoActions
<1>11. Serializable'
  BY ZenonT(60), <1>2, <1>6 DEF Serializable
<1>12. Periods'
  <2> SUFFICES ASSUME NEW p \in periods
               PROVE  /\ p.from <= seq' /\ (p.to # MaxInt => p.to <= seq')
                      /\ p.to \notin actvTran'
                      /\ p.to = MaxInt => exclusive[p.table] = MaxInt
                      /\ p.to <= exclusive[p.table] \/ \A a \in actvTran' : p.to < a
                      /\ \A t \in actvTran' : bytable[p.table][t].writes # {} => p.to < t
    BY Zenon, <1>2 DEF Periods, PeriodsAt
  <2>2. /\ p.to \in Nat /\ p.from \in Nat /\ exclusive[p.table] \in Nat /\ MaxInt \in Nat
        /\ exclusive[p.table] <= MaxInt /\ p.table \in Tables
    BY Zenon, PeriodsAreNumbers
  <2>3. /\ p.from <= seq /\ (p.to # MaxInt => p.to <= seq)
        /\ p.to \notin actvTran
        /\ p.to = MaxInt => exclusive[p.table] = MaxInt
        /\ p.to <= exclusive[p.table] \/ \A a \in actvTran : p.to < a
        /\ \A t \in actvTran : bytable[p.table][t].writes # {} => p.to < t
    BY Zenon DEF Periods, PeriodsAt
  <2>4. p.to # next
    BY <1>1, <2>2, <2>3, StartsAreNumbers
  <2>5. p.to # MaxInt => p.to < next
    BY <1>1, <2>2, <2>3
  <2>6. p.to <= exclusive[p.table] \/ \A a \in actvTran' : p.to < a
    BY Zenon, <1>2, <2>2, <2>3, <2>5
  <2>7. bytable[p.table][next].writes = {}
    BY <1>5, <2>2 DEF NoActions
  <2>8. QED
    BY <1>1, <1>2, <2>2, <2>3, <2>4, <2>6, <2>7
<1>13. ExclusiveRespected'
  BY Zenon, <1>2, <1>6 DEF ExclusiveRespected
<1>14. QED
  BY Zenon, <1>3, <1>7, <1>8, <1>9, <1>10, <1>11, <1>12, <1>13
(* AddExclusive aborts the writers, so the period begins without any. *)
LEMMA AddExclusiveInvariant ==
    ASSUME IInv, NEW table \in Tables, AddExclusive(table)
    PROVE  IInv'
<1> DEFINE A == {t \in Starts : bytable[table][t].writes # {}}
           excl == [exclusive EXCEPT ![table] = MaxInt]
           new == [table |-> table, from |-> seq, to |-> MaxInt]
<1> USE DEF IInv
<1>1. /\ AbortAll(A, ct, bytable, excl) /\ Record(MaxInt, {}, {})
      /\ seq' = seq /\ corrupted' = corrupted /\ acked' = acked
      /\ periods' = periods \cup {new}
  BY Zenon DEF AddExclusive, ForgetAborted
<1>2. /\ A \subseteq Starts /\ excl \in [Tables -> Starts \cup {0, MaxInt}]
      /\ excl[table] = MaxInt
      /\ \A tb \in Tables : tb # table => excl[tb] = exclusive[tb]
      /\ actvTran \ A \subseteq Starts
      /\ \A t \in actvTran \ A : bytable[table][t].writes = {}
  BY Zenon DEF TypeOK
<1>3. /\ new.from = seq /\ new.to = MaxInt /\ new.table = table
      /\ new \in [table : Tables, from : {1} \cup Starts, to : Starts \cup {MaxInt}]
  BY Zenon DEF TypeOK
<1> HIDE DEF A, excl, new
<1>4. Doing(A, ct, bytable, excl, MaxInt, {}, {})
  BY Zenon, <1>1, <1>2 DEF Doing, TypeOK
<1>5. Tracked' /\ Disjoint'
  BY Zenon, <1>4, AbortingPreserves
<1>6. TypeOK'
  <2>1. /\ corrupted' \in BOOLEAN /\ acked' \subseteq Starts
        /\ periods' \subseteq [table : Tables, from : {1} \cup Starts,
                               to : Starts \cup {MaxInt}]
    BY Zenon, <1>1, <1>3 DEF TypeOK
  <2>2. QED
    BY Zenon, <1>4, <2>1, DoingTypes
<1>7. Times' /\ Remembered' /\ Serializable'
  BY Zenon, <1>4, DoingPreserves
<1>8. PeriodsAt(seq', periods', actvTran \ A, bytable, excl)
  <2>1. ASSUME NEW p \in periods
        PROVE  /\ p.from <= seq /\ (p.to # MaxInt => p.to <= seq)
               /\ p.to \notin actvTran \ A
               /\ p.to = MaxInt => excl[p.table] = MaxInt
               /\ p.to <= excl[p.table] \/ \A a \in actvTran \ A : p.to < a
               /\ \A t \in actvTran \ A : bytable[p.table][t].writes # {} => p.to < t
    <3>1. /\ p.table \in Tables /\ p.to \in Nat /\ MaxInt \in Nat
          /\ p.to \in Starts \cup {MaxInt}
      BY Zenon, PeriodsAreNumbers DEF TypeOK
    <3>2. p.to <= MaxInt
      BY Zenon, <3>1, StartsAreNumbers
    <3>3. /\ p.from <= seq /\ (p.to # MaxInt => p.to <= seq)
          /\ p.to \notin actvTran
          /\ p.to = MaxInt => exclusive[p.table] = MaxInt
          /\ p.to <= exclusive[p.table] \/ \A a \in actvTran : p.to < a
          /\ \A t \in actvTran : bytable[p.table][t].writes # {} => p.to < t
      BY Zenon DEF Periods, PeriodsAt
    <3>4. excl[p.table] \in {exclusive[p.table], MaxInt}
      BY Zenon, <1>2, <3>1
    <3>5. QED
      BY Zenon, <3>2, <3>3, <3>4
  <2>2. /\ new.from <= seq /\ (new.to # MaxInt => new.to <= seq)
        /\ new.to \notin actvTran \ A
        /\ new.to = MaxInt => excl[new.table] = MaxInt
        /\ new.to <= excl[new.table] \/ \A a \in actvTran \ A : new.to < a
        /\ \A t \in actvTran \ A : bytable[new.table][t].writes # {} => new.to < t
    <3>1. seq \in Nat /\ MaxInt \in Nat /\ MaxInt \notin Starts
      BY StartsAreNumbers DEF TypeOK
    <3>2. QED
      BY <1>2, <1>3, <3>1
  <2>3. QED
    BY Zenon, <1>1, <2>1, <2>2 DEF PeriodsAt
<1>9. Periods'
  <2>1. Kept(Lost(A), actvTran \ A, cmtdTran, A \cap actvTran,
             AfterAbort(A, ct), bytable, excl)
    BY Zenon, <1>4, AbortAllKeeps
  <2>2. QED
    BY Zenon, <1>2, <1>6, <1>8, <2>1, CleanEndedPeriods
<1>10. ExclusiveRespected'
  <2>1. \A p \in periods' : p \in periods \/ p.from = seq
    BY Zenon, <1>1, <1>3
  <2>2. QED
    BY Zenon, <1>4, <2>1, DoingExclusive
<1>11. QED
  BY Zenon, <1>5, <1>6, <1>7, <1>9, <1>10
------------------------------------------------------------------------------
(* Read, Output, Delete and Update *)

(* saveRead and the saves of a write. *)
SavedReads(table, t, r) == [bytable EXCEPT ![table][t].reads = @ \cup r]
SavedWrites(table, t, w) == [bytable EXCEPT ![table][t].writes = @ \cup w]

(* acts is bytable with r and w added to the actions of t on the table. *)
Adds(acts, table, t, r, w) ==
    /\ acts \in [Tables -> [Starts -> Actions]]
    /\ \A tb \in Tables, x \in Starts :
          acts[tb][x] = IF tb = table /\ x = t
                        THEN [reads |-> bytable[tb][x].reads \cup r,
                              writes |-> bytable[tb][x].writes \cup w]
                        ELSE bytable[tb][x]

(* The saves add to the actions of one transaction on one table. *)
LEMMA SaveActions ==
    ASSUME TypeOK, NEW table \in Tables, NEW t \in Starts, NEW s \in SUBSET Loc
    PROVE  /\ Adds(SavedReads(table, t, s), table, t, s, {})
           /\ Adds(SavedWrites(table, t, s), table, t, {}, s)
<1>1. bytable \in [Tables -> [Starts -> Actions]]
  BY Zenon DEF TypeOK
<1>2. Adds(SavedReads(table, t, s), table, t, s, {})
  <2> DEFINE acts == SavedReads(table, t, s)
  <2>1. acts = [bytable EXCEPT ![table][t].reads = @ \cup s]
    BY Zenon DEF SavedReads
  <2> HIDE DEF acts
  <2>2. \A tb \in Tables, x \in Starts :
            ~(tb = table /\ x = t) => acts[tb][x] = bytable[tb][x]
    BY Zenon, <1>1, <2>1
  <2>3. acts[table][t] = [bytable[table][t] EXCEPT !.reads = @ \cup s]
    BY Zenon, <1>1, <2>1
  <2>4. bytable[table][t] \in Actions
    BY Zenon, <1>1
  <2>5. acts[table][t] = [reads |-> bytable[table][t].reads \cup s,
                          writes |-> bytable[table][t].writes \cup {}]
    BY Zenon, <2>3, <2>4 DEF Actions
  <2>6. acts[table][t] \in Actions
    BY <2>4, <2>5 DEF Actions
  <2>7. acts \in [Tables -> [Starts -> Actions]]
    <3>1. acts = [tb \in Tables |-> acts[tb]]
      BY Zenon, <1>1, <2>1
    <3>2. \A tb \in Tables : acts[tb] \in [Starts -> Actions]
      BY Zenon, <1>1, <2>1, <2>2, <2>4, <2>6
    <3>3. QED
      BY Zenon, <3>1, <3>2
  <2>8. Adds(acts, table, t, s, {})
    BY Zenon, <2>2, <2>5, <2>7 DEF Adds
  <2>9. QED
    BY Zenon, <2>8 DEF acts
<1>3. Adds(SavedWrites(table, t, s), table, t, {}, s)
  <2> DEFINE acts == SavedWrites(table, t, s)
  <2>1. acts = [bytable EXCEPT ![table][t].writes = @ \cup s]
    BY Zenon DEF SavedWrites
  <2> HIDE DEF acts
  <2>2. \A tb \in Tables, x \in Starts :
            ~(tb = table /\ x = t) => acts[tb][x] = bytable[tb][x]
    BY Zenon, <1>1, <2>1
  <2>3. acts[table][t] = [bytable[table][t] EXCEPT !.writes = @ \cup s]
    BY Zenon, <1>1, <2>1
  <2>4. bytable[table][t] \in Actions
    BY Zenon, <1>1
  <2>5. acts[table][t] = [reads |-> bytable[table][t].reads \cup {},
                          writes |-> bytable[table][t].writes \cup s]
    BY Zenon, <2>3, <2>4 DEF Actions
  <2>6. acts[table][t] \in Actions
    BY <2>4, <2>5 DEF Actions
  <2>7. acts \in [Tables -> [Starts -> Actions]]
    <3>1. acts = [tb \in Tables |-> acts[tb]]
      BY Zenon, <1>1, <2>1
    <3>2. \A tb \in Tables : acts[tb] \in [Starts -> Actions]
      BY Zenon, <1>1, <2>1, <2>2, <2>4, <2>6
    <3>3. QED
      BY Zenon, <3>1, <3>2
  <2>8. Adds(acts, table, t, {}, s)
    BY Zenon, <2>2, <2>5, <2>7 DEF Adds
  <2>9. QED
    BY Zenon, <2>8 DEF acts
<1>4. QED
  BY Zenon, <1>2, <1>3

(* abort1of's marks change nothing but readConflict. *)
LEMMA MarkConflicts ==
    ASSUME NEW cts \in [Starts -> CkTran], NEW S \in SUBSET Starts
    PROVE  /\ WithConflict(cts, S) \in [Starts -> CkTran]
           /\ \A x \in Starts :
                 /\ WithConflict(cts, S)[x].end = cts[x].end
                 /\ WithConflict(cts, S)[x].failed = cts[x].failed
                 /\ WithConflict(cts, S)[x].hasUpdates = cts[x].hasUpdates
                 /\ WithConflict(cts, S)[x].readConflict =
                        (cts[x].readConflict \/ x \in S)
                 /\ x \notin S => WithConflict(cts, S)[x] = cts[x]
  BY Zenon DEF WithConflict, CkTran
------------------------------------------------------------------------------
(* Read, Output, Delete and Update *)

(* Read, before and after it has met a conflict. *)
LEMMA ReadInvariant ==
    ASSUME IInv, NEW t \in Starts, NEW table \in Tables, NEW index \in Indexes,
           NEW from, NEW to, Read(t, table, index, from, to)
    PROVE  IInv'
<1> DEFINE r == {index} \X {k \in Keys : from <= k /\ k <= to}
           C == {c \in Starts \ {t} : /\ Overlap(t, c)
                                      /\ bytable[table][c].writes \cap r # {}}
           saved == [bytable EXCEPT ![table][t].reads = @ \cup r]
<1> USE DEF IInv
<1>1. /\ t \in actvTran /\ seq' = seq /\ corrupted' = corrupted
      /\ acked' = acked /\ periods' = periods
      /\ Record(t, {table} \X r, {})
  BY Zenon DEF Read
<1>2. \/ /\ ct[t].readConflict
         /\ UNCHANGED <<actvTran, cmtdTran, ct, bytable, exclusive, oldest>>
      \/ /\ ~ct[t].readConflict /\ ~ct[t].hasUpdates
         /\ \E tooMany \in BOOLEAN :
               AbortAll(IF tooMany THEN {t} ELSE {},
                        WithConflict(ct, IF C = {} THEN {} ELSE {t}),
                        saved, exclusive)
      \/ /\ ~ct[t].readConflict /\ ct[t].hasUpdates
         /\ \E seen \in SUBSET C, loses, tooMany \in BOOLEAN :
               /\ Abort1of(C, seen, loses)
               /\ AbortAll(Victims(seen)
                               \cup (IF loses \/ tooMany THEN {t} ELSE {}),
                           WithConflict(ct, Marked(seen)), saved, exclusive)
  BY Zenon DEF Read
<1>3. /\ r \subseteq Loc /\ {table} \X r \subseteq Entry /\ {} \subseteq Entry
      /\ acked' \subseteq Starts
      /\ actvTran \subseteq Starts /\ cmtdTran \subseteq Starts
      /\ ct \in [Starts -> CkTran]
      /\ exclusive \in [Tables -> Starts \cup {0, MaxInt}]
      /\ t \notin cmtdTran
      /\ {table} \X {} = {}
  <2>1. r \subseteq Loc
    BY Zenon DEF Loc
  <2>2. t \notin cmtdTran
    BY Zenon, <1>1 DEF Times, Committed, Ended
  <2>3. QED
    BY Zenon, <1>1, <2>1, <2>2 DEF TypeOK, Entry
<1>4. Adds(saved, table, t, r, {})
  <2> HIDE DEF r
  <2>1. saved = SavedReads(table, t, r)
    BY Zenon DEF SavedReads
  <2>2. Adds(SavedReads(table, t, r), table, t, r, {})
    BY Zenon, <1>3, SaveActions
  <2>3. QED
    BY Zenon, <2>1, <2>2
<1>5. \A c \in Starts : c # t /\ ct[c].end > t /\ bytable[table][c].writes \cap r # {}
          => c \in C
  <2>1. ct[t].end = MaxInt
    BY Zenon, <1>1 DEF Times
  <2>2. QED
    BY Zenon, <2>1, StartsAreNumbers DEF Overlap
<1>6. C \subseteq Starts /\ t \notin C
  BY Zenon
<1> HIDE DEF r, C, saved
<1>7. ASSUME NEW A \in SUBSET Starts, NEW S \in SUBSET actvTran,
             AbortAll(A, WithConflict(ct, S), saved, exclusive),
             \A x \in S \ A : ~ct[x].hasUpdates,
             t \notin A /\ t \notin S =>
                \A c \in ((actvTran \ A) \cup cmtdTran) \ {t} :
                    ct[c].end > t => bytable[table][c].writes \cap r = {}
      PROVE  IInv'
  <2> DEFINE cts == WithConflict(ct, S)
  <2>0. S \subseteq Starts
    BY Zenon, <1>3
  <2>1. /\ cts \in [Starts -> CkTran]
        /\ \A x \in Starts :
                 /\ cts[x].end = ct[x].end /\ cts[x].failed = ct[x].failed
                 /\ cts[x].hasUpdates = ct[x].hasUpdates
                 /\ cts[x].readConflict = (ct[x].readConflict \/ x \in S)
                 /\ x \notin S => cts[x] = ct[x]
    BY <1>3, <2>0, MarkConflicts
  <2> HIDE DEF cts
  <2>2. Doing(A, cts, saved, exclusive, t, {table} \X r, {table} \X {})
    <3>1. AbortAll(A, cts, saved, exclusive)
      BY Zenon, <1>7 DEF cts
    <3>2. \A tb \in Tables, x \in Starts \ actvTran : saved[tb][x] = bytable[tb][x]
      BY Zenon, <1>1, <1>4 DEF Adds
    <3>3. Record(t, {table} \X r, {table} \X {})
      BY Zenon, <1>1, <1>3
    <3>4. QED
      BY Zenon, <1>1, <1>3, <1>4, <1>7, <2>1, <3>1, <3>2, <3>3 DEF Doing, Adds
  <2>3. Acting(A, cts, saved, t, table, r, {})
    <3>1. \A x \in actvTran \ A : ~(cts[x].hasUpdates /\ cts[x].readConflict)
      BY Zenon, <1>3, <1>7, <2>1 DEF Tracked
    <3>2. t \notin A /\ ~cts[t].readConflict =>
             \A c \in ((actvTran \ A) \cup cmtdTran) \ {t} :
                ct[c].end > t => bytable[table][c].writes \cap r = {}
      BY Zenon, <1>7, <2>1
    <3>3. QED
      BY Zenon, <1>1, <1>3, <1>4, <2>1, <3>1, <3>2 DEF Acting, Adds
  <2>4. Tracked' /\ Disjoint'
    BY Zenon, <2>2, <2>3, ActingPreserves
  <2>5. PeriodsAt(seq, periods, actvTran \ A, saved, exclusive)
    <3>1. \A tb \in Tables, x \in Starts : saved[tb][x].writes = bytable[tb][x].writes
      <4> SUFFICES ASSUME NEW tb \in Tables, NEW x \in Starts
                   PROVE  saved[tb][x].writes = bytable[tb][x].writes
        BY Zenon
      <4>1. saved[tb][x] = IF tb = table /\ x = t
                           THEN [reads |-> bytable[tb][x].reads \cup r,
                                 writes |-> bytable[tb][x].writes \cup {}]
                           ELSE bytable[tb][x]
        BY <1>4, Zenon DEF Adds
      <4>2. QED
        BY <4>1
    <3>2. QED
      BY Zenon, <1>3, <3>1, PeriodsAreNumbers DEF Periods, PeriodsAt
  <2>6. QED
    BY Zenon, <1>1, <1>3, <2>2, <2>4, <2>5, DoingInvariant
<1>8. CASE /\ ct[t].readConflict
           /\ UNCHANGED <<actvTran, cmtdTran, ct, bytable, exclusive, oldest>>
  <2>1. AbortAll({}, ct, bytable, exclusive)
    <3>1. /\ {} \cap actvTran = {} /\ actvTran \ {} = actvTran
          /\ ct = [x \in Starts |-> ct[x]]
          /\ bytable = [tb \in Tables |-> [x \in Starts |-> bytable[tb][x]]]
          /\ exclusive = [tb \in Tables |-> exclusive[tb]]
      BY ZenonT(60), <1>3 DEF TypeOK
    <3>2. QED
      BY Zenon, <1>8, <3>1 DEF AbortAll, CleanEnded
  <2>2. Doing({}, ct, bytable, exclusive, t, {table} \X r, {})
    BY Zenon, <1>1, <1>3, <2>1 DEF Doing, TypeOK
  <2>3. Recorded(t, {table} \X r, {})
    BY Zenon, <2>2, DoingRecords
  <2>4. /\ \A x \in actvTran \cup cmtdTran : hist'[x].writes = hist[x].writes
        /\ \A x \in actvTran : x # t => hist'[x].reads = hist[x].reads
    <3>1. \A x \in actvTran : x # t => hist'[x] = hist[x]
      BY ZenonT(60), <1>8, <2>3 DEF Recorded
    <3>2. hist'[t].writes = hist[t].writes
      BY <1>1, <1>8, <2>3 DEF Recorded
    <3>3. \A x \in cmtdTran : hist'[x] = hist[x]
      BY ZenonT(60), <1>3, <2>3 DEF Recorded, Times
    <3>4. QED
      BY Zenon, <3>1, <3>2, <3>3
  <2>5. Tracked' /\ Disjoint'
    BY <1>8, <2>4 DEF Tracked, Disjoint
  <2>6. PeriodsAt(seq, periods, actvTran \ {}, bytable, exclusive)
    BY Zenon DEF Periods, PeriodsAt
  <2>7. QED
    BY Zenon, <1>1, <1>3, <2>2, <2>5, <2>6, DoingInvariant
<1>9. CASE /\ ~ct[t].readConflict /\ ~ct[t].hasUpdates
           /\ \E tooMany \in BOOLEAN :
                 AbortAll(IF tooMany THEN {t} ELSE {},
                          WithConflict(ct, IF C = {} THEN {} ELSE {t}),
                          saved, exclusive)
  <2>1. PICK tooMany \in BOOLEAN :
                 AbortAll(IF tooMany THEN {t} ELSE {},
                          WithConflict(ct, IF C = {} THEN {} ELSE {t}),
                          saved, exclusive)
    BY Zenon, <1>9
  <2> DEFINE A == IF tooMany THEN {t} ELSE {}
             S == IF C = {} THEN {} ELSE {t}
  <2>2. A \in SUBSET Starts /\ S \in SUBSET actvTran /\ \A x \in S \ A : ~ct[x].hasUpdates
    BY Zenon, <1>1, <1>9
  <2>3. t \notin S => \A c \in ((actvTran \ A) \cup cmtdTran) \ {t} :
                         ct[c].end > t => bytable[table][c].writes \cap r = {}
    BY Zenon, <1>3, <1>5
  <2>4. AbortAll(A, WithConflict(ct, S), saved, exclusive)
    BY Zenon, <2>1
  <2> HIDE DEF A, S
  <2>5. QED
    BY Zenon, <1>7, <2>2, <2>3, <2>4
<1>10. CASE /\ ~ct[t].readConflict /\ ct[t].hasUpdates
            /\ \E seen \in SUBSET C, loses, tooMany \in BOOLEAN :
                  /\ Abort1of(C, seen, loses)
                  /\ AbortAll(Victims(seen)
                                  \cup (IF loses \/ tooMany THEN {t} ELSE {}),
                              WithConflict(ct, Marked(seen)), saved, exclusive)
  <2>1. PICK seen \in SUBSET C, loses \in BOOLEAN, tooMany \in BOOLEAN :
                  /\ Abort1of(C, seen, loses)
                  /\ AbortAll(Victims(seen)
                                  \cup (IF loses \/ tooMany THEN {t} ELSE {}),
                              WithConflict(ct, Marked(seen)), saved, exclusive)
    BY Zenon, <1>10
  <2> DEFINE A == Victims(seen) \cup (IF loses \/ tooMany THEN {t} ELSE {})
             S == Marked(seen)
  <2>2. /\ A \in SUBSET Starts /\ \A x \in S \ A : ~ct[x].hasUpdates
        /\ t \notin S
    BY Zenon, <1>6 DEF Victims, Marked
  <2>3. S = {}
    <3>1. \A c \in C : bytable[table][c].writes # {} /\ c \in Starts
      BY ZenonT(60) DEF C
    <3>2. \A c \in C : c \in actvTran \cup cmtdTran
      BY <3>1 DEF Remembered, NoActions
    <3>3. \A c \in C : ct[c].hasUpdates
      BY Zenon, <3>1, <3>2 DEF Tracked, Times, Committed
    <3>4. QED
      BY Zenon, <3>3 DEF Marked
  <2>4. t \notin A => \A c \in ((actvTran \ A) \cup cmtdTran) \ {t} :
                         ct[c].end > t => bytable[table][c].writes \cap r = {}
    <3> SUFFICES ASSUME t \notin A, NEW c \in ((actvTran \ A) \cup cmtdTran) \ {t},
                        ct[c].end > t, bytable[table][c].writes \cap r # {}
                 PROVE  FALSE
      BY Zenon
    <3>1. seen = C /\ \A x \in seen : ct[x].hasUpdates => ~Ended(x)
      BY Zenon, <2>1 DEF Abort1of
    <3>2. c \in seen
      BY Zenon, <1>3, <1>5, <3>1
    <3>3. ct[c].hasUpdates
      BY Zenon, <2>3, <3>2 DEF Marked
    <3>4. c \in A
      BY Zenon, <3>2, <3>3 DEF Victims
    <3>5. c \in cmtdTran /\ Ended(c)
      BY Zenon, <3>4 DEF Times, Committed
    <3>6. QED
      BY Zenon, <3>1, <3>2, <3>3, <3>5
  <2>5. AbortAll(A, WithConflict(ct, S), saved, exclusive)
    BY Zenon, <2>1
  <2> HIDE DEF A, S
  <2>6. S \in SUBSET actvTran
    BY Zenon, <2>3
  <2>7. QED
    BY Zenon, <1>7, <2>2, <2>4, <2>5, <2>6
<1>11. QED
  BY Zenon, <1>2, <1>8, <1>9, <1>10
(* Output, Delete and Update. *)
LEMMA WriteInvariant ==
    ASSUME IInv, NEW t \in Starts, NEW table \in Tables, NEW w \in SUBSET Loc,
           Write(t, table, w)
    PROVE  IInv'
<1> DEFINE C == {c \in Starts \ {t} : /\ Overlap(t, c) /\ ~Ended(c)
                                      /\ bytable[table][c].reads \cap w # {}}
           gotUpdate == [ct EXCEPT ![t].hasUpdates = TRUE]
           saved == [bytable EXCEPT ![table][t].writes = @ \cup w]
<1> USE DEF IInv
<1>1. /\ t \in actvTran /\ seq' = seq /\ corrupted' = corrupted
      /\ acked' = acked /\ periods' = periods
      /\ Record(t, {}, {table} \X w)
  BY Zenon DEF Write
<1>2. \/ /\ Late(t) \/ Refused(t, table)
         /\ AbortAll({t}, ct, bytable, exclusive)
      \/ /\ ~Late(t) /\ ~Refused(t, table)
         /\ \E seen \in SUBSET C, loses, tooMany \in BOOLEAN :
               /\ Abort1of(C, seen, loses)
               /\ AbortAll(Victims(seen)
                               \cup (IF loses \/ tooMany THEN {t} ELSE {}),
                           WithConflict(gotUpdate, Marked(seen)), saved, exclusive)
  BY Zenon DEF Write
<1>3. /\ {table} \X w \subseteq Entry /\ {} \subseteq Entry
      /\ acked' \subseteq Starts
      /\ actvTran \subseteq Starts /\ cmtdTran \subseteq Starts
      /\ ct \in [Starts -> CkTran]
      /\ exclusive \in [Tables -> Starts \cup {0, MaxInt}]
      /\ {table} \X {} = {}
  BY Zenon, <1>1 DEF TypeOK, Entry
<1>4. Adds(saved, table, t, {}, w)
  <2>1. saved = SavedWrites(table, t, w)
    BY Zenon DEF SavedWrites
  <2>2. Adds(SavedWrites(table, t, w), table, t, {}, w)
    BY Zenon, SaveActions
  <2>3. QED
    BY Zenon, <2>1, <2>2
<1>5. \A c \in actvTran : c # t /\ bytable[table][c].reads \cap w # {} => c \in C
  <2>1. \A c \in actvTran : ct[c].end = MaxInt /\ ~Ended(c)
    BY Zenon DEF Times, Ended
  <2>2. QED
    BY Zenon, <1>1, <1>3, <2>1, StartsAreNumbers DEF Overlap
<1>6. C \subseteq Starts /\ t \notin C /\ \A c \in C : bytable[table][c].reads # {}
  BY Zenon
<1>7. /\ gotUpdate \in [Starts -> CkTran]
      /\ gotUpdate[t].hasUpdates
      /\ \A x \in Starts : /\ gotUpdate[x].end = ct[x].end
                           /\ gotUpdate[x].failed = ct[x].failed
                           /\ gotUpdate[x].readConflict = ct[x].readConflict
                           /\ x # t => gotUpdate[x] = ct[x]
  BY ZenonT(60), <1>3 DEF CkTran
<1>8. C \subseteq actvTran
  <2>1. \A c \in C : c \in actvTran \cup cmtdTran
    BY <1>6 DEF Remembered, NoActions
  <2>2. \A c \in C : ~Ended(c)
    BY Zenon
  <2>3. QED
    BY Zenon, <2>1, <2>2 DEF Times, Committed
<1> HIDE DEF C, gotUpdate, saved
<1>9. CASE /\ Late(t) \/ Refused(t, table)
           /\ AbortAll({t}, ct, bytable, exclusive)
  BY Zenon, <1>1, <1>3, <1>9, AbortInvariant
<1>10. CASE /\ ~Late(t) /\ ~Refused(t, table)
            /\ \E seen \in SUBSET C, loses, tooMany \in BOOLEAN :
                  /\ Abort1of(C, seen, loses)
                  /\ AbortAll(Victims(seen)
                                  \cup (IF loses \/ tooMany THEN {t} ELSE {}),
                              WithConflict(gotUpdate, Marked(seen)), saved, exclusive)
  <2>1. PICK seen \in SUBSET C, loses \in BOOLEAN, tooMany \in BOOLEAN :
                  /\ Abort1of(C, seen, loses)
                  /\ AbortAll(Victims(seen)
                                  \cup (IF loses \/ tooMany THEN {t} ELSE {}),
                              WithConflict(gotUpdate, Marked(seen)), saved, exclusive)
    BY Zenon, <1>10
  <2> DEFINE A == Victims(seen) \cup (IF loses \/ tooMany THEN {t} ELSE {})
             S == Marked(seen)
             cts == WithConflict(gotUpdate, S)
  <2>2. /\ A \in SUBSET Starts /\ S \in SUBSET Starts
        /\ t \notin S /\ S \subseteq actvTran
        /\ \A x \in S : ~ct[x].hasUpdates
    BY ZenonT(60), <1>6, <1>8 DEF Victims, Marked
  <2>3. /\ cts \in [Starts -> CkTran]
        /\ \A x \in Starts :
                 /\ cts[x].end = gotUpdate[x].end
                 /\ cts[x].failed = gotUpdate[x].failed
                 /\ cts[x].hasUpdates = gotUpdate[x].hasUpdates
                 /\ cts[x].readConflict = (gotUpdate[x].readConflict \/ x \in S)
                 /\ x \notin S => cts[x] = gotUpdate[x]
    <3> HIDE DEF S
    <3>1. QED
      BY <1>7, <2>2, MarkConflicts
  <2>4. AbortAll(A, cts, saved, exclusive)
    BY Zenon, <2>1
  <2>5. t \notin A => \A c \in actvTran \ (A \cup {t}) :
                         c \notin S => bytable[table][c].reads \cap w = {}
    <3> SUFFICES ASSUME t \notin A, NEW c \in actvTran \ (A \cup {t}),
                        c \notin S, bytable[table][c].reads \cap w # {}
                 PROVE  FALSE
      BY Zenon
    <3>1. seen = C
      BY Zenon, <2>1 DEF Abort1of
    <3>2. c \in seen
      BY Zenon, <1>5, <3>1
    <3>3. QED
      BY Zenon, <3>2 DEF Victims, Marked
  <2> HIDE DEF A, S, cts
  <2>6. Doing(A, cts, saved, exclusive, t, {table} \X {}, {table} \X w)
    <3>1. \A tb \in Tables, x \in Starts \ actvTran : saved[tb][x] = bytable[tb][x]
      BY Zenon, <1>1, <1>4 DEF Adds
    <3>2. Record(t, {table} \X {}, {table} \X w)
      BY Zenon, <1>1, <1>3
    <3>3. \A x \in Starts \ actvTran : cts[x] = ct[x]
      BY Zenon, <1>1, <1>7, <2>2, <2>3
    <3>4. \A x \in Starts : cts[x].end = ct[x].end /\ cts[x].failed = ct[x].failed
      BY ZenonT(60), <1>7, <2>3
    <3>5. QED
      BY ZenonT(60), <1>1, <1>3, <1>4, <2>2, <2>3, <2>4, <3>1, <3>2, <3>3, <3>4 DEF Doing, Adds
  <2>7. ~ct[t].readConflict
    <3>1. ~Late(t)
      BY Zenon, <1>10
    <3>2. ~(ct[t].hasUpdates /\ ct[t].readConflict)
      BY Zenon, <1>1 DEF Tracked
    <3>3. QED
      BY Zenon, <3>1, <3>2 DEF Late
  <2>8. Acting(A, cts, saved, t, table, {}, w)
    <3>1. \A x \in actvTran \ A : ~(cts[x].hasUpdates /\ cts[x].readConflict)
      <4> SUFFICES ASSUME NEW x \in actvTran \ A
                   PROVE  ~(cts[x].hasUpdates /\ cts[x].readConflict)
        BY Zenon
      <4>1. CASE x = t
        BY Zenon, <1>3, <1>7, <2>2, <2>3, <2>7, <4>1
      <4>2. CASE x # t
        BY Zenon, <1>3, <1>7, <2>2, <2>3, <4>2 DEF Tracked
      <4>3. QED
        BY Zenon, <4>1, <4>2
    <3>2. /\ \A x \in Starts : ct[x].hasUpdates => cts[x].hasUpdates
          /\ \A x \in Starts : ct[x].readConflict => cts[x].readConflict
          /\ cts[t].hasUpdates
      BY ZenonT(60), <1>7, <2>3
    <3>3. t \notin A =>
             \A c \in actvTran \ (A \cup {t}) :
                ~cts[c].readConflict => bytable[table][c].reads \cap w = {}
      BY Zenon, <1>3, <2>3, <2>5
    <3>4. QED
      BY Zenon, <1>1, <1>4, <3>1, <3>2, <3>3 DEF Acting, Adds
  <2>9. Tracked' /\ Disjoint'
    BY Zenon, <2>6, <2>8, ActingPreserves
  <2>10. PeriodsAt(seq, periods, actvTran \ A, saved, exclusive)
    <3> SUFFICES ASSUME NEW p \in periods, NEW x \in actvTran \ A,
                        saved[p.table][x].writes # {}
                 PROVE  p.to < x
      BY Zenon DEF Periods, PeriodsAt
    <3>1. /\ p.table \in Tables /\ p.to \in Nat /\ MaxInt \in Nat
          /\ exclusive[p.table] \in Nat /\ exclusive[p.table] <= MaxInt
      BY Zenon, PeriodsAreNumbers
    <3>2. /\ p.to \notin actvTran
          /\ p.to <= exclusive[p.table] \/ \A a \in actvTran : p.to < a
          /\ bytable[p.table][x].writes # {} => p.to < x
      BY Zenon DEF Periods, PeriodsAt
    <3>3. CASE p.table = table /\ x = t
      <4>1. ~(t < exclusive[table]) /\ t \in Nat
        BY Zenon, <1>10, StartsAreNumbers DEF Refused
      <4>2. QED
        BY <1>1, <3>1, <3>2, <3>3, <4>1
    <3>4. CASE ~(p.table = table /\ x = t)
      <4>1. saved[p.table][x] = bytable[p.table][x]
        BY Zenon, <1>3, <1>4, <3>1, <3>4 DEF Adds
      <4>2. QED
        BY Zenon, <3>2, <4>1
    <3>5. QED
      BY Zenon, <3>3, <3>4
  <2>11. QED
    BY Zenon, <1>1, <1>3, <2>6, <2>9, <2>10, DoingInvariant
<1>11. QED
  BY Zenon, <1>2, <1>9, <1>10

------------------------------------------------------------------------------
(* EndExclusive and Commit *)

(* EndExclusive goes on refusing the transactions that started before. *)
LEMMA EndExclusiveInvariant ==
    ASSUME IInv, NEW table \in Tables, EndExclusive(table)
    PROVE  IInv'
<1> DEFINE excl == [exclusive EXCEPT ![table] = next]
           Over(p) == p.table = table /\ p.to = MaxInt
           Closed(p) == [p EXCEPT !.to = next]
<1> USE DEF IInv
<1>1. next \in Starts /\ next \in Nat /\ seq \in Nat /\ seq < next
  BY Zenon, NextIsNew DEF EndExclusive
<1>2. /\ exclusive[table] = MaxInt /\ seq' = next
      /\ CleanEnded(TRUE, oldest, actvTran, cmtdTran, {}, ct, bytable, excl)
      /\ periods' = {IF Over(p) THEN Closed(p) ELSE p : p \in periods}
      /\ corrupted' = corrupted /\ acked' = acked /\ hist' = hist
  BY Zenon DEF EndExclusive
<1>3. /\ excl \in [Tables -> Starts \cup {0, MaxInt}]
      /\ excl[table] = next
      /\ \A tb \in Tables : tb # table => excl[tb] = exclusive[tb]
  BY Zenon, <1>1 DEF TypeOK
<1>4. /\ actvTran \in SUBSET Starts /\ cmtdTran \in SUBSET Starts
      /\ ct \in [Starts -> CkTran] /\ bytable \in [Tables -> [Starts -> Actions]]
      /\ oldest \in Starts \cup {MaxInt} /\ {} \in SUBSET Starts /\ TRUE \in BOOLEAN
  BY Zenon DEF TypeOK
<1> HIDE DEF excl
<1>5. Kept(TRUE, actvTran, cmtdTran, {}, ct, bytable, excl)
  <2>1. IsOldest(oldest, actvTran)
    BY Zenon DEF Remembered
  <2>2. QED
    BY Zenon, <1>2, <1>3, <1>4, <2>1, CleanEndedKeeps
<1>6. \A p \in periods :
         /\ p.table \in Tables /\ p.from \in {1} \cup Starts
         /\ p.to \in Starts \cup {MaxInt}
         /\ Closed(p).to = next /\ Closed(p).from = p.from /\ Closed(p).table = p.table
         /\ Closed(p) \in [table : Tables, from : {1} \cup Starts,
                           to : Starts \cup {MaxInt}]
  <2> SUFFICES ASSUME NEW p \in periods
               PROVE  /\ p.table \in Tables /\ p.from \in {1} \cup Starts
                      /\ p.to \in Starts \cup {MaxInt}
                      /\ Closed(p).to = next /\ Closed(p).from = p.from
                      /\ Closed(p).table = p.table
                      /\ Closed(p) \in [table : Tables, from : {1} \cup Starts,
                                        to : Starts \cup {MaxInt}]
    BY Zenon
  <2>1. p \in [table : Tables, from : {1} \cup Starts, to : Starts \cup {MaxInt}]
    BY Zenon DEF TypeOK
  <2>2. QED
    BY Zenon, <1>1, <2>1
<1> HIDE DEF Closed
<1>7. TypeOK'
  <2>1. periods' \subseteq [table : Tables, from : {1} \cup Starts,
                            to : Starts \cup {MaxInt}]
    BY <1>2, <1>6 DEF TypeOK
  <2>2. /\ actvTran' \subseteq Starts /\ cmtdTran' \subseteq Starts
        /\ ct' \in [Starts -> CkTran]
        /\ bytable' \in [Tables -> [Starts -> Actions]]
        /\ exclusive' \in [Tables -> Starts \cup {0, MaxInt}]
        /\ oldest' \in Starts \cup {MaxInt}
        /\ seq' \in {1} \cup Starts
    BY Zenon, <1>1, <1>2, <1>4, <1>5 DEF Kept
  <2>3. QED
    BY ZenonT(60), <1>2, <2>1, <2>2 DEF TypeOK
<1>8. /\ actvTran' = actvTran /\ ct' = ct /\ cmtdTran' \subseteq cmtdTran
      /\ \A t \in Starts : (Ended(t)' <=> Ended(t)) /\ (Committed(t)' <=> Committed(t))
  BY Zenon, <1>5 DEF Kept, Ended, Committed
<1>9. \A t \in Starts : t \in Nat /\ ct[t].end \in Nat
  BY Zenon, <1>4, StartsAreNumbers DEF CkTran
<1>10. Times'
  <2>1. \A t \in actvTran' : t <= seq' /\ ct'[t].end = MaxInt /\ ~ct'[t].failed
    BY SMTT(60), <1>1, <1>2, <1>4, <1>8, <1>9 DEF Times
  <2>2. \A t \in Starts : Ended(t)' => /\ t < ct'[t].end /\ ct'[t].end <= seq'
                                       /\ ~ct'[t].failed
    BY <1>1, <1>2, <1>8, <1>9 DEF Times
  <2>3. \A t \in actvTran', c \in Starts : ct'[c].end # t
    BY Zenon, <1>8 DEF Times
  <2>4. \A c \in cmtdTran' : Committed(c)'
    BY Zenon, <1>4, <1>8 DEF Times
  <2>5. \A t \in Starts : t > seq' => hist'[t] = NoHistory
    <3>1. \A t \in Starts : t > next => t > seq
      BY <1>1, <1>9
    <3>2. QED
      BY Zenon, <1>2, <3>1 DEF Times
  <2>6. QED
    BY ZenonT(60), <2>1, <2>2, <2>3, <2>4, <2>5 DEF Times
<1>11. Remembered'
  <2>1. Cleanable(TRUE, actvTran, cmtdTran, {}, ct, bytable)
    BY Zenon, <1>4 DEF Cleanable, Times, Remembered, Committed, Ended
  <2>2. QED
    BY Zenon, <1>5, <2>1, CleanEndedRemembers
<1>12. \A tb \in Tables, t \in actvTran' \cup cmtdTran' : bytable'[tb][t] = bytable[tb][t]
  <2>1. \A t \in actvTran : t \notin cmtdTran
    BY ZenonT(60) DEF Times, Committed, Ended
  <2>2. QED
    BY Zenon, <1>4, <1>5, <1>8, <2>1 DEF Kept
<1>13. Tracked' /\ Disjoint'
  BY <1>2, <1>4, <1>8, <1>12 DEF Tracked, Disjoint
<1>14. Serializable'
  BY Zenon, <1>2, <1>8 DEF Serializable
<1>15. \A q \in periods' : \E p \in periods :
          \/ Over(p) /\ q = Closed(p)
          \/ ~Over(p) /\ q = p
  BY Zenon, <1>2
<1>16. PeriodsAt(seq', periods', actvTran, bytable, excl)
  <2> SUFFICES ASSUME NEW q \in periods'
               PROVE  /\ q.from <= seq' /\ (q.to # MaxInt => q.to <= seq')
                      /\ q.to \notin actvTran
                      /\ q.to = MaxInt => excl[q.table] = MaxInt
                      /\ q.to <= excl[q.table] \/ \A a \in actvTran : q.to < a
                      /\ \A t \in actvTran : bytable[q.table][t].writes # {} => q.to < t
    BY Zenon DEF PeriodsAt
  <2>1. PICK p \in periods : \/ Over(p) /\ q = Closed(p)
                             \/ ~Over(p) /\ q = p
    BY Zenon, <1>15
  <2>2. /\ p.from <= seq /\ (p.to # MaxInt => p.to <= seq)
        /\ p.to \notin actvTran
        /\ p.to = MaxInt => exclusive[p.table] = MaxInt
        /\ p.to <= exclusive[p.table] \/ \A a \in actvTran : p.to < a
        /\ \A t \in actvTran : bytable[p.table][t].writes # {} => p.to < t
    BY Zenon DEF Periods, PeriodsAt
  <2>3. /\ p.table \in Tables /\ p.to \in Nat /\ p.from \in Nat /\ MaxInt \in Nat
    BY Zenon, PeriodsAreNumbers
  <2>4. p.from <= next /\ (p.to # MaxInt => p.to < next)
    BY SMTT(60), <1>1, <2>2, <2>3
  <2>5. CASE Over(p) /\ q = Closed(p)
    <3>1. q.to = next /\ q.from = p.from /\ q.table = table
      BY Zenon, <1>6, <2>5
    <3>2. next \notin actvTran /\ next < MaxInt
      BY <1>1, <1>4, <1>9, StartsAreNumbers DEF Times
    <3>3. \A t \in actvTran : bytable[table][t].writes = {}
      <4>1. \A t \in actvTran : ~(MaxInt < t)
        BY <1>4, <1>9, StartsAreNumbers
      <4>2. QED
        BY Zenon, <2>2, <2>5, <4>1
    <3>4. QED
      BY <1>1, <1>2, <1>3, <2>3, <2>4, <3>1, <3>2, <3>3
  <2>6. CASE ~Over(p) /\ q = p
    <3>1. p.to # MaxInt => p.to <= seq'
      BY <1>1, <1>2, <2>3, <2>4
    <3>2. p.to = MaxInt => excl[p.table] = MaxInt
      BY Zenon, <1>3, <2>2, <2>3, <2>6
    <3>3. p.to <= excl[p.table] \/ \A a \in actvTran : p.to < a
      <4>1. CASE p.table = table
        BY <1>1, <1>3, <2>3, <2>4, <2>6, <4>1
      <4>2. CASE p.table # table
        BY Zenon, <1>3, <2>2, <2>3, <4>2
      <4>3. QED
        BY Zenon, <4>1, <4>2
    <3>4. QED
      BY ZenonT(60), <1>2, <2>2, <2>4, <2>6, <3>1, <3>2, <3>3
  <2>7. QED
    BY Zenon, <2>1, <2>5, <2>6
<1>17. Periods'
  BY Zenon, <1>3, <1>4, <1>5, <1>7, <1>16, CleanEndedPeriods
<1>18. ExclusiveRespected'
  <2> SUFFICES ASSUME NEW q \in periods', NEW t \in Starts, Committed(t),
                      NEW e \in hist[t].writes, e[1] = q.table
               PROVE  ct[t].end <= q.from \/ t > q.to
    BY Zenon, <1>2, <1>8 DEF ExclusiveRespected
  <2>1. PICK p \in periods : \/ Over(p) /\ q = Closed(p)
                             \/ ~Over(p) /\ q = p
    BY Zenon, <1>15
  <2>2. q.table = p.table /\ q.from = p.from
    BY Zenon, <1>6, <2>1
  <2>3. ct[t].end <= p.from \/ t > p.to
    BY Zenon, <2>2 DEF ExclusiveRespected
  <2>4. CASE Over(p) /\ q = Closed(p)
    <3>1. ~(t > MaxInt)
      BY <1>9, StartsAreNumbers
    <3>2. QED
      BY Zenon, <2>2, <2>3, <2>4, <3>1
  <2>5. CASE ~Over(p) /\ q = p
    BY Zenon, <2>3, <2>5
  <2>6. QED
    BY Zenon, <2>1, <2>4, <2>5
<1>19. QED
  BY Zenon, <1>7, <1>10, <1>11, <1>13, <1>14, <1>17, <1>18
(* Commit on a sound database.  A transaction with updates has no read     *)
(* conflict, so what it read was not written by any transaction that       *)
(* committed since its start: that one is remembered, and was disjoint.    *)
LEMMA CommitInvariant ==
    ASSUME IInv, NEW t \in Starts, Commit(t), ~corrupted
    PROVE  IInv'
<1> DEFINE old == OldestWithout(t)
           kept == ct[t].hasUpdates
           live == actvTran \ {t}
           cmtd == IF kept THEN cmtdTran \cup {t} ELSE cmtdTran
           gone == IF kept THEN {} ELSE {t}
           cts == [ct EXCEPT ![t].end = next]
           acts == [table \in Tables |-> [bytable[table] EXCEPT ![t].reads = {}]]
<1> USE DEF IInv
<1>1. /\ t \in actvTran /\ CanStep /\ seq' = next /\ acked' = acked \cup {t}
      /\ corrupted' = corrupted /\ periods' = periods /\ Record(MaxInt, {}, {})
      /\ CleanEnded(old = MaxInt, old, live, cmtd, gone, cts, acts, exclusive)
  BY Zenon DEF Commit, ForgetAborted
<1>2. next \in Starts /\ next \in Nat /\ seq \in Nat /\ seq < next
  BY Zenon, <1>1, NextIsNew
<1>3. /\ actvTran \subseteq Starts /\ cmtdTran \subseteq Starts
      /\ ct \in [Starts -> CkTran]
      /\ exclusive \in [Tables -> Starts \cup {0, MaxInt}]
      /\ bytable \in [Tables -> [Starts -> Actions]]
      /\ live \in SUBSET Starts /\ cmtd \in SUBSET Starts /\ gone \in SUBSET Starts
      /\ (old = MaxInt) \in BOOLEAN
      /\ old \in Starts \cup {MaxInt}
  BY Zenon DEF TypeOK, OldestWithout
<1>4. /\ cts \in [Starts -> CkTran] /\ cts[t].end = next
      /\ \A x \in Starts : /\ cts[x].hasUpdates = ct[x].hasUpdates
                           /\ cts[x].readConflict = ct[x].readConflict
                           /\ cts[x].failed = ct[x].failed
                           /\ x # t => cts[x] = ct[x]
  BY <1>2, <1>3 DEF CkTran
<1>5. /\ acts \in [Tables -> [Starts -> Actions]]
      /\ \A tb \in Tables, x \in Starts :
            /\ x # t => acts[tb][x] = bytable[tb][x]
            /\ acts[tb][x].writes = bytable[tb][x].writes
  <2>1. \A tb \in Tables, x \in Starts : x # t => acts[tb][x] = bytable[tb][x]
    BY Zenon, <1>3
  <2>2. \A tb \in Tables : acts[tb][t] = [bytable[tb][t] EXCEPT !.reads = {}]
    BY Zenon, <1>3
  <2>3. \A tb \in Tables : bytable[tb][t] \in Actions
    BY Zenon, <1>3
  <2>4. \A tb \in Tables : acts[tb][t] \in Actions
                           /\ acts[tb][t].writes = bytable[tb][t].writes
    <3> SUFFICES ASSUME NEW tb \in Tables
                 PROVE  /\ acts[tb][t] \in Actions
                        /\ acts[tb][t].writes = bytable[tb][t].writes
      BY Zenon
    <3>1. acts[tb][t] = [bytable[tb][t] EXCEPT !.reads = {}]
      BY Zenon, <2>2
    <3>2. bytable[tb][t] \in Actions
      BY Zenon, <2>3
    <3> HIDE DEF acts
    <3>3. QED
      BY Zenon, <3>1, <3>2 DEF Actions
  <2>5. \A tb \in Tables : acts[tb] \in [Starts -> Actions]
    BY Zenon, <1>3, <2>1, <2>4
  <2>6. acts \in [Tables -> [Starts -> Actions]]
    BY Zenon, <2>5
  <2>7. QED
    BY Zenon, <2>1, <2>4, <2>6
<1>6. IsOldest(old, live)
  BY Zenon, <1>1 DEF Remembered, IsOldest, OldestWithout
<1>7. /\ \A x \in Starts : x \in Nat /\ x < MaxInt /\ ct[x].end \in Nat
      /\ ct[t].end = MaxInt /\ MaxInt \in Nat /\ t \notin cmtdTran
      /\ \A x \in actvTran : x < next
      /\ \A x \in Starts : Ended(x) => ct[x].end < next /\ x # t
  <2>1. \A x \in Starts : x \in Nat /\ x < MaxInt /\ ct[x].end \in Starts \cup {MaxInt}
    BY Zenon, <1>3, StartsAreNumbers DEF CkTran
  <2>2. \A x \in Starts : ct[x].end \in Nat
    BY Zenon, <2>1, StartsAreNumbers
  <2>3. ct[t].end = MaxInt /\ MaxInt \in Nat /\ t \notin cmtdTran
    BY Zenon, <1>1, StartsAreNumbers DEF Times, Committed, Ended
  <2>4. \A x \in actvTran : x < next
    BY <1>2, <1>3, <2>1 DEF Times
  <2>5. \A x \in Starts : Ended(x) => ct[x].end <= seq
    BY Zenon DEF Times
  <2>6. QED
    BY <1>2, <2>1, <2>2, <2>3, <2>4, <2>5 DEF Ended
<1> HIDE DEF cts, acts
<1>8. Kept(old = MaxInt, live, cmtd, gone, cts, acts, exclusive)
  <2> HIDE DEF old, live, cmtd, gone
  <2>1. QED
    BY Zenon, <1>1, <1>3, <1>4, <1>5, <1>6, CleanEndedKeeps
<1>9. Cleanable(old = MaxInt, live, cmtd, gone, cts, acts)
  <2>1. \A c \in cmtd : cts[c].end # MaxInt
    BY SMTT(60), <1>2, <1>3, <1>4, <1>7 DEF Times, Committed, Ended
  <2>2. \A a \in live, c \in Starts : cts[c].end # a
    BY <1>3, <1>4, <1>7 DEF Times
  <2>3. ASSUME old # MaxInt PROVE \A c \in cmtd : \E a \in live : a < cts[c].end
    <3>1. oldest \in live /\ \A a \in actvTran : oldest <= a
      BY Zenon, <2>3 DEF OldestWithout, Remembered, IsOldest
    <3>2. ASSUME NEW c \in cmtdTran PROVE oldest < cts[c].end
      <4>1. PICK a \in actvTran : a < ct[c].end
        BY Zenon DEF Remembered
      <4>2. /\ oldest <= a /\ oldest \in Nat /\ a \in Nat
            /\ cts[c].end = ct[c].end /\ ct[c].end \in Nat
        BY Zenon, <1>3, <1>4, <1>7, <3>1
      <4>3. QED
        BY <4>1, <4>2
    <3>3. oldest < cts[t].end
      BY Zenon, <1>4, <1>7, <3>1
    <3>4. QED
      BY Zenon, <3>1, <3>2, <3>3
  <2>4. \A c \in Starts : cts[c].end # MaxInt /\ cts[c].hasUpdates /\ c \notin cmtd
            => \A a \in live : cts[c].end < a
    BY Zenon, <1>4 DEF Remembered, Committed, Ended
  <2>5. \A table \in Tables, x \in Starts :
            x \notin live \cup cmtd \cup gone => acts[table][x] = NoActions
    BY <1>5 DEF Remembered
  <2>6. QED
    BY ZenonT(60), <1>3, <1>4, <2>1, <2>2, <2>3, <2>4, <2>5 DEF Cleanable
<1>10. Remembered'
  BY Zenon, <1>8, <1>9, CleanEndedRemembers
<1>11. /\ actvTran' = live /\ ct' = cts /\ cmtdTran' \subseteq cmtd
       /\ bytable' \in [Tables -> [Starts -> Actions]]
       /\ exclusive' \in [Tables -> Starts \cup {0, MaxInt}]
       /\ oldest' \in Starts \cup {MaxInt}
  BY Zenon, <1>8 DEF Kept
<1>12. /\ \A x \in Starts : Ended(x)' <=> (Ended(x) \/ x = t)
       /\ \A x \in Starts : Committed(x)' <=> (Committed(x) \/ (x = t /\ kept))
  BY ZenonT(60), <1>2, <1>4, <1>7, <1>11, StartsAreNumbers DEF Committed, Ended
<1>13. /\ hist' \in [Starts -> [reads : SUBSET Entry, writes : SUBSET Entry]]
       /\ \A x \in Starts : hist'[x] \in {hist[x], NoHistory}
       /\ \A x \in Starts : Committed(x)' => hist'[x] = hist[x]
       /\ \A x \in live : hist'[x] = hist[x]
  <2> DEFINE Gone(x) == ct'[x].failed \/ (ct'[x].end # MaxInt /\ ~ct'[x].hasUpdates)
  <2>1. hist' = [x \in Starts |-> IF Gone(x) THEN NoHistory
                    ELSE IF x = MaxInt THEN [reads |-> hist[x].reads \cup {},
                                             writes |-> hist[x].writes \cup {}]
                    ELSE hist[x]]
    BY Zenon, <1>1 DEF Record
  <2>2. \A x \in Starts : x # MaxInt
    BY Zenon, StartsAreNumbers
  <2>3. \A x \in Starts : hist'[x] = IF Gone(x) THEN NoHistory ELSE hist[x]
    BY Zenon, <2>1, <2>2
  <2>4. NoHistory \in [reads : SUBSET Entry, writes : SUBSET Entry]
    BY Zenon DEF NoHistory
  <2>5. \A x \in live : ~Gone(x)
    BY <1>3, <1>4, <1>11 DEF Times
  <2>6. \A x \in Starts : Committed(x)' => ~Gone(x)
    BY Zenon, <1>1, <1>4, <1>11, <1>12 DEF Times, Committed, Ended
  <2> HIDE DEF Gone
  <2>7. hist' \in [Starts -> [reads : SUBSET Entry, writes : SUBSET Entry]]
    <3>1. \A x \in Starts : hist'[x] \in [reads : SUBSET Entry, writes : SUBSET Entry]
      BY Zenon, <2>3, <2>4 DEF TypeOK
    <3>2. hist' = [x \in Starts |-> hist'[x]]
      BY ZenonT(60), <2>1
    <3>3. QED
      BY Zenon, <3>1, <3>2
  <2>8. QED
    BY Zenon, <1>3, <2>3, <2>5, <2>6, <2>7
<1>14. TypeOK'
  BY <1>1, <1>2, <1>3, <1>4, <1>11, <1>13 DEF TypeOK
<1>15. Times'
  <2>1. \A x \in actvTran' : x <= seq' /\ ct'[x].end = MaxInt /\ ~ct'[x].failed
    BY <1>1, <1>2, <1>3, <1>4, <1>7, <1>11 DEF Times
  <2>2. \A x \in Starts : Ended(x)' => /\ x < ct'[x].end /\ ct'[x].end <= seq'
                                       /\ ~ct'[x].failed
    <3> SUFFICES ASSUME NEW x \in Starts, Ended(x)'
                 PROVE  x < ct'[x].end /\ ct'[x].end <= seq' /\ ~ct'[x].failed
      BY Zenon
    <3>1. CASE x = t
      <4>1. ct'[t].end = next /\ ct'[t].failed = ct[t].failed /\ ~ct[t].failed
        BY Zenon, <1>1, <1>4, <1>11 DEF Times
      <4>2. t < next
        BY Zenon, <1>1, <1>7
      <4>3. QED
        BY <1>1, <1>2, <3>1, <4>1, <4>2
    <3>2. CASE x # t
      <4>1. Ended(x) /\ ct'[x] = ct[x]
        BY Zenon, <1>4, <1>11, <1>12, <3>2
      <4>2. x < ct[x].end /\ ct[x].end <= seq /\ ~ct[x].failed
        BY Zenon, <4>1 DEF Times
      <4>3. seq \in Nat /\ seq' \in Nat /\ seq <= seq'
        BY <1>1, <1>2
      <4>4. ct[x].end \in Nat
        BY Zenon, <1>7
      <4>5. ct[x].end <= seq'
        BY SMTT(60), <4>2, <4>3, <4>4
      <4>6. QED
        BY Zenon, <4>1, <4>2, <4>5
    <3>3. QED
      BY Zenon, <3>1, <3>2
  <2>3. \A x \in actvTran', c \in Starts : ct'[c].end # x
    BY <1>3, <1>4, <1>7, <1>11 DEF Times
  <2>4. \A c \in cmtdTran' : Committed(c)'
    BY Zenon, <1>3, <1>11, <1>12 DEF Times
  <2>5. \A x \in Starts : x > seq' => hist'[x] = NoHistory
    <3>1. \A x \in Starts : x > next => x > seq
      BY <1>2, <1>7
    <3>2. QED
      BY Zenon, <1>1, <1>13, <3>1 DEF Times
  <2>6. QED
    BY ZenonT(60), <2>1, <2>2, <2>3, <2>4, <2>5 DEF Times
<1>16. \A tb \in Tables, x \in actvTran' \cup cmtdTran' :
          /\ bytable'[tb][x].writes = bytable[tb][x].writes
          /\ x \in actvTran' => bytable'[tb][x] = bytable[tb][x]
  <2> SUFFICES ASSUME NEW tb \in Tables, NEW x \in actvTran' \cup cmtdTran'
               PROVE  /\ bytable'[tb][x].writes = bytable[tb][x].writes
                      /\ x \in actvTran' => bytable'[tb][x] = bytable[tb][x]
    BY Zenon
  <2>1. x \notin gone \cup (cmtd \ cmtdTran') /\ x \in Starts
    <3>1. x \in actvTran' => x \notin cmtd
      BY Zenon, <1>11 DEF Times, Committed, Ended
    <3>2. QED
      BY Zenon, <1>3, <1>7, <1>11, <3>1
  <2>2. bytable'[tb][x] = acts[tb][x]
    BY ZenonT(60), <1>8, <2>1 DEF Kept
  <2>3. QED
    BY <1>5, <1>11, <2>1, <2>2
<1>17. Tracked'
  <2>1. \A x \in actvTran' \cup cmtdTran' : hist'[x] = hist[x] /\ x \in actvTran \cup cmtdTran
    <3> SUFFICES ASSUME NEW x \in actvTran' \cup cmtdTran'
                 PROVE  hist'[x] = hist[x] /\ x \in actvTran \cup cmtdTran
      BY Zenon
    <3>1. CASE x \in actvTran'
      BY Zenon, <1>3, <1>11, <1>13, <3>1
    <3>2. CASE x \in cmtdTran'
      <4>1. Committed(x)'
        BY Zenon, <1>15, <3>2 DEF Times
      <4>2. QED
        BY Zenon, <1>1, <1>3, <1>11, <1>13, <3>2, <4>1
    <3>3. QED
      BY Zenon, <3>1, <3>2
  <2>2. \A x \in actvTran' : x \in actvTran /\ ct'[x] = ct[x]
    BY Zenon, <1>3, <1>4, <1>11
  <2>3. QED
    BY <1>16, <2>1, <2>2 DEF Tracked
<1>18. Disjoint'
  <2> SUFFICES ASSUME NEW x \in actvTran', NEW c \in actvTran' \cup cmtdTran',
                      x # c, ~ct'[x].readConflict, ct'[c].end > x,
                      NEW tb \in Tables, NEW loc \in Loc,
                      loc \in bytable'[tb][x].reads, loc \in bytable'[tb][c].writes
               PROVE  FALSE
    BY Zenon DEF Disjoint
  <2>1. /\ x \in actvTran /\ c \in actvTran \cup cmtdTran /\ ~ct[x].readConflict
        /\ x \in Starts /\ c \in Starts
    BY Zenon, <1>1, <1>3, <1>4, <1>11
  <2>2. ct[c].end > x
    BY Zenon, <1>4, <1>7, <1>11, <2>1
  <2>3. loc \in bytable[tb][x].reads /\ loc \in bytable[tb][c].writes
    BY Zenon, <1>16
  <2>4. QED
    BY Zenon, <2>1, <2>2, <2>3 DEF Disjoint
<1>19. Serializable'
  <2> SUFFICES ASSUME NEW x \in Starts, NEW c \in Starts, x # c,
                      Committed(x)', Committed(c)',
                      x < ct'[c].end, ct'[c].end < ct'[x].end
               PROVE  hist'[x].reads \cap hist'[c].writes = {}
    BY Zenon DEF Serializable
  <2>1. hist'[x] = hist[x] /\ hist'[c] = hist[c]
    BY ZenonT(60), <1>13
  <2>2. c # t
    <3> SUFFICES ASSUME c = t PROVE FALSE
      BY Zenon
    <3>1. Ended(x) /\ ct'[x] = ct[x]
      BY Zenon, <1>4, <1>11, <1>12 DEF Committed
    <3>2. QED
      BY <1>2, <1>4, <1>7, <1>11, <3>1
  <2>3. Committed(c) /\ ct'[c] = ct[c]
    BY ZenonT(60), <1>4, <1>11, <1>12, <2>2
  <2>4. CASE x = t
    <3>1. c \in cmtdTran
      <4>1. ~(ct[c].end < t)
        BY <1>7, <2>3, <2>4
      <4>2. QED
        BY ZenonT(60), <1>1, <2>3, <4>1 DEF Remembered
    <3>2. ~ct[t].readConflict
      BY Zenon, <1>1, <1>7, <1>12, <2>4 DEF Tracked, Committed, Ended
    <3>3. \A tb \in Tables, loc \in Loc :
             ~(loc \in bytable[tb][t].reads /\ loc \in bytable[tb][c].writes)
      BY Zenon, <1>1, <2>3, <2>4, <3>1, <3>2 DEF Disjoint
    <3>4. \A tb \in Tables, loc \in Loc :
             ~(<<tb, loc>> \in hist[t].reads /\ <<tb, loc>> \in hist[c].writes)
      <4>1. \A tb \in Tables, loc \in Loc :
               <<tb, loc>> \in hist[t].reads => loc \in bytable[tb][t].reads
        BY Zenon, <1>1, <3>2 DEF Tracked
      <4>2. \A tb \in Tables, loc \in Loc :
               <<tb, loc>> \in hist[c].writes => loc \in bytable[tb][c].writes
        BY Zenon, <3>1 DEF Tracked
      <4>3. QED
        BY Zenon, <3>3, <4>1, <4>2
    <3>5. hist[t].reads \subseteq Tables \X Loc
      BY Zenon DEF TypeOK, Entry
    <3>6. QED
      BY <2>1, <2>4, <3>4, <3>5
  <2>5. CASE x # t
    BY ZenonT(60), <1>4, <1>11, <1>12, <2>1, <2>3, <2>5 DEF Serializable
  <2>6. QED
    BY Zenon, <2>4, <2>5
<1>20. Periods'
  <2>1. PeriodsAt(seq', periods', live, acts, exclusive)
    <3> SUFFICES ASSUME NEW p \in periods
                 PROVE  /\ p.from <= seq' /\ (p.to # MaxInt => p.to <= seq')
                        /\ p.to \notin live
                        /\ p.to = MaxInt => exclusive[p.table] = MaxInt
                        /\ p.to <= exclusive[p.table] \/ \A a \in live : p.to < a
                        /\ \A x \in live : acts[p.table][x].writes # {} => p.to < x
      BY Zenon, <1>1 DEF PeriodsAt
    <3>1. p.table \in Tables /\ p.to \in Nat /\ p.from \in Nat
      BY Zenon, PeriodsAreNumbers
    <3>2. /\ p.from <= seq /\ (p.to # MaxInt => p.to <= seq)
          /\ p.to \notin actvTran
          /\ p.to = MaxInt => exclusive[p.table] = MaxInt
          /\ p.to <= exclusive[p.table] \/ \A a \in actvTran : p.to < a
          /\ \A x \in actvTran : bytable[p.table][x].writes # {} => p.to < x
      BY ZenonT(60) DEF Periods, PeriodsAt
    <3>3. p.from <= seq' /\ (p.to # MaxInt => p.to <= seq')
      BY <1>1, <1>2, <3>1, <3>2
    <3>4. QED
      BY Zenon, <1>3, <1>5, <3>1, <3>2, <3>3
  <2> HIDE DEF live, cmtd, gone, old
  <2>2. QED
    BY Zenon, <1>3, <1>8, <1>14, <2>1, CleanEndedPeriods
<1>21. ExclusiveRespected'
  <2> SUFFICES ASSUME NEW p \in periods, NEW x \in Starts, Committed(x)',
                      NEW e \in hist'[x].writes, e[1] = p.table
               PROVE  ct'[x].end <= p.from \/ x > p.to
    BY ZenonT(60), <1>1 DEF ExclusiveRespected
  <2>1. hist'[x] = hist[x]
    BY Zenon, <1>13
  <2>2. CASE x = t
    <3>1. e \in Tables \X Loc
      BY ZenonT(60), <2>1 DEF TypeOK, Entry
    <3>2. e = <<p.table, e[2]>> /\ p.table \in Tables /\ e[2] \in Loc
      BY <3>1
    <3>3. bytable[p.table][t].writes # {}
      BY Zenon, <1>1, <2>1, <2>2, <3>2 DEF Tracked
    <3>4. p.to < t /\ p.to \in Nat
      BY Zenon, <1>1, <3>3, PeriodsAreNumbers DEF Periods, PeriodsAt
    <3>5. QED
      BY Zenon, <1>7, <2>2, <3>4
  <2>3. CASE x # t
    BY Zenon, <1>4, <1>11, <1>12, <2>1, <2>3 DEF ExclusiveRespected
  <2>4. QED
    BY Zenon, <2>2, <2>3
<1>22. QED
  BY Zenon, <1>10, <1>14, <1>15, <1>17, <1>18, <1>19, <1>20, <1>21
------------------------------------------------------------------------------
(* Every step, and the theorems *)

(* Initially nothing has happened. *)
LEMMA InitInvariant ==
    ASSUME Init
    PROVE  IInv
<1> USE DEF Init
<1>1. TypeOK
  BY Zenon DEF TypeOK, NewCkTran, CkTran, NoActions, Actions, NoHistory
<1>2. \A t \in Starts : ~Ended(t) /\ ~Committed(t)
  BY Zenon DEF Ended, Committed, NewCkTran
<1>3. Times
  BY Zenon, <1>2 DEF Times
<1>4. Remembered
  BY Zenon, <1>2 DEF Remembered, IsOldest
<1>5. Tracked /\ Disjoint
  BY Zenon DEF Tracked, Disjoint
<1>6. Serializable /\ ExclusiveRespected
  BY Zenon, <1>2 DEF Serializable, ExclusiveRespected
<1>7. Periods
  BY Zenon DEF Periods, PeriodsAt
<1>8. QED
  BY Zenon, <1>1, <1>3, <1>4, <1>5, <1>6, <1>7 DEF IInv

(* The keys of a record are locations. *)
LEMMA KeyLocsAreLocs ==
    ASSUME NEW keys \in [Indexes -> Keys]
    PROVE  KeyLocs(keys) \in SUBSET Loc
  BY DEF KeyLocs, Loc

(* Every call of the checker preserves the invariant. *)
LEMMA NextInvariant ==
    ASSUME IInv, [Next]_vars
    PROVE  IInv'
<1>1. CASE StartTran
  BY Zenon, <1>1, StartTranInvariant
<1>2. ASSUME NEW t \in Starts, NEW table \in Tables, NEW index \in Indexes,
             NEW from \in Keys, NEW to \in Keys, Read(t, table, index, from, to)
      PROVE  IInv'
  BY Zenon, <1>2, ReadInvariant
<1>3. ASSUME NEW t \in Starts, NEW table \in Tables, NEW keys \in [Indexes -> Keys],
             Output(t, table, keys) \/ Delete(t, table, keys)
      PROVE  IInv'
  <2>1. Write(t, table, KeyLocs(keys))
    BY Zenon, <1>3 DEF Output, Delete
  <2>2. QED
    BY Zenon, <2>1, KeyLocsAreLocs, WriteInvariant
<1>4. ASSUME NEW t \in Starts, NEW table \in Tables,
             NEW old \in [Indexes -> Keys], NEW new \in [Indexes -> Keys],
             Update(t, table, old, new)
      PROVE  IInv'
  <2>1. KeyLocs(old) \cup KeyLocs(new) \in SUBSET Loc
    BY Zenon, KeyLocsAreLocs
  <2>2. Write(t, table, KeyLocs(old) \cup KeyLocs(new))
    BY Zenon, <1>4 DEF Update
  <2>3. QED
    BY Zenon, <2>1, <2>2, WriteInvariant
<1>5. ASSUME NEW t \in Starts, Abort(t)
      PROVE  IInv'
  <2>1. /\ AbortAll({t}, ct, bytable, exclusive) /\ Record(MaxInt, {}, {})
        /\ seq' = seq /\ corrupted' = corrupted /\ acked' = acked
        /\ periods' = periods
    BY Zenon, <1>5 DEF Abort, ForgetAborted
  <2>2. acked' \subseteq Starts
    BY Zenon, <2>1 DEF IInv, TypeOK
  <2>3. QED
    BY Zenon, <2>1, <2>2, AbortInvariant
<1>6. ASSUME NEW t \in Starts, Commit(t)
      PROVE  IInv'
  <2>1. CASE corrupted
    <3>1. /\ AbortAll({t}, ct, bytable, exclusive) /\ Record(MaxInt, {}, {})
          /\ seq' = seq /\ corrupted' = corrupted /\ acked' = acked \cup {t}
          /\ periods' = periods
      BY Zenon, <1>6, <2>1 DEF Commit, ForgetAborted
    <3>2. acked' \subseteq Starts
      BY Zenon, <3>1 DEF IInv, TypeOK
    <3>3. QED
      BY Zenon, <3>1, <3>2, AbortInvariant
  <2>2. CASE ~corrupted
    BY Zenon, <1>6, <2>2, CommitInvariant
  <2>3. QED
    BY Zenon, <2>1, <2>2
<1>7. ASSUME NEW table \in AdminTables, AddExclusive(table)
      PROVE  IInv'
  BY Zenon, <1>7, AddExclusiveInvariant, CheckAssumption
<1>8. ASSUME NEW table \in AdminTables, EndExclusive(table)
      PROVE  IInv'
  BY Zenon, <1>8, EndExclusiveInvariant, CheckAssumption
<1>9. CASE Tick
  BY Zenon, <1>9, TickInvariant
<1>10. CASE Corrupt \/ UNCHANGED vars
  <2>1. /\ seq' = seq /\ actvTran' = actvTran /\ cmtdTran' = cmtdTran /\ ct' = ct
        /\ bytable' = bytable /\ exclusive' = exclusive /\ oldest' = oldest
        /\ acked' = acked /\ hist' = hist /\ periods' = periods
        /\ corrupted' \in {corrupted, TRUE}
    BY Zenon, <1>10 DEF Corrupt, history, vars
  <2>2. TypeOK'
    BY Zenon, <2>1 DEF IInv, TypeOK
  <2>3. /\ \A x : Ended(x)' <=> Ended(x)
        /\ \A x : Committed(x)' <=> Committed(x)
    BY Zenon, <2>1 DEF Committed, Ended
  <2>4. Times' /\ Remembered'
    BY ZenonT(60), <2>1, <2>3 DEF IInv, Times, Remembered
  <2>5. Tracked'
    BY ZenonT(60), <2>1 DEF IInv, Tracked
  <2>6. Disjoint'
    BY ZenonT(60), <2>1 DEF IInv, Disjoint
  <2>7. Serializable'
    BY Zenon, <2>1, <2>3 DEF IInv, Serializable
  <2>8. Periods' /\ ExclusiveRespected'
    BY Zenon, <2>1, <2>3 DEF IInv, Periods, ExclusiveRespected
  <2>9. QED
    BY Zenon, <2>2, <2>4, <2>5, <2>6, <2>7, <2>8 DEF IInv
<1>11. QED
  BY Zenon, <1>1, <1>2, <1>3, <1>4, <1>5, <1>6, <1>7, <1>8, <1>9, <1>10 DEF Next

(* The inductive invariant holds throughout. *)
THEOREM InvariantHolds == Spec => []IInv
<1>1. Init => IInv
  BY Zenon, InitInvariant
<1>2. IInv /\ [Next]_vars => IInv'
  BY Zenon, NextInvariant
<1>3. QED
  BY <1>1, <1>2, PTL DEF Spec

(* The variables have their types: the fields of Check (check.go:58-80)    *)
(* hold starts, ends, locations and times in range.                        *)
THEOREM TypeCorrect == Spec => []TypeOK
<1>1. IInv => TypeOK
  BY Zenon DEF IInv
<1>2. QED
  BY <1>1, InvariantHolds, PTL

(* The update transactions that commit are serializable in the order of    *)
(* their commits (check.go:19-20), for any number of them, of tables,      *)
(* indexes and keys.                                                       *)
THEOREM CommitsAreSerializable == Spec => []Serializable
<1>1. IInv => Serializable
  BY Zenon DEF IInv
<1>2. QED
  BY <1>1, InvariantHolds, PTL

(* The rules that check_verify.go tests on demand always hold. *)
THEOREM AlwaysConsistent == Spec => []VerifyConsistency
<1>1. IInv => VerifyConsistency
  <2> SUFFICES ASSUME IInv PROVE VerifyConsistency
    BY Zenon
  <2> USE DEF IInv
  <2>0. actvTran \in SUBSET Starts /\ oldest \in Starts \cup {MaxInt}
    BY Zenon DEF TypeOK
  <2>1. /\ IsOldest(OldestOf(actvTran), actvTran)
        /\ OldestOf(actvTran) = MaxInt => actvTran = {}
    BY Zenon, <2>0, OldestOfIsOldest
  <2>2. ASSUME NEW c \in cmtdTran, actvTran # {}
        PROVE  ct[c].end > OldestOf(actvTran)
    <3>1. PICK a \in actvTran : a < ct[c].end
      BY Zenon DEF Remembered
    <3>2. OldestOf(actvTran) \in actvTran /\ OldestOf(actvTran) <= a
      BY Zenon, <2>1, <2>2 DEF IsOldest
    <3>3. c \in Starts /\ a \in Nat /\ OldestOf(actvTran) \in Nat /\ ct[c].end \in Nat
      BY Zenon, <2>0, <3>2, StartsAreNumbers DEF TypeOK, CkTran
    <3>4. QED
      BY <3>1, <3>2, <3>3
  <2>3. \A table \in Tables, t \in Starts :
            bytable[table][t] # NoActions => t \in actvTran \cup cmtdTran
    BY Zenon DEF Remembered
  <2>4. oldest \in {MaxInt, OldestOf(actvTran)}
    <3>1. CASE oldest = MaxInt
      BY Zenon, <3>1
    <3>2. CASE oldest # MaxInt
      <4>1. oldest \in actvTran /\ \A a \in actvTran : oldest <= a
        BY Zenon, <3>2 DEF Remembered, IsOldest
      <4>2. OldestOf(actvTran) \in actvTran /\ \A a \in actvTran : OldestOf(actvTran) <= a
        BY Zenon, <2>1, <4>1 DEF IsOldest
      <4>3. oldest \in Nat /\ OldestOf(actvTran) \in Nat
        BY Zenon, <2>0, <4>1, <4>2, StartsAreNumbers
      <4>4. QED
        BY <4>1, <4>2, <4>3
    <3>3. QED
      BY Zenon, <3>1, <3>2
  <2>5. QED
    BY Zenon, <2>2, <2>3, <2>4 DEF VerifyConsistency
<1>2. QED
  BY <1>1, InvariantHolds, PTL

(* The assertions in Read, Output, Delete, Update and commit never fail. *)
THEOREM AssertionsNeverFail == Spec => []AssertionsHold
<1>1. IInv => AssertionsHold
  BY Zenon DEF IInv, Times, Tracked, AssertionsHold, Ended
<1>2. QED
  BY <1>1, InvariantHolds, PTL

(* cleanEnded forgets no committed transaction, and none of its writes,    *)
(* that an active transaction can still conflict with.                     *)
THEOREM NothingForgottenTooSoon == Spec => []RememberedWhileOverlapping
<1>1. IInv => RememberedWhileOverlapping
  <2> SUFFICES ASSUME IInv, NEW c \in Starts, NEW t \in actvTran,
                      Committed(c), ct[c].end > t
               PROVE  /\ c \in cmtdTran
                      /\ \A table \in Tables, loc \in Loc :
                            <<table, loc>> \in hist[c].writes =>
                                loc \in bytable[table][c].writes
    BY Zenon DEF RememberedWhileOverlapping
  <2> USE DEF IInv
  <2>1. ct[c].end \in Nat /\ t \in Nat
    BY ZenonT(60), StartsAreNumbers DEF TypeOK, CkTran
  <2>2. c \in cmtdTran
    BY <2>1 DEF Remembered
  <2>3. QED
    BY Zenon, <2>2 DEF Tracked
<1>2. QED
  BY <1>1, InvariantHolds, PTL

(* A write to a table commits before an exclusive period of the table      *)
(* begins or belongs to a transaction that started after it ended.         *)
THEOREM ExclusiveIsRespected == Spec => []ExclusiveRespected
<1>1. IInv => ExclusiveRespected
  BY Zenon DEF IInv
<1>2. QED
  BY <1>1, InvariantHolds, PTL

------------------------------------------------------------------------------
(* The history of a transaction that failed, or ended without updates, has *)
(* been dropped.                                                           *)
Forgets ==
    \A x \in Starts :
        ct[x].failed \/ (ct[x].end # MaxInt /\ ~ct[x].hasUpdates) => hist[x] = NoHistory

(* cts agrees with ct but for t, and but for conflicts and ages.           *)
SameOthers(cts, t) ==
    \A x \in Starts \ {t} :
        /\ cts[x].end = ct[x].end /\ cts[x].hasUpdates = ct[x].hasUpdates
        /\ cts[x].failed = ct[x].failed

(* Recording drops the history of what has failed.                         *)
LEMMA RecordForgets ==
    ASSUME NEW t, NEW read, NEW written, Record(t, read, written)
    PROVE  Forgets'
    BY Zenon DEF Record, Forgets

(* An action of t changes the history of no other transaction, except that *)
(* of the ones it aborts.                                                  *)
LEMMA AbortsKeepHistory ==
    ASSUME Forgets, NEW t, NEW read, NEW written, Record(t, read, written),
           NEW A, NEW cts, NEW acts, NEW excl, AbortAll(A, cts, acts, excl),
           SameOthers(cts, t), NEW c \in Starts, ~ct'[c].failed
    PROVE  /\ c # t => hist'[c] = hist[c]
           /\ c \notin A \cap actvTran
           /\ actvTran' = actvTran \ A
<1> DEFINE out == A \cap actvTran
<1>1. /\ ct' = [x \in Starts |-> IF x \in out THEN AbortedCkTran ELSE cts[x]]
      /\ actvTran' = actvTran \ out
    BY Zenon DEF AbortAll, CleanEnded
<1>2. c \notin out
  <2> SUFFICES ASSUME c \in out PROVE FALSE
    BY Zenon
  <2>1. ct'[c] = AbortedCkTran
    BY Zenon, <1>1
  <2> QED
    BY Zenon, <2>1 DEF AbortedCkTran, NewCkTran
<1>3. ASSUME c # t PROVE hist'[c] = hist[c]
  <2>1. ct'[c] = cts[c]
    BY Zenon, <1>1, <1>2
  <2>2. /\ ct'[c].end = ct[c].end /\ ct'[c].hasUpdates = ct[c].hasUpdates
        /\ ct'[c].failed = ct[c].failed
    BY Zenon, <1>3, <2>1 DEF SameOthers
  <2>3. hist'[c] = IF ct'[c].failed \/ (ct'[c].end # MaxInt /\ ~ct'[c].hasUpdates)
                   THEN NoHistory ELSE hist[c]
    BY Zenon, <1>3 DEF Record
  <2>4. ct[c].end # MaxInt /\ ~ct[c].hasUpdates => hist[c] = NoHistory
    BY Zenon DEF Forgets
  <2> QED
    BY Zenon, <2>2, <2>3, <2>4
<1> QED
    BY Zenon, <1>1, <1>2, <1>3

(* Marking a read conflict leaves the rest of a CkTran alone.              *)
LEMMA MarkingIsSame ==
    ASSUME ct \in [Starts -> CkTran], NEW cts \in [Starts -> CkTran], NEW S, NEW t,
           SameOthers(cts, t)
    PROVE  SameOthers(WithConflict(cts, S), t)
<1> SUFFICES ASSUME NEW x \in Starts \ {t}
             PROVE  /\ WithConflict(cts, S)[x].end = ct[x].end
                    /\ WithConflict(cts, S)[x].hasUpdates = ct[x].hasUpdates
                    /\ WithConflict(cts, S)[x].failed = ct[x].failed
    BY Zenon DEF SameOthers
<1>1. cts[x].end = ct[x].end /\ cts[x].hasUpdates = ct[x].hasUpdates
      /\ cts[x].failed = ct[x].failed
    BY Zenon DEF SameOthers
<1>2. cts[x] \in CkTran
    BY Zenon
<1>3. WithConflict(cts, S)[x] \in {cts[x], [cts[x] EXCEPT !.readConflict = TRUE]}
    BY Zenon DEF WithConflict
<1>4. LET m == [cts[x] EXCEPT !.readConflict = TRUE]
      IN  m.end = cts[x].end /\ m.hasUpdates = cts[x].hasUpdates /\ m.failed = cts[x].failed
    BY SMT, <1>2 DEF CkTran
<1> QED
    BY Zenon, <1>1, <1>3, <1>4

(* What ReadersAreNotVictims says of one step.                             *)
NoReaderIsVictim ==
    \A t, c \in Starts :
        /\ t # c /\ t \in actvTran /\ ~ct[t].hasUpdates
        /\ hist[c] # hist'[c] /\ ~ct'[c].failed
        => t \in actvTran'

(* A step of x that aborts only itself and transactions with updates.      *)
LEMMA OwnStep ==
    ASSUME Forgets, NEW x, NEW read, NEW written, Record(x, read, written),
           NEW A, NEW cts, NEW acts, NEW excl, AbortAll(A, cts, acts, excl),
           SameOthers(cts, x), \A t \in A : t = x \/ ct[t].hasUpdates
    PROVE  NoReaderIsVictim
<1> SUFFICES ASSUME NEW t \in Starts, NEW c \in Starts, t # c, t \in actvTran,
                    ~ct[t].hasUpdates, hist[c] # hist'[c], ~ct'[c].failed
             PROVE  t \in actvTran'
    BY Zenon DEF NoReaderIsVictim
<1>1. c = x /\ actvTran' = actvTran \ A
    BY Zenon, AbortsKeepHistory
<1> QED
    BY Zenon, <1>1

(* A step that belongs to no transaction changes no history but of what it *)
(* aborts.                                                                 *)
LEMMA NobodysStep ==
    ASSUME Forgets, ForgetAborted,
           NEW A, NEW cts, NEW acts, NEW excl, AbortAll(A, cts, acts, excl),
           SameOthers(cts, MaxInt)
    PROVE  NoReaderIsVictim
<1> SUFFICES ASSUME NEW t \in Starts, NEW c \in Starts, hist[c] # hist'[c], ~ct'[c].failed
             PROVE  FALSE
    BY Zenon DEF NoReaderIsVictim
<1>1. Record(MaxInt, {}, {})
    BY Zenon DEF ForgetAborted
<1>2. c = MaxInt
    BY Zenon, <1>1, AbortsKeepHistory
<1> QED
    BY Zenon, <1>2, StartsAreNumbers

(* No step of the checks that belongs to one transaction ends another that *)
(* has no updates.                                                         *)
LEMMA StepSparesReaders ==
    ASSUME TypeOK, Forgets, Next
    PROVE  NoReaderIsVictim /\ Forgets'
<1>t. ct \in [Starts -> CkTran]
    BY Zenon DEF TypeOK
<1>s. \A x : SameOthers(ct, x)
    BY Zenon DEF SameOthers
<1>w. \A S, x : SameOthers(WithConflict(ct, S), x)
    BY Zenon, <1>t, <1>s, MarkingIsSame
<1>1. ASSUME StartTran PROVE NoReaderIsVictim /\ Forgets'
  <2>1. hist' = hist /\ ct' = [ct EXCEPT ![next] = NewCkTran]
    BY Zenon, <1>1 DEF StartTran, history
  <2>2. \A x \in Starts : x # next => ct'[x] = ct[x]
    BY Zenon, <2>1, <1>t
  <2>3. next \in Starts => ct'[next] = NewCkTran
    BY Zenon, <2>1, <1>t
  <2>4. ~NewCkTran.failed /\ NewCkTran.end = MaxInt
    BY Zenon DEF NewCkTran
  <2>5. Forgets'
    BY Zenon, <2>1, <2>2, <2>3, <2>4 DEF Forgets
  <2> QED
    BY Zenon, <2>1, <2>5 DEF NoReaderIsVictim
<1>2. ASSUME NEW t \in Starts, NEW table \in Tables, NEW index \in Indexes,
             NEW from \in Keys, NEW to \in Keys, Read(t, table, index, from, to)
      PROVE  NoReaderIsVictim /\ Forgets'
  <2> DEFINE range == {index} \X {k \in Keys : from <= k /\ k <= to}
             C == {c \in Starts \ {t} : /\ Overlap(t, c)
                                        /\ bytable[table][c].writes \cap range # {}}
             saved == [bytable EXCEPT ![table][t].reads = @ \cup range]
  <2>1. Record(t, {table} \X range, {})
    BY Zenon, <1>2 DEF Read
  <2>2. CASE actvTran' = actvTran
    BY Zenon, <2>1, <2>2, RecordForgets DEF NoReaderIsVictim
  <2>3. ASSUME NEW tooMany \in BOOLEAN,
               AbortAll(IF tooMany THEN {t} ELSE {},
                        WithConflict(ct, IF C = {} THEN {} ELSE {t}), saved, exclusive)
        PROVE  NoReaderIsVictim
    <3> DEFINE A == IF tooMany THEN {t} ELSE {}
               cts == WithConflict(ct, IF C = {} THEN {} ELSE {t})
    <3>1. /\ \A y \in A : y = t \/ ct[y].hasUpdates
          /\ SameOthers(cts, t)
          /\ AbortAll(A, cts, saved, exclusive)
      BY Zenon, <2>3, <1>w
    <3> HIDE DEF range, C, saved, A, cts
    <3> QED
      BY Zenon, <2>1, <3>1, OwnStep
  <2>4. ASSUME NEW seen \in SUBSET C, NEW loses \in BOOLEAN, NEW tooMany \in BOOLEAN,
               AbortAll(Victims(seen) \cup (IF loses \/ tooMany THEN {t} ELSE {}),
                        WithConflict(ct, Marked(seen)), saved, exclusive)
        PROVE  NoReaderIsVictim
    <3> HIDE DEF range, C, saved
    <3>1. \A y \in Victims(seen) \cup (IF loses \/ tooMany THEN {t} ELSE {}) :
             y = t \/ ct[y].hasUpdates
      BY Zenon DEF Victims
    <3> QED
      BY Zenon, <2>1, <2>4, <3>1, <1>w, OwnStep
  <2> QED
    BY Zenon, <1>2, <2>1, <2>2, <2>3, <2>4, RecordForgets DEF Read
<1>3. ASSUME NEW t \in Starts, NEW table \in Tables, NEW written, Write(t, table, written)
      PROVE  NoReaderIsVictim /\ Forgets'
  <2> DEFINE C == {c \in Starts \ {t} : /\ Overlap(t, c) /\ ~Ended(c)
                                        /\ bytable[table][c].reads \cap written # {}}
             gotUpdate == [ct EXCEPT ![t].hasUpdates = TRUE]
             saved == [bytable EXCEPT ![table][t].writes = @ \cup written]
  <2>1. Record(t, {}, {table} \X written)
    BY Zenon, <1>3 DEF Write
  <2>2. ASSUME AbortAll({t}, ct, bytable, exclusive) PROVE NoReaderIsVictim
    <3> DEFINE A == {t}
    <3>1. /\ \A y \in A : y = t \/ ct[y].hasUpdates
          /\ SameOthers(ct, t)
          /\ AbortAll(A, ct, bytable, exclusive)
      BY Zenon, <2>2, <1>s
    <3> HIDE DEF A
    <3> QED
      BY Zenon, <2>1, <3>1, OwnStep
  <2>3. ASSUME NEW seen \in SUBSET C, NEW loses \in BOOLEAN, NEW tooMany \in BOOLEAN,
               AbortAll(Victims(seen) \cup (IF loses \/ tooMany THEN {t} ELSE {}),
                        WithConflict(gotUpdate, Marked(seen)), saved, exclusive)
        PROVE  NoReaderIsVictim
    <3>1. gotUpdate \in [Starts -> CkTran]
      BY Zenon, <1>t DEF CkTran
    <3>2. SameOthers(gotUpdate, t)
      BY Zenon, <1>t DEF SameOthers
    <3> HIDE DEF C, gotUpdate, saved
    <3>3. SameOthers(WithConflict(gotUpdate, Marked(seen)), t)
      BY Zenon, <1>t, <3>1, <3>2, MarkingIsSame
    <3>4. \A y \in Victims(seen) \cup (IF loses \/ tooMany THEN {t} ELSE {}) :
             y = t \/ ct[y].hasUpdates
      BY Zenon DEF Victims
    <3> QED
      BY Zenon, <2>1, <2>3, <3>3, <3>4, OwnStep
  <2> QED
    BY Zenon, <1>3, <2>1, <2>2, <2>3, RecordForgets DEF Write
<1>4. ASSUME NEW t \in Starts, Abort(t) PROVE NoReaderIsVictim /\ Forgets'
    BY Zenon, <1>4, <1>s, NobodysStep, RecordForgets DEF Abort, ForgetAborted
<1>5. ASSUME NEW t \in Starts, Commit(t) PROVE NoReaderIsVictim /\ Forgets'
  <2>1. Record(MaxInt, {}, {})
    BY Zenon, <1>5 DEF Commit, ForgetAborted
  <2>2. CASE AbortAll({t}, ct, bytable, exclusive)
    BY Zenon, <2>1, <2>2, <1>s, NobodysStep, RecordForgets DEF ForgetAborted
  <2>3. CASE actvTran' = actvTran \ {t} /\ ct' = [ct EXCEPT ![t].end = next]
    <3> SUFFICES ASSUME NEW c \in Starts, c # t, hist[c] # hist'[c], ~ct'[c].failed
                 PROVE  FALSE
      BY Zenon, <2>1, <2>3, RecordForgets DEF NoReaderIsVictim
    <3>1. ct'[c] = ct[c]
      BY Zenon, <2>3, <1>t
    <3>2. c # MaxInt
      BY Zenon, StartsAreNumbers
    <3> QED
      BY Zenon, <2>1, <3>1, <3>2 DEF Record, Forgets
  <2> QED
    BY Zenon, <1>5, <2>2, <2>3 DEF Commit, CleanEnded
<1>6. ASSUME NEW table \in Tables, AddExclusive(table) PROVE NoReaderIsVictim /\ Forgets'
    BY Zenon, <1>6, <1>s, NobodysStep, RecordForgets DEF AddExclusive, ForgetAborted
<1>7. ASSUME NEW table \in Tables, EndExclusive(table) PROVE NoReaderIsVictim /\ Forgets'
    BY Zenon, <1>7 DEF EndExclusive, CleanEnded, NoReaderIsVictim, Forgets
<1>8. ASSUME Tick PROVE NoReaderIsVictim /\ Forgets'
  <2>1. SameOthers(Older, MaxInt)
    <3> SUFFICES ASSUME NEW x \in Starts
                 PROVE  /\ Older[x].end = ct[x].end /\ Older[x].failed = ct[x].failed
                        /\ Older[x].hasUpdates = ct[x].hasUpdates
      BY Zenon DEF SameOthers
    <3>1. Older[x] \in {ct[x], [ct[x] EXCEPT !.age = @ + 1]}
      BY Zenon DEF Older
    <3>2. ct[x] \in CkTran
      BY Zenon, <1>t
    <3> QED
      BY SMT, <3>1, <3>2 DEF CkTran
  <2> QED
    BY Zenon, <1>8, <2>1, NobodysStep, RecordForgets DEF Tick, ForgetAborted
<1>9. ASSUME Corrupt PROVE NoReaderIsVictim /\ Forgets'
    BY Zenon, <1>9 DEF Corrupt, history, NoReaderIsVictim, Forgets
<1> QED
    BY Zenon, CheckAssumption, <1>1, <1>2, <1>3, <1>4, <1>5, <1>6, <1>7, <1>8, <1>9
    DEF Next, Output, Delete, Update

(* abort1of only marks a transaction that has made no updates: what one    *)
(* transaction does never aborts such another.                             *)
THEOREM ReadersAreSpared == Spec => ReadersAreNotVictims
<1>1. Init => Forgets
    BY Zenon DEF Init, Forgets
<1>2. TypeOK /\ Forgets /\ [Next]_vars => Forgets'
  <2>1. CASE Next
    BY Zenon, <2>1, StepSparesReaders
  <2>2. CASE UNCHANGED vars
    BY Zenon, <2>2 DEF vars, history, Forgets
  <2> QED
    BY Zenon, <2>1, <2>2
<1>3. TypeOK /\ Forgets /\ [Next]_vars => [NoReaderIsVictim]_vars
    BY Zenon, StepSparesReaders
<1> QED
    BY <1>1, <1>2, <1>3, TypeCorrect, PTL DEF Spec, ReadersAreNotVictims, NoReaderIsVictim
==============================================================================
