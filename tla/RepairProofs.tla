----------------------------- MODULE RepairProofs -----------------------------
(***************************************************************************)
(* The safety properties of Repair, for every number of tables, workers    *)
(* and states.  The workers of a check and the scanner run at any speed.   *)
(***************************************************************************)
EXTENDS Repair, TLAPS

ScannerStates == {"scan", "signal", "last signal", "ended"}
SearchStates == {"get", "blocking", "waiting", "probe", "probing", "bisect",
                 "bisecting", "done", "panic"}
SenderStates == {"none", "first", "send", "finish"}

(* The states of the file do not change, and n is how many there are. *)
Types ==
    /\ n \in Nat /\ states \in [0 .. (n - 1) -> DbStates]
    /\ found \in 0 .. n /\ done \in BOOLEAN /\ scanner \in ScannerStates
    /\ search \in SearchStates
    /\ i \in Int /\ skip \in Nat \ {0} /\ prev \in Nat /\ last \in BOOLEAN
    /\ lo \in 0 .. n /\ hi \in 0 .. n
    /\ ec \in Tables \cup {NoTable}
    /\ result \in {None} \cup 0 .. (n - 1)

PoolTypes ==
    /\ state \in [read : {TRUE}, tables : SUBSET Tables, bad : SUBSET Tables]
    /\ first \in Tables \cup {NoTable}
    /\ sender \in SenderStates
    /\ unsent \in SUBSET Tables
    /\ worker \in [Workers -> Tables \cup {"idle", "gone"}]
    /\ stop \in BOOLEAN
    /\ err \in Tables \cup {NoError}

(* Until there is an error no worker is gone and no damaged table has been *)
(* lost: it has not been sent, or a worker has it.                         *)
Pool ==
    /\ err = NoError =>
          /\ ~stop
          /\ \A t \in state.bad : \/ t \in unsent
                                  \/ \E w \in Workers : worker[w] = t
                                  \/ sender = "first" /\ first = t
    /\ sender = "first" => first \in Tables
    /\ sender = "finish" => stop \/ unsent = {}
    /\ sender = "none" => \A w \in Workers : worker[w] \notin Tables

(* Where search is, in terms of the states.  Until search has its answer   *)
(* done means that the scanner has found them all.                         *)
Places ==
    /\ search \in {"probe", "probing"} => i \in 0 .. (found - 1)
    /\ search \in {"get", "blocking", "waiting", "probe", "probing"} =>
          /\ (i = 0 /\ prev = 0) \/ (prev < i /\ prev < found)
          /\ done => found = n
          /\ last => found = n /\ i = n - 1 /\ search \in {"probe", "probing"}
    /\ search \in {"bisect", "bisecting"} => lo < hi - 1 /\ hi < found
    /\ search = "blocking" => found <= i

(* The state that is being checked, and those found to be good. *)
Checking ==
    /\ search \in {"probing", "bisecting"} => sender # "none" /\ state = states[At]
    /\ search \notin {"probing", "bisecting"} => sender = "none"
    /\ search \in {"bisect", "bisecting"} => IsGood(states[hi])
    /\ search = "done" /\ result # None => IsGood(states[result])

(* If every state has all the tables only damaged states are found bad. *)
SoundPool ==
    /\ sender # "none" => state.tables = Tables
    /\ err # NoError => err \in state.bad

SoundSearch ==
    /\ search \in {"get", "blocking", "waiting", "probe", "probing"} /\ i > 0
          => ~IsGood(states[prev])
    /\ search \in {"bisect", "bisecting"} => ~IsGood(states[lo])
    /\ search = "done" =>
          IF result = None THEN n > 0 /\ ~IsGood(states[n - 1])
          ELSE result > 0 => ~IsGood(states[result - 1])

(* fix has not touched the file before it is the backup. *)
Fixing ==
    /\ fix \in {"none", "copied", "removed"} => db = "damaged"
    /\ fix = "renamed" => bak = "damaged"
    /\ OriginalKept

IInv ==
    /\ Types /\ PoolTypes /\ Pool /\ Places /\ Checking /\ WaitsForMore /\ Fixing
    /\ ~Growing => SoundPool /\ SoundSearch
------------------------------------------------------------------------------
(* The file has n states, numbered from 0. *)
LEMMA CountOfStates ==
    ASSUME states \in UNION {[0 .. (k - 1) -> DbStates] : k \in 0 .. MaxStates}
    PROVE  n \in Nat /\ states \in [0 .. (n - 1) -> DbStates]
<1>1. PICK k \in 0 .. MaxStates : states \in [0 .. (k - 1) -> DbStates]
  OBVIOUS
<1>2. n \in 0 .. MaxStates /\ DOMAIN states = 0 .. (n - 1)
  BY <1>1, Zenon DEF n
<1>3. states \in [DOMAIN states -> DbStates]
  BY <1>1
<1>4. QED
  BY <1>2, <1>3, RepairAssumption

(* A state of the file, as a record. *)
LEMMA DbStateType ==
    ASSUME NEW s \in DbStates
    PROVE  /\ s.read \in BOOLEAN /\ s.tables \in SUBSET Tables /\ s.bad \subseteq s.tables
           /\ s = [read |-> s.read, tables |-> s.tables, bad |-> s.bad]
           /\ s.read /\ ~Growing => s.tables = Tables
  BY DEF DbStates

LEMMA InitInvariant ==
    ASSUME Init
    PROVE  IInv
<1> USE DEF Init, CheckInit
<1>1. n \in Nat /\ states \in [0 .. (n - 1) -> DbStates]
  BY CountOfStates
<1>2. ec \in Tables \cup {NoTable}
  BY <1>1, DbStateType
<1>3. Types
  <2>1. /\ found = 0 /\ done = FALSE /\ scanner = "scan" /\ search = "get"
        /\ i = 0 /\ skip = 1 /\ prev = 0 /\ last = FALSE /\ lo = 0 /\ hi = 0
        /\ result = None
    OBVIOUS
  <2> HIDE DEF Init
  <2>2. found \in 0 .. n /\ lo \in 0 .. n /\ hi \in 0 .. n
    BY <1>1, <2>1
  <2>3. skip \in Nat \ {0} /\ i \in Int /\ prev \in Nat
    BY <2>1
  <2>4. done \in BOOLEAN /\ last \in BOOLEAN /\ scanner \in ScannerStates /\ search \in SearchStates
    BY <2>1 DEF ScannerStates, SearchStates
  <2>5. QED
    BY <1>1, <1>2, <2>1, <2>2, <2>3, <2>4 DEF Types
<1>4. PoolTypes
  BY DEF PoolTypes, SenderStates
<1>5. Pool /\ Places /\ WaitsForMore /\ Fixing
  BY <1>1, TablesAssumption DEF Pool, Places, WaitsForMore, Fixing, OriginalKept
<1>6. Checking /\ SoundPool /\ SoundSearch
  BY DEF Checking, SoundPool, SoundSearch
<1>7. QED
  BY <1>3, <1>4, <1>5, <1>6 DEF IInv

(* What a step leaves alone that changes neither the pool nor fix. *)
LEMMA PoolUnchanged ==
    ASSUME IInv, UNCHANGED <<checkVars, fixVars>>
    PROVE  PoolTypes' /\ Pool' /\ Fixing' /\ (~Growing => SoundPool')
  BY DEF IInv, checkVars, fixVars, PoolTypes, Pool, Fixing, OriginalKept, SoundPool

(* The scanner: search is woken up, or goes on. *)
LEMMA ScanInvariant ==
    ASSUME IInv, ScanAppend \/ ScanStop \/ ScanSignal,
           UNCHANGED <<checkVars, searchVars, fixVars>>
    PROVE  IInv'
<1>1. Types /\ Places /\ Checking /\ WaitsForMore
  BY DEF IInv
<1>0. ~Growing => SoundSearch
  BY DEF IInv
<1>2. states' = states /\ n' = n
  BY DEF n, ScanAppend, ScanStop, ScanSignal
<1>3. /\ i' = i /\ skip' = skip /\ prev' = prev /\ last' = last /\ lo' = lo
      /\ hi' = hi /\ ec' = ec /\ result' = result /\ sender' = sender
      /\ state' = state
  BY DEF searchVars, checkVars
<1>4. /\ n \in Nat /\ DOMAIN states = 0 .. (n - 1) /\ found \in 0 .. n /\ i \in Int
  BY <1>1 DEF Types
<1>5. PoolTypes' /\ Pool' /\ Fixing' /\ (~Growing => SoundPool')
  BY PoolUnchanged
<1>6. SUFFICES Types' /\ Places' /\ WaitsForMore' /\ Checking' /\ (~Growing => SoundSearch')
  BY <1>5 DEF IInv
<1>7. CASE ScanAppend
  <2>1. /\ found \in 0 .. (n - 1) /\ found' = found + 1 /\ done' = done
        /\ scanner' = "signal" /\ search' = search /\ search # "blocking"
    BY <1>4, <1>7 DEF ScanAppend, MoreStates
  <2>2. Types'
    <3>1. found' \in 0 .. n /\ scanner' \in ScannerStates
      BY <1>4, <2>1 DEF ScannerStates
    <3>2. QED
      BY <1>1, <1>2, <1>3, <2>1, <3>1 DEF Types
  <2>3. Places'
    BY <1>1, <1>2, <1>3, <1>4, <2>1 DEF Types, Places
  <2>4. WaitsForMore' /\ Checking' /\ (~Growing => SoundSearch')
    BY <1>0, <1>1, <1>2, <1>3, <2>1 DEF WaitsForMore, Checking, SoundSearch, At, mid
  <2>5. QED
    BY <2>2, <2>3, <2>4
<1>8. CASE ScanStop
  <2>1. /\ scanner = "scan" /\ found' = found /\ done' = TRUE
        /\ scanner' = "last signal" /\ search' = search
    BY <1>8 DEF ScanStop
  <2>2. Types'
    BY <1>1, <1>2, <1>3, <2>1 DEF Types, ScannerStates
  <2>3. done \/ found \notin 0 .. (n - 1)
    BY <1>4, <1>8 DEF ScanStop, MoreStates
  <2>4. found \notin 0 .. (n - 1) => found = n
    BY <1>4
  <2>5. Places'
    BY <1>1, <1>2, <1>3, <2>1, <2>3, <2>4 DEF Places
  <2>6. WaitsForMore' /\ Checking' /\ (~Growing => SoundSearch')
    BY <1>0, <1>1, <1>2, <1>3, <2>1 DEF WaitsForMore, Checking, SoundSearch, At, mid
  <2>7. QED
    BY <2>2, <2>5, <2>6
<1>9. CASE ScanSignal
  <2>1. /\ scanner \in {"signal", "last signal"} /\ found' = found /\ done' = done
        /\ scanner' \in {"scan", "ended"}
        /\ search' = IF search = "waiting" THEN "get" ELSE search
    BY <1>9 DEF ScanSignal
  <2>2. Types'
    BY <1>1, <1>2, <1>3, <2>1 DEF Types, ScannerStates, SearchStates
  <2>3. Places'
    BY <1>1, <1>2, <1>3, <2>1 DEF Places
  <2>4. WaitsForMore' /\ Checking' /\ (~Growing => SoundSearch')
    BY <1>0, <1>1, <1>2, <1>3, <2>1 DEF WaitsForMore, Checking, SoundSearch, At, mid
  <2>5. QED
    BY <2>2, <2>3, <2>4
<1>10. QED
  BY <1>7, <1>8, <1>9

(* getUpTo *)
LEMMA GetInvariant ==
    ASSUME IInv, GetUpTo \/ GetBlocks \/ GetWaits \/ GetDone,
           UNCHANGED <<checkVars, scanVars, fixVars>>
    PROVE  IInv'
<1>1. Types /\ Places /\ Checking /\ WaitsForMore
  BY DEF IInv
<1>0. ~Growing => SoundSearch
  BY DEF IInv
<1>2. states' = states /\ n' = n /\ found' = found /\ scanner' = scanner
  BY DEF n, scanVars
<1>3. sender' = sender /\ state' = state
  BY DEF checkVars
<1>4. /\ n \in Nat /\ found \in 0 .. n /\ i \in Int /\ prev \in Nat
  BY <1>1 DEF Types
<1>5. PoolTypes' /\ Pool' /\ Fixing' /\ (~Growing => SoundPool')
  BY PoolUnchanged
<1>6. SUFFICES Types' /\ Places' /\ WaitsForMore' /\ Checking' /\ (~Growing => SoundSearch')
  BY <1>5 DEF IInv
<1>7. CASE GetUpTo \/ GetBlocks \/ GetWaits
  <2>1. /\ done' = done /\ i' = i /\ skip' = skip /\ prev' = prev /\ last' = last
        /\ lo' = lo /\ hi' = hi /\ ec' = ec /\ result' = result
        /\ \/ search = "get" /\ i < found /\ search' = "probe"
           \/ search = "get" /\ found <= i /\ search' = "blocking"
           \/ search = "blocking" /\ search' = "waiting"
    BY <1>7 DEF GetUpTo, GetBlocks, GetWaits, searchVars
  <2>2. Types'
    BY <1>1, <1>2, <2>1 DEF Types, SearchStates
  <2>3. Places'
    BY <1>1, <1>2, <1>4, <2>1 DEF Places
  <2>4. WaitsForMore'
    <3>1. search' = "waiting" => found <= i
      BY <1>1, <2>1 DEF Places
    <3>2. found <= i => ~(i' < found')
      BY <1>2, <1>4, <2>1
    <3>3. QED
      BY <3>1, <3>2 DEF WaitsForMore
  <2>5. Checking' /\ (~Growing => SoundSearch')
    BY <1>0, <1>1, <1>2, <1>3, <2>1 DEF Checking, SoundSearch
  <2>6. QED
    BY <2>2, <2>3, <2>4, <2>5
<1>8. CASE GetDone
  <2>1. /\ search = "get" /\ found <= i /\ done /\ skip' = skip /\ prev' = prev
        /\ lo' = lo /\ hi' = hi /\ ec' = ec
    BY <1>8 DEF GetDone
  <2>2. found = n /\ ((prev < found /\ i > 0) \/ (i = 0 /\ n = 0))
    <3>1. ((i = 0 /\ prev = 0) \/ (prev < i /\ prev < found)) /\ found = n
      BY <1>1, <2>1 DEF Places
    <3>2. QED
      BY <1>4, <2>1, <3>1
  <2>3. CASE found - 1 = prev
    <3>1. /\ search' = "done" /\ result' = None /\ done' = TRUE /\ i' = i /\ last' = last
      BY <1>8, <2>3 DEF GetDone, Return
    <3>2. Types'
      BY <1>1, <1>2, <2>1, <3>1 DEF Types, SearchStates
    <3>3. Places' /\ WaitsForMore' /\ Checking'
      BY <1>1, <1>2, <1>3, <2>1, <3>1 DEF Places, WaitsForMore, Checking
    <3>4. ~Growing => SoundSearch'
      BY <1>0, <1>1, <1>2, <1>4, <2>1, <2>2, <2>3, <3>1 DEF SoundSearch
    <3>5. QED
      BY <3>2, <3>3, <3>4
  <2>4. CASE found - 1 # prev
    <3>1. /\ search' = IF found = 0 THEN "panic" ELSE "probe"
          /\ i' = found - 1 /\ last' = TRUE /\ done' = done /\ result' = result
      BY <1>8, <2>4 DEF GetDone
    <3>2. Types'
      BY <1>1, <1>2, <2>1, <3>1 DEF Types, SearchStates
    <3>3. Places'
      BY <1>2, <1>4, <2>1, <2>2, <2>4, <3>1 DEF Places
    <3>4. WaitsForMore' /\ Checking'
      BY <1>1, <1>2, <1>3, <2>1, <3>1 DEF WaitsForMore, Checking
    <3>5. ~Growing => SoundSearch'
      BY <1>0, <1>1, <1>2, <1>4, <2>1, <2>2, <2>4, <3>1 DEF SoundSearch
    <3>6. QED
      BY <3>2, <3>3, <3>4, <3>5
  <2>5. QED
    BY <2>3, <2>4
<1>9. QED
  BY <1>7, <1>8

(* The state in the middle lies between the bad one and the good one. *)
LEMMA MidBetween ==
    ASSUME Types, lo < hi - 1
    PROVE  mid \in Int /\ lo < mid /\ mid < hi
<1>1. lo \in Int /\ hi \in Int
  BY DEF Types
<1>2. QED
  BY <1>1 DEF mid

(* The state that is checked is one of the file, and older than the one    *)
(* known to be bad.                                                        *)
LEMMA AtIsFound ==
    ASSUME IInv, search \in {"probe", "probing", "bisect", "bisecting"}
    PROVE  At \in 0 .. (found - 1) /\ states[At] \in DbStates
<1>1. Types /\ Places
  BY DEF IInv
<1>2. CASE search \in {"probe", "probing"}
  BY <1>1, <1>2 DEF Types, Places, At
<1>3. CASE search \in {"bisect", "bisecting"}
  <2>1. At = mid /\ lo < hi - 1 /\ hi < found
    BY <1>1, <1>3 DEF Places, At
  <2>2. QED
    BY <1>1, <2>1, MidBetween DEF Types
<1>4. QED
  BY <1>2, <1>3

(* The next state that is tried, or the result, of a step of the bisection *)
LEMMA BisectKeeps ==
    ASSUME IInv, NEW l \in Nat, NEW h \in 0 .. (found - 1), Bisect(l, h),
           IsGood(states[h]), l < h \/ (l = 0 /\ h = 0),
           ~Growing /\ l < h => ~IsGood(states[l]),
           UNCHANGED <<scanVars, i, skip, prev, last>>,
           ec' \in Tables \cup {NoTable}, done' \in BOOLEAN, sender' = "none"
    PROVE  Types' /\ Places' /\ WaitsForMore' /\ Checking' /\ (~Growing => SoundSearch')
<1>1. Types
  BY DEF IInv
<1>2. /\ states' = states /\ n' = n /\ found' = found /\ scanner' = scanner
      /\ i' = i /\ skip' = skip /\ prev' = prev /\ last' = last
  BY DEF scanVars, n
<1>3. n \in Nat /\ found \in 0 .. n
  BY <1>1 DEF Types
<1>4. lo' = l /\ hi' = h
  BY DEF Bisect
<1>5. l \in 0 .. n /\ h \in 0 .. n /\ h \in 0 .. (n - 1)
  BY <1>3
<1>6. CASE l < h - 1
  <2>1. search' = "bisect" /\ result' = result
    BY <1>6 DEF Bisect, MoreToBisect
  <2>2. Types'
    BY <1>1, <1>2, <1>4, <1>5, <2>1 DEF Types, SearchStates
  <2>3. Places' /\ WaitsForMore' /\ Checking'
    BY <1>2, <1>3, <1>4, <1>6, <2>1 DEF Places, WaitsForMore, Checking
  <2>4. ~Growing => SoundSearch'
    BY <1>2, <1>3, <1>4, <1>6, <2>1 DEF SoundSearch
  <2>5. QED
    BY <2>2, <2>3, <2>4
<1>7. CASE ~(l < h - 1)
  <2>1. search' = "done" /\ result' = h
    BY <1>7 DEF Bisect, MoreToBisect
  <2>2. Types'
    BY <1>1, <1>2, <1>4, <1>5, <2>1 DEF Types, SearchStates
  <2>3. Places' /\ WaitsForMore' /\ Checking'
    BY <1>2, <2>1 DEF Places, WaitsForMore, Checking
  <2>4. h > 0 => l < h /\ l = h - 1
    BY <1>3, <1>7
  <2>5. h # None
    BY <1>3 DEF None
  <2>6. ~Growing => SoundSearch'
    BY <1>2, <2>1, <2>4, <2>5 DEF SoundSearch
  <2>7. QED
    BY <2>2, <2>3, <2>6
<1>8. QED
  BY <1>6, <1>7

(* check has found a good state. *)
LEMMA GoodKeeps ==
    ASSUME IInv, search \in {"probing", "bisecting"}, Good, IsGood(states[At]),
           UNCHANGED scanVars, sender' = "none"
    PROVE  Types' /\ Places' /\ WaitsForMore' /\ Checking' /\ (~Growing => SoundSearch')
<1>1. Types /\ Places
  BY DEF IInv
<1>2. ~Growing => SoundSearch
  BY DEF IInv
<1>3. /\ done' \in BOOLEAN /\ UNCHANGED <<scanVars, i, skip, prev, last>>
      /\ ec' \in Tables \cup {NoTable}
  BY <1>1 DEF Good, Types
<1>4. At \in 0 .. (found - 1)
  BY AtIsFound
<1>5. CASE search = "probing"
  <2>1. At = i /\ Bisect(prev, i) /\ prev \in Nat
    BY <1>1, <1>5 DEF At, Good, Types
  <2>2. (prev < i) \/ (prev = 0 /\ i = 0)
    BY <1>1, <1>5 DEF Places
  <2>3. ~Growing /\ prev < i => ~IsGood(states[prev])
    BY <1>2, <1>4, <1>5, <2>1 DEF SoundSearch
  <2>4. QED
    BY <1>3, <1>4, <2>1, <2>2, <2>3, BisectKeeps
<1>6. CASE search = "bisecting"
  <2>1. At = mid /\ Bisect(lo, mid) /\ lo \in Nat
    BY <1>1, <1>6 DEF At, Good, Types
  <2>2. lo < mid
    BY <1>1, <1>6, MidBetween DEF Places
  <2>3. ~Growing /\ lo < mid => ~IsGood(states[lo])
    BY <1>2, <1>6 DEF SoundSearch
  <2>4. QED
    BY <1>3, <1>4, <2>1, <2>2, <2>3, BisectKeeps
<1>7. QED
  BY <1>5, <1>6

(* check has found a bad state. *)
LEMMA BadKeeps ==
    ASSUME IInv, search \in {"probe", "probing", "bisect", "bisecting"}, Bad,
           ~Growing => ~IsGood(states[At]), ec' \in Tables \cup {NoTable},
           UNCHANGED scanVars, sender' = "none"
    PROVE  Types' /\ Places' /\ WaitsForMore' /\ Checking' /\ (~Growing => SoundSearch')
<1>1. Types /\ Places /\ Checking
  BY DEF IInv
<1>2. states' = states /\ n' = n /\ found' = found /\ scanner' = scanner
  BY DEF scanVars, n
<1>3. At \in 0 .. (found - 1) /\ n \in Nat /\ found \in 0 .. n /\ i \in Int /\ skip \in Nat \ {0}
  BY <1>1, AtIsFound DEF Types
<1>4. CASE search \in {"probe", "probing"}
  <2>1. At = i
    BY <1>4 DEF At
  <2>2. CASE last
    <3>1. /\ search' = "done" /\ result' = None /\ done' = TRUE /\ i' = i /\ skip' = skip
          /\ prev' = prev /\ last' = last /\ lo' = lo /\ hi' = hi
      BY <1>4, <2>2 DEF Bad, Return
    <3>2. Types'
      BY <1>1, <1>2, <3>1 DEF Types, SearchStates
    <3>3. Places' /\ WaitsForMore' /\ Checking'
      BY <1>2, <3>1 DEF Places, WaitsForMore, Checking
    <3>4. i = n - 1 /\ n > 0
      BY <1>1, <1>3, <1>4, <2>1, <2>2 DEF Places
    <3>5. ~Growing => SoundSearch'
      BY <1>2, <2>1, <3>1, <3>4 DEF SoundSearch
    <3>6. QED
      BY <3>2, <3>3, <3>5
  <2>3. CASE ~last
    <3>1. /\ search' = "get" /\ prev' = i /\ i' = i + skip /\ skip' = 2 * skip
          /\ done' = done /\ last' = last /\ lo' = lo /\ hi' = hi /\ result' = result
      BY <1>4, <2>3 DEF Bad
    <3>2. i' \in Int /\ skip' \in Nat \ {0} /\ prev' \in Nat /\ prev' < i' /\ prev' < found
      BY <1>3, <2>1, <3>1
    <3>3. Types'
      BY <1>1, <1>2, <3>1, <3>2 DEF Types, SearchStates
    <3>4. Places'
      BY <1>1, <1>2, <1>4, <2>3, <3>1, <3>2 DEF Places
    <3>5. WaitsForMore' /\ Checking'
      BY <1>2, <3>1 DEF WaitsForMore, Checking
    <3>6. ~Growing => SoundSearch'
      BY <1>2, <2>1, <3>1 DEF SoundSearch
    <3>7. QED
      BY <3>3, <3>4, <3>5, <3>6
  <2>4. QED
    BY <2>2, <2>3
<1>5. CASE search \in {"bisect", "bisecting"}
  <2>1. At = mid /\ mid \in Nat /\ mid < hi /\ hi \in 0 .. (found - 1) /\ IsGood(states[hi])
    <3>1. At = mid /\ lo < hi - 1 /\ hi < found /\ IsGood(states[hi])
      BY <1>1, <1>5 DEF At, Places, Checking
    <3>2. mid \in Nat /\ mid < hi
      BY <1>1, <1>3, <3>1, MidBetween
    <3>3. QED
      BY <1>1, <3>1, <3>2 DEF Types
  <2>2. Bisect(mid, hi) /\ done' = done /\ UNCHANGED <<i, skip, prev, last>>
    BY <1>5 DEF Bad
  <2>3. done' \in BOOLEAN
    BY <1>1, <2>2 DEF Types
  <2>4. QED
    BY <2>1, <2>2, <2>3, BisectKeeps
<1>6. QED
  BY <1>4, <1>5

(* A check that ends without an error has checked every damaged table. *)
LEMMA NoErrorIsGood ==
    ASSUME IInv, Finished, err = NoError
    PROVE  IsGood(state)
<1>1. Pool /\ PoolTypes
  BY DEF IInv
<1>2. unsent = {} /\ sender # "first"
  BY <1>1 DEF Pool, Finished
<1>3. ASSUME NEW t \in state.bad PROVE FALSE
  <2>1. \E w \in Workers : worker[w] = t
    BY <1>1, <1>2 DEF Pool
  <2>2. t \in Tables
    BY <1>1 DEF PoolTypes
  <2>3. QED
    BY <2>1, <2>2 DEF Finished
<1>4. QED
  BY <1>1, <1>3 DEF IsGood, PoolTypes

(* If every state has all the tables an error is about a damaged one. *)
LEMMA ErrorIsBad ==
    ASSUME IInv, err # NoError, ~Growing
    PROVE  ~IsGood(state)
  BY DEF IInv, SoundPool, IsGood

(* check, of a state that cannot be read *)
LEMMA CheckUnreadInvariant ==
    ASSUME IInv, CheckUnread, UNCHANGED <<scanVars, fixVars>>
    PROVE  IInv'
<1>1. /\ search \in {"probe", "bisect"} /\ ~states[At].read /\ Bad /\ ec' = NoTable
      /\ UNCHANGED checkVars
  BY DEF CheckUnread
<1>2. PoolTypes' /\ Pool' /\ Fixing' /\ (~Growing => SoundPool')
  BY <1>1, PoolUnchanged
<1>3. sender' = "none"
  BY <1>1 DEF IInv, Checking, checkVars
<1>4. ~IsGood(states[At])
  BY <1>1 DEF IsGood
<1>5. Types' /\ Places' /\ WaitsForMore' /\ Checking' /\ (~Growing => SoundSearch')
  BY <1>1, <1>3, <1>4, BadKeeps
<1>6. QED
  BY <1>2, <1>5 DEF IInv

(* check calls checkState: no table is left out. *)
LEMMA CheckCallInvariant ==
    ASSUME IInv, Check, UNCHANGED <<scanVars, fixVars>>
    PROVE  IInv'
<1>1. /\ search \in {"probe", "bisect"} /\ states[At].read
      /\ checkState(states[At], ec)
      /\ search' = IF search = "probe" THEN "probing" ELSE "bisecting"
      /\ done' = done /\ i' = i /\ skip' = skip /\ prev' = prev /\ last' = last
      /\ lo' = lo /\ hi' = hi /\ ec' = ec /\ result' = result
  BY DEF Check, searchVars
<1>2. states' = states /\ n' = n /\ found' = found /\ scanner' = scanner
  BY DEF scanVars, n
<1>3. Types /\ Places /\ Checking /\ WaitsForMore /\ Fixing
  BY DEF IInv
<1>4. ~Growing => SoundSearch
  BY DEF IInv
<1>5. At' = At
  BY <1>1 DEF At, mid
<1>6. states[At] \in DbStates
  BY <1>1, AtIsFound
<1>7. /\ state' = states[At] /\ first' = ec /\ stop' = FALSE /\ err' = NoError
      /\ sender' = IF ec = NoTable THEN "send" ELSE "first"
      /\ unsent' = states[At].tables \ {ec}
      /\ worker' = [w \in Workers |-> "idle"]
  BY <1>1 DEF checkState
<1>8. ec \in Tables \cup {NoTable}
  BY <1>3 DEF Types
<1>9. /\ states[At].read = TRUE /\ states[At].tables \in SUBSET Tables
      /\ states[At].bad \subseteq states[At].tables
      /\ states[At] = [read |-> states[At].read, tables |-> states[At].tables,
                       bad |-> states[At].bad]
      /\ ~Growing => states[At].tables = Tables
  BY <1>1, <1>6, DbStateType
<1>10. PoolTypes'
  BY <1>7, <1>8, <1>9 DEF PoolTypes, SenderStates
<1>11. Pool'
  BY <1>7, <1>8, <1>9, TablesAssumption DEF Pool
<1>12. Types' /\ Places' /\ WaitsForMore'
  BY <1>1, <1>2, <1>3 DEF Types, SearchStates, Places, WaitsForMore
<1>13. Checking'
  BY <1>1, <1>2, <1>3, <1>5, <1>7 DEF Checking
<1>14. ~Growing => SoundPool' /\ SoundSearch'
  BY <1>1, <1>2, <1>4, <1>7, <1>9 DEF SoundPool, SoundSearch
<1>15. Fixing'
  BY <1>3 DEF Fixing, OriginalKept, fixVars
<1>16. QED
  BY <1>10, <1>11, <1>12, <1>13, <1>14, <1>15 DEF IInv

(* checkState returns. *)
LEMMA CheckedInvariant ==
    ASSUME IInv, Checked, UNCHANGED <<scanVars, fixVars>>
    PROVE  IInv'
<1>1. /\ search \in {"probing", "bisecting"} /\ Finished /\ sender' = "none"
      /\ UNCHANGED <<state, first, unsent, worker, stop, err>>
      /\ IF err = NoError THEN Good ELSE Bad /\ ec' = err
  BY DEF Checked, finish
<1>2. PoolTypes /\ Pool /\ Checking /\ Fixing
  BY DEF IInv
<1>3. ~Growing => SoundPool
  BY DEF IInv
<1>4. state = states[At] /\ sender = "finish"
  BY <1>1, <1>2 DEF Checking, Finished
<1>5. PoolTypes'
  BY <1>1, <1>2 DEF PoolTypes, SenderStates
<1>6. Pool'
  BY <1>1, <1>2, <1>4 DEF Pool, Finished
<1>7. Fixing' /\ (~Growing => SoundPool')
  BY <1>1, <1>2, <1>3 DEF Fixing, OriginalKept, fixVars, SoundPool
<1>8. Types' /\ Places' /\ WaitsForMore' /\ Checking' /\ (~Growing => SoundSearch')
  <2>1. CASE err = NoError
    BY <1>1, <1>4, <2>1, NoErrorIsGood, GoodKeeps
  <2>2. CASE err # NoError
    <3>1. Bad /\ ec' \in Tables \cup {NoTable}
      BY <1>1, <1>2, <2>2 DEF PoolTypes
    <3>2. ~Growing => ~IsGood(states[At])
      BY <1>4, <2>2, ErrorIsBad
    <3>3. QED
      BY <1>1, <3>1, <3>2, BadKeeps
  <2>3. QED
    BY <2>1, <2>2
<1>9. QED
  BY <1>5, <1>6, <1>7, <1>8 DEF IInv

(* The pool: a damaged table is handed on, never dropped, until one is     *)
(* reported.                                                               *)
LEMMA PoolInvariant ==
    ASSUME IInv, CheckStep,
           UNCHANGED <<scanVars, done, search, searchVars, fixVars>>
    PROVE  IInv'
<1>1. PoolTypes /\ Pool /\ Types /\ Places /\ Checking /\ WaitsForMore /\ Fixing
  BY DEF IInv
<1>2. ~Growing => SoundPool /\ SoundSearch
  BY DEF IInv
<1>3. /\ states' = states /\ n' = n /\ found' = found /\ scanner' = scanner
      /\ done' = done /\ search' = search
      /\ i' = i /\ skip' = skip /\ prev' = prev /\ last' = last
      /\ lo' = lo /\ hi' = hi /\ ec' = ec /\ result' = result
  BY DEF scanVars, searchVars, n
<1>4. Types' /\ Places' /\ WaitsForMore' /\ Fixing' /\ (~Growing => SoundSearch')
  <2>1. Types'
    BY <1>1, <1>3 DEF Types
  <2>2. Places'
    BY <1>1, <1>3 DEF Places
  <2>3. WaitsForMore'
    BY <1>1, <1>3 DEF WaitsForMore
  <2>4. Fixing'
    BY <1>1 DEF Fixing, OriginalKept, fixVars
  <2>5. ~Growing => SoundSearch'
    BY <1>2, <1>3 DEF SoundSearch
  <2>6. QED
    BY <2>1, <2>2, <2>3, <2>4, <2>5
<1>5. /\ state' = state /\ first' = first
      /\ sender # "none" => sender' # "none"
      /\ sender = "none" => sender' = "none"
  BY DEF CheckStep, SendFirst, Send, CloseWork, WorkerDone, WorkerError
<1>6. Checking'
  BY <1>1, <1>3, <1>5 DEF Checking, At, mid
<1>7. SUFFICES PoolTypes' /\ Pool' /\ (~Growing => SoundPool')
  BY <1>4, <1>6 DEF IInv
<1>8. ASSUME NEW w \in Workers, SendFirst(w)
      PROVE  PoolTypes' /\ Pool' /\ (~Growing => SoundPool')
  <2>1. /\ sender = "first" /\ worker[w] = "idle" /\ sender' = "send"
        /\ worker' = [worker EXCEPT ![w] = first]
        /\ unsent' = unsent /\ stop' = stop /\ err' = err
    BY <1>8 DEF SendFirst
  <2>2. first \in Tables
    BY <1>1, <2>1 DEF Pool
  <2>3. PoolTypes'
    BY <1>1, <1>5, <2>1, <2>2 DEF PoolTypes, SenderStates
  <2>4. \A t \in state.bad : (\E v \in Workers : worker[v] = t)
                                => \E v \in Workers : worker'[v] = t
    BY <1>1, <2>1, TablesAssumption DEF PoolTypes
  <2>5. worker'[w] = first
    BY <1>1, <2>1 DEF PoolTypes
  <2>6. Pool'
    BY <1>1, <1>5, <2>1, <2>4, <2>5 DEF Pool
  <2>7. QED
    BY <1>2, <1>5, <2>1, <2>3, <2>6 DEF SoundPool
<1>9. ASSUME NEW w \in Workers, NEW table \in Tables, Send(w, table)
      PROVE  PoolTypes' /\ Pool' /\ (~Growing => SoundPool')
  <2>1. /\ sender = "send" /\ worker[w] = "idle" /\ sender' = "send"
        /\ worker' = [worker EXCEPT ![w] = table]
        /\ unsent' = unsent \ {table} /\ stop' = stop /\ err' = err
    BY <1>9 DEF Send
  <2>2. PoolTypes'
    BY <1>1, <1>5, <2>1 DEF PoolTypes, SenderStates
  <2>3. \A t \in state.bad : (\E v \in Workers : worker[v] = t)
                                => \E v \in Workers : worker'[v] = t
    BY <1>1, <2>1, TablesAssumption DEF PoolTypes
  <2>4. worker'[w] = table
    BY <1>1, <2>1 DEF PoolTypes
  <2>5. Pool'
    BY <1>1, <1>5, <2>1, <2>3, <2>4 DEF Pool
  <2>6. QED
    BY <1>2, <1>5, <2>1, <2>2, <2>5 DEF SoundPool
<1>10. ASSUME NEW w \in Workers, WorkerDone(w)
       PROVE  PoolTypes' /\ Pool' /\ (~Growing => SoundPool')
  <2>1. /\ worker[w] \in Tables /\ (~Damaged(worker[w]) \/ err # NoError)
        /\ worker' = [worker EXCEPT ![w] = "idle"]
        /\ sender' = sender /\ unsent' = unsent /\ stop' = stop /\ err' = err
    BY <1>10 DEF WorkerDone
  <2>2. PoolTypes'
    BY <1>1, <1>5, <2>1 DEF PoolTypes
  <2>3. err = NoError => \A t \in state.bad : (\E v \in Workers : worker[v] = t)
                                => \E v \in Workers : worker'[v] = t
    BY <1>1, <2>1 DEF PoolTypes, Damaged
  <2>4. Pool'
    BY <1>1, <1>5, <2>1, <2>3 DEF Pool
  <2>5. QED
    BY <1>2, <1>5, <2>1, <2>2, <2>4 DEF SoundPool
<1>11. ASSUME NEW w \in Workers, WorkerError(w)
       PROVE  PoolTypes' /\ Pool' /\ (~Growing => SoundPool')
  <2>1. /\ worker[w] \in Tables /\ Damaged(worker[w])
        /\ err' = (IF err = NoError THEN worker[w] ELSE err) /\ stop' = TRUE
        /\ worker' = [worker EXCEPT ![w] = "gone"]
        /\ sender' = sender /\ unsent' = unsent
    BY <1>11 DEF WorkerError, error
  <2>2. PoolTypes'
    BY <1>1, <1>5, <2>1 DEF PoolTypes
  <2>3. err' # NoError
    BY <2>1, TablesAssumption
  <2>4. Pool'
    BY <1>1, <1>5, <2>1, <2>3 DEF Pool
  <2>5. ~Growing => SoundPool'
    <3>1. sender # "none"
      BY <1>1, <2>1 DEF Pool
    <3>2. QED
      BY <1>2, <1>5, <2>1, <3>1 DEF SoundPool, Damaged
  <2>6. QED
    BY <2>2, <2>4, <2>5
<1>12. ASSUME CloseWork
       PROVE  PoolTypes' /\ Pool' /\ (~Growing => SoundPool')
  <2>1. /\ sender = "send" /\ (stop \/ unsent = {}) /\ sender' = "finish"
        /\ worker' = worker /\ unsent' = unsent /\ stop' = stop /\ err' = err
    BY <1>12 DEF CloseWork
  <2>2. PoolTypes' /\ Pool'
    BY <1>1, <1>5, <2>1 DEF PoolTypes, SenderStates, Pool
  <2>3. QED
    BY <1>2, <1>5, <2>1, <2>2 DEF SoundPool
<1>13. QED
  BY <1>8, <1>9, <1>10, <1>11, <1>12 DEF CheckStep

(* fix *)
LEMMA FixInvariant ==
    ASSUME IInv, FixHead \/ CopySize \/ RenameBak,
           UNCHANGED <<checkVars, scanVars, done, search, searchVars>>
    PROVE  IInv'
<1>1. PoolTypes /\ Pool /\ Types /\ Places /\ Checking /\ WaitsForMore /\ Fixing
  BY DEF IInv
<1>2. ~Growing => SoundPool /\ SoundSearch
  BY DEF IInv
<1>3. /\ states' = states /\ n' = n /\ found' = found /\ scanner' = scanner
      /\ done' = done /\ search' = search
      /\ i' = i /\ skip' = skip /\ prev' = prev /\ last' = last
      /\ lo' = lo /\ hi' = hi /\ ec' = ec /\ result' = result
  BY DEF scanVars, searchVars, n
<1>4. PoolTypes' /\ Pool'
  BY <1>1 DEF checkVars, PoolTypes, Pool
<1>5. Types'
  BY <1>1, <1>3 DEF Types
<1>6. Places' /\ WaitsForMore' /\ Checking'
  <2>1. Places'
    BY <1>1, <1>3 DEF Places
  <2>2. WaitsForMore'
    BY <1>1, <1>3 DEF WaitsForMore
  <2>3. Checking'
    BY <1>1, <1>3 DEF Checking, At, mid, checkVars
  <2>4. QED
    BY <2>1, <2>2, <2>3
<1>7. ~Growing => SoundPool' /\ SoundSearch'
  BY <1>2, <1>3 DEF SoundPool, SoundSearch, checkVars
<1>8. Fixing'
  <2>1. CASE FixHead
    BY <1>1, <2>1 DEF Fixing, OriginalKept, FixHead
  <2>2. CASE CopySize
    BY <1>1, <2>2 DEF Fixing, OriginalKept, CopySize
  <2>3. CASE RenameBak
    BY <1>1, <2>3 DEF Fixing, OriginalKept, RenameBak
  <2>4. QED
    BY <2>1, <2>2, <2>3
<1>9. QED
  BY <1>4, <1>5, <1>6, <1>7, <1>8 DEF IInv

LEMMA StutterInvariant ==
    ASSUME IInv, UNCHANGED vars
    PROVE  IInv'
<1>1. UNCHANGED <<checkVars, scanVars, done, search, searchVars, fixVars>>
  BY DEF vars
<1>2. PoolTypes /\ Pool /\ Types /\ Places /\ Checking /\ WaitsForMore /\ Fixing
  BY DEF IInv
<1>3. ~Growing => SoundSearch
  BY DEF IInv
<1>4. n' = n /\ states' = states
  BY <1>1 DEF n, scanVars
<1>5. PoolTypes' /\ Pool' /\ Fixing' /\ (~Growing => SoundPool')
  BY <1>1, PoolUnchanged
<1>6. Types' /\ Places' /\ WaitsForMore'
  BY <1>1, <1>2, <1>4 DEF Types, Places, WaitsForMore, scanVars, searchVars
<1>7. Checking' /\ (~Growing => SoundSearch')
  BY <1>1, <1>2, <1>3, <1>4 DEF Checking, SoundSearch, At, mid, checkVars, searchVars
<1>8. QED
  BY <1>5, <1>6, <1>7 DEF IInv

LEMMA NextInvariant ==
    ASSUME IInv, [Next]_vars
    PROVE  IInv'
<1>1. CASE /\ ScanAppend \/ ScanStop \/ ScanSignal
           /\ UNCHANGED <<checkVars, searchVars, fixVars>>
  BY <1>1, ScanInvariant
<1>2. CASE /\ GetUpTo \/ GetBlocks \/ GetWaits \/ GetDone
           /\ UNCHANGED <<checkVars, scanVars, fixVars>>
  BY <1>2, GetInvariant
<1>3. CASE (CheckUnread \/ Check \/ Checked) /\ UNCHANGED <<scanVars, fixVars>>
  BY <1>3, CheckUnreadInvariant, CheckCallInvariant, CheckedInvariant
<1>4. CASE CheckStep /\ UNCHANGED <<scanVars, done, search, searchVars, fixVars>>
  BY <1>4, PoolInvariant
<1>5. CASE /\ FixHead \/ CopySize \/ RenameBak
           /\ UNCHANGED <<checkVars, scanVars, done, search, searchVars>>
  BY <1>5, FixInvariant
<1>6. CASE UNCHANGED vars
  BY <1>6, StutterInvariant
<1>7. QED
  BY <1>1, <1>2, <1>3, <1>4, <1>5, <1>6, Zenon DEF Next

LEMMA Invariant == Spec => []IInv
<1>1. Init => IInv
  BY InitInvariant
<1>2. IInv /\ [Next]_vars => IInv'
  BY NextInvariant
<1>3. QED
  BY <1>1, <1>2, PTL DEF Spec
------------------------------------------------------------------------------
(* Every state that search looks at is in the file and has been found by   *)
(* the scanner: no offset is taken that is not there (repair.go:88).       *)
THEOREM TypeCorrect == Spec => []TypeOK
<1>1. IInv => TypeOK
  <2> SUFFICES ASSUME IInv PROVE TypeOK
    OBVIOUS
  <2>1. Types /\ Places /\ PoolTypes
    BY DEF IInv
  <2>2. search \in {"bisect", "bisecting"} => mid \in 0 .. (found - 1)
    BY AtIsFound DEF At
  <2>3. QED
    BY <2>1, <2>2 DEF TypeOK, Types, Places, PoolTypes, SearchStates, SenderStates
<1>2. QED
  BY <1>1, Invariant, PTL

(* What search returns, and so what fix makes the end of the file, is a    *)
(* state without damage, whether or not older states have all the tables.  *)
ResultIsGood == search = "done" /\ result # None => IsGood(states[result])

THEOREM RepairsToGood == Spec => []ResultIsGood
<1>1. IInv => ResultIsGood
  BY DEF IInv, Checking, ResultIsGood
<1>2. QED
  BY <1>1, Invariant, PTL

(* checkState reports an error just when the state is damaged, however the *)
(* workers of the pool interleave, if no state lacks a table.              *)
THEOREM CheckExact ==
    ASSUME ~Growing
    PROVE  Spec => []CheckIsExact
<1>1. IInv => CheckIsExact
  BY NoErrorIsGood, ErrorIsBad DEF CheckIsExact
<1>2. QED
  BY <1>1, Invariant, PTL

(* The state search returns is good and the next newer one is bad, also    *)
(* when good and bad states are mixed.                                     *)
THEOREM FoundBoundary ==
    ASSUME ~Growing
    PROVE  Spec => []FoundIsBoundary
<1>1. IInv => FoundIsBoundary
  BY DEF IInv, Checking, SoundSearch, FoundIsBoundary
<1>2. QED
  BY <1>1, Invariant, PTL

(* If good and bad states are not mixed search returns the newest good     *)
(* one, and gives up only if there is none, however far the scanner was.   *)
THEOREM NewestFound ==
    ASSUME ~Growing
    PROVE  Spec => []FindsNewest
<1>1. IInv => FindsNewest
  <2> SUFFICES ASSUME IInv, search = "done", NotMixed,
                      NEW k \in DOMAIN states, IsGood(states[k])
               PROVE  result # None /\ result <= k
    BY DEF FindsNewest
  <2>1. Types /\ SoundSearch
    BY DEF IInv
  <2>2. n \in Nat /\ DOMAIN states = 0 .. (n - 1) /\ result \in {None} \cup 0 .. (n - 1)
    BY <2>1 DEF Types
  <2>3. result # None
    <3> SUFFICES ASSUME result = None PROVE FALSE
      OBVIOUS
    <3>1. n > 0 /\ ~IsGood(states[n - 1])
      BY <2>1 DEF SoundSearch
    <3>2. k < n - 1 \/ k = n - 1
      BY <2>2
    <3>3. n - 1 \in DOMAIN states
      BY <2>2, <3>1
    <3>4. QED
      BY <3>1, <3>2, <3>3 DEF NotMixed
  <2>4. result <= k
    <3> SUFFICES ASSUME ~(result <= k) PROVE FALSE
      OBVIOUS
    <3>1. result \in 0 .. (n - 1) /\ k \in 0 .. (n - 1)
      BY <2>2, <2>3
    <3>2. result > 0 /\ (k < result - 1 \/ k = result - 1) /\ result - 1 \in DOMAIN states
      BY <2>2, <3>1
    <3>3. ~IsGood(states[result - 1])
      BY <2>1, <2>3, <3>2 DEF SoundSearch
    <3>4. QED
      BY <3>2, <3>3 DEF NotMixed
  <2>5. QED
    BY <2>3, <2>4
<1>2. QED
  BY <1>1, Invariant, PTL

(* search sleeps on a state that is there only while a signal is on its    *)
(* way: no wakeup of getUpTo is lost.                                      *)
THEOREM NoLostSignal == Spec => []WaitsForMore
<1>1. IInv => WaitsForMore
  BY DEF IInv
<1>2. QED
  BY <1>1, Invariant, PTL

(* The damaged file survives fix, as itself or as the backup, also when a  *)
(* step of the renaming fails.                                             *)
THEOREM OriginalSurvives == Spec => []OriginalKept
<1>1. IInv => OriginalKept
  BY DEF IInv, Fixing
<1>2. QED
  BY <1>1, Invariant, PTL
==============================================================================
