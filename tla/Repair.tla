-------------------------------- MODULE Repair --------------------------------
(***************************************************************************)
(* db19/repair.go: find the most recent good database state in a damaged   *)
(* file, and make a file that ends with it.                                *)
(*                                                                         *)
(* The goroutine scanner finds the states, the newest first.  search tries *)
(* them in increasing jumps, and then bisects.  Each is checked with the   *)
(* pool of CheckDb, the table that had the last error first.  fix cuts the *)
(* file off and renames it.                                                *)
(***************************************************************************)
EXTENDS CheckDb, Integers

CONSTANTS
    MaxStates,      \* bound on the states in the file
    Bads,           \* sets of tables that may be damaged
    Growing         \* whether older states may lack a table

ASSUME RepairAssumption == MaxStates \in Nat

None == -1

VARIABLES
    states,         \* what is in the file, newest first: [0 .. n-1 -> DbStates]
    found,          \* how many the scanner has appended to offsets
    done,
    scanner,        \* where the scanner is
    search,         \* where search is; "blocking" has the lock
    i, skip, prev, last, lo, hi,    \* its locals
    ec,             \* the table of the last error
    result,         \* the state found, None for "no more states"
    fix,            \* where fix is
    db, bak         \* what dbfile and dbfile.bak are

scanVars == <<states, found, scanner>>
searchVars == <<i, skip, prev, last, lo, hi, ec, result>>
fixVars == <<fix, db, bak>>
vars == <<checkVars, scanVars, done, search, searchVars, fixVars>>

DbStates ==
    [read : {FALSE}, tables : {{}}, bad : {{}}]
    \cup {s \in [read : {TRUE}, tables : IF Growing THEN SUBSET Tables ELSE {Tables},
                 bad : Bads] : s.bad \subseteq s.tables}

Init ==
    /\ states \in UNION {[0 .. (k - 1) -> DbStates] : k \in 0 .. MaxStates}
    /\ CheckInit
    /\ found = 0 /\ done = FALSE /\ scanner = "scan"
    /\ search = "get"
    /\ i = 0 /\ skip = 1 /\ prev = 0 /\ last = FALSE /\ lo = 0 /\ hi = 0
    /\ ec \in {NoTable} \cup UNION {states[k].bad : k \in DOMAIN states \cap {0}}
    /\ result = None
    /\ fix = "none" /\ db = "damaged" /\ bak = "old"
------------------------------------------------------------------------------
(* scanner *)

MoreStates == found \in DOMAIN states

ScanAppend_NoLock ==
    /\ scanner = "scan" /\ MoreStates
    /\ found' = found + 1
    /\ scanner' = "signal"
    /\ UNCHANGED <<states, done, search>>

(* The next state.  After stop there may still be some. *)
ScanAppend ==
    /\ scanner = "scan" /\ MoreStates /\ search # "blocking"
    /\ found' = found + 1
    /\ scanner' = "signal"
    /\ UNCHANGED <<states, done, search>>

(* "finished (either at end or stopped)": stop takes no lock *)
ScanStop ==
    /\ scanner = "scan" /\ (done \/ ~MoreStates)
    /\ done' = TRUE
    /\ scanner' = "last signal"
    /\ UNCHANGED <<states, found, search>>

(* Signal wakes search if it is waiting by now. *)
ScanSignal ==
    /\ scanner \in {"signal", "last signal"}
    /\ search' = IF search = "waiting" THEN "get" ELSE search
    /\ scanner' = IF scanner = "signal" THEN "scan" ELSE "ended"
    /\ UNCHANGED <<states, found, done>>
------------------------------------------------------------------------------
(* search *)

(* Leaving search: close of the scanner *)
Return(k) == search' = "done" /\ result' = k /\ done' = TRUE

(* getUpTo, when the state is there *)
GetUpTo ==
    /\ search = "get" /\ i < found
    /\ search' = "probe"
    /\ UNCHANGED <<done, searchVars>>

(* getUpTo, when it is not: wait for it *)
GetBlocks ==
    /\ search = "get" /\ found <= i /\ ~done
    /\ search' = "blocking"
    /\ UNCHANGED <<done, searchVars>>

(* cond.Wait *)
GetWaits ==
    /\ search = "blocking"
    /\ search' = "waiting"
    /\ UNCHANGED <<done, searchVars>>

GetDone_GivesUp ==
    /\ search = "get" /\ found <= i /\ done
    /\ Return(None) /\ UNCHANGED <<i, skip, prev, last, lo, hi, ec>>

(* getUpTo, at the end: go back to the oldest state, if it is not the one  *)
(* just tried.  With no state at all the index is out of range.            *)
GetDone ==
    /\ search = "get" /\ found <= i /\ done
    /\ IF found - 1 = prev
       THEN Return(None) /\ UNCHANGED <<i, last>>
       ELSE /\ i' = found - 1 /\ last' = TRUE
            /\ search' = IF found = 0 THEN "panic" ELSE "probe"
            /\ UNCHANGED <<done, result>>
    /\ UNCHANGED <<skip, prev, lo, hi, ec>>

MoreToBisect_OffByOne(l, h) == l < h - 2

MoreToBisect(l, h) == l < h - 1

Bisect(l, h) ==
    /\ lo' = l /\ hi' = h
    /\ IF MoreToBisect(l, h) THEN search' = "bisect" /\ UNCHANGED result
       ELSE search' = "done" /\ result' = h

mid == lo + (hi - lo) \div 2

(* The state that is checked. *)
At == IF search \in {"probe", "probing"} THEN i ELSE mid

(* check has found a good state: stop the scanner and bisect, or go on     *)
(* bisecting.                                                              *)
Good ==
    /\ IF search = "probing" THEN Bisect(prev, i) ELSE Bisect(lo, mid)
    /\ done' = TRUE
    /\ UNCHANGED <<i, skip, prev, last, ec>>

(* check has found a bad state: jump further back, or go on bisecting. *)
Bad ==
    IF search \in {"probe", "probing"}
    THEN IF last THEN Return(None) /\ UNCHANGED <<i, skip, prev, last, lo, hi>>
         ELSE /\ prev' = i /\ i' = i + skip /\ skip' = 2 * skip
              /\ search' = "get"
              /\ UNCHANGED <<done, last, lo, hi, result>>
    ELSE Bisect(mid, hi) /\ UNCHANGED <<done, i, skip, prev, last>>

(* check: "ReadState failed" *)
CheckUnread ==
    /\ search \in {"probe", "bisect"} /\ ~states[At].read
    /\ Bad
    /\ ec' = NoTable
    /\ UNCHANGED checkVars

(* check calls checkState *)
Check ==
    /\ search \in {"probe", "bisect"} /\ states[At].read
    /\ checkState(states[At], ec)
    /\ search' = IF search = "probe" THEN "probing" ELSE "bisecting"
    /\ UNCHANGED <<done, searchVars>>

(* checkState returns *)
Checked ==
    /\ search \in {"probing", "bisecting"}
    /\ finish
    /\ IF err = NoError THEN Good ELSE Bad /\ ec' = err
------------------------------------------------------------------------------
(* fix *)

(* The state found is at the end, but for a tail: fixHead writes the       *)
(* shutdown marker after it.                                               *)
FixHead ==
    /\ fix = "none" /\ result = 0
    /\ \/ fix' = "fixed" /\ db' = "marked"
       \/ fix' = "failed" /\ UNCHANGED db
    /\ UNCHANGED bak

(* There is more after it, also when it is the newest: copySize into a     *)
(* temporary file.                                                         *)
CopySize ==
    /\ fix = "none" /\ result # None
    /\ fix' \in {"copied", "failed"}
    /\ UNCHANGED <<db, bak>>

RenameBak_OneStep ==
    \/ /\ fix = "copied"
       /\ fix' = "removed" /\ db' = "none" /\ UNCHANGED bak
    \/ /\ fix = "removed"
       /\ fix' = "fixed" /\ db' = "repaired" /\ bak' = "damaged"

(* RenameBak: remove the backup, rename the file to the backup, rename the *)
(* copy to the file.                                                       *)
RenameBak ==
    \/ /\ fix = "copied"
       /\ fix' = "removed" /\ bak' = "none" /\ UNCHANGED db
    \/ /\ fix = "removed"
       /\ fix' = "renamed" /\ db' = "none" /\ bak' = "damaged"
    \/ /\ fix = "renamed"
       /\ fix' = "fixed" /\ db' = "repaired" /\ UNCHANGED bak
    \/ /\ fix \in {"copied", "removed", "renamed"}
       /\ fix' = "failed" /\ UNCHANGED <<db, bak>>
------------------------------------------------------------------------------
Next ==
    \/ /\ ScanAppend \/ ScanStop \/ ScanSignal
       /\ UNCHANGED <<checkVars, searchVars, fixVars>>
    \/ /\ GetUpTo \/ GetBlocks \/ GetWaits \/ GetDone
       /\ UNCHANGED <<checkVars, scanVars, fixVars>>
    \/ /\ CheckUnread \/ Check \/ Checked
       /\ UNCHANGED <<scanVars, fixVars>>
    \/ /\ CheckStep
       /\ UNCHANGED <<scanVars, done, search, searchVars, fixVars>>
    \/ /\ search = "done" /\ scanner = "ended"
       /\ FixHead \/ CopySize \/ RenameBak
       /\ UNCHANGED <<checkVars, scanVars, done, search, searchVars>>

Spec == Init /\ [][Next]_vars

(* The workers, the sender and the scanner are goroutines, and go on. *)
Fairness == WF_vars(Next)

FairSpec == Spec /\ Fairness
------------------------------------------------------------------------------
(* Properties *)

n == CHOOSE k \in 0 .. MaxStates : DOMAIN states = 0 .. (k - 1)

TypeOK ==
    /\ found \in 0 .. n /\ i \in Int /\ lo \in 0 .. n /\ hi \in 0 .. n
    /\ search \in {"get", "blocking", "waiting", "probe", "probing", "bisect",
                   "bisecting", "done", "panic"}
    /\ search \in {"probe", "probing"} => i \in 0 .. (found - 1)
    /\ search \in {"bisect", "bisecting"} => mid \in 0 .. (found - 1)
    /\ ec \in Tables \cup {NoTable}
    /\ result \in {None} \cup 0 .. (n - 1)
    /\ worker \in [Workers -> Tables \cup {"idle", "gone"}]
    /\ sender \in {"none", "first", "send", "finish"}

(* checkState finds an error just when the state has a damaged table,      *)
(* whichever worker is first to meet one, and no worker is left running.   *)
CheckIsExact == Finished => (err = NoError <=> IsGood(state))

(* "binary search for where good changes to bad": also when good and bad   *)
(* states are mixed, the state search returns is good and the next newer   *)
(* one is bad.                                                             *)
FoundIsBoundary ==
    search = "done" /\ result # None =>
        /\ IsGood(states[result])
        /\ result > 0 => ~IsGood(states[result - 1])

NotMixed == \A j \in DOMAIN states, k \in DOMAIN states :
                j < k /\ IsGood(states[j]) => IsGood(states[k])

(* If good and bad states "are NOT mixed" (repair.go:88) search finds the  *)
(* most recent good state; it finds none only if there is none.            *)
FindsNewest ==
    search = "done" /\ NotMixed =>
        \A k \in DOMAIN states : IsGood(states[k]) => result # None /\ result <= k

(* search does not sleep on a state that is there, unless a signal is on   *)
(* its way: the test in getUpTo and Wait are under the lock of the append. *)
WaitsForMore ==
    search = "waiting" /\ i < found => scanner \in {"signal", "last signal"}

(* The damaged file is there, under its own name or as the backup, however *)
(* far fix has come.                                                       *)
OriginalKept == db \in {"damaged", "marked"} \/ bak = "damaged"

(* Every check of a state comes to an end: no worker and no sender waits   *)
(* for ever on a channel.                                                  *)
ChecksEnd == (sender # "none") ~> (sender = "none")
==============================================================================
