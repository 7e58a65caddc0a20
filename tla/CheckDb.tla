-------------------------------- MODULE CheckDb --------------------------------
(***************************************************************************)
(* checkState of db19/checkdb.go: the tables of a database state are       *)
(* checked by a pool of workers, fed through a channel without a buffer.   *)
(* The first worker that meets an error records it and tells the sender to *)
(* stop; a worker that met one is gone.                                    *)
(*                                                                         *)
(* Of a database state only this matters: whether it can be read, the      *)
(* tables it has and those of them whose indexes or records are damaged.   *)
(***************************************************************************)
EXTENDS Naturals

CONSTANTS Tables, Workers

NoTable == "no table"    \* an empty table name
NoError == "no error"

(* What stands for no table, no error or no work is not a table. *)
ASSUME TablesAssumption == {NoTable, NoError, "idle", "gone"} \cap Tables = {}

VARIABLES
    state,      \* the database state that is being checked
    first,      \* firstTable
    sender,     \* where sendWork and finish are
    unsent,     \* tables not sent yet
    worker,     \* the table each worker has, "idle" or "gone"
    stop,       \* stop has been closed
    err         \* the table of the error recorded, or NoError

checkVars == <<state, first, sender, unsent, worker, stop, err>>

(* No check is running. *)
CheckInit ==
    /\ state = [read |-> TRUE, tables |-> {}, bad |-> {}]
    /\ first = NoTable
    /\ sender = "none"
    /\ unsent = {}
    /\ worker = [w \in Workers |-> "idle"]
    /\ stop = FALSE
    /\ err = NoError

(* newTableCheckers *)
checkState(s, firstTable) ==
    /\ sender = "none"
    /\ state' = s
    /\ first' = firstTable
    /\ sender' = IF firstTable = NoTable THEN "send" ELSE "first"
    /\ unsent' = s.tables \ {firstTable}
    /\ worker' = [w \in Workers |-> "idle"]
    /\ stop' = FALSE
    /\ err' = NoError

(* sendWork: firstTable is sent whether this state has it or not. *)
SendFirst(w) ==
    /\ sender = "first" /\ worker[w] = "idle"
    /\ worker' = [worker EXCEPT ![w] = first]
    /\ sender' = "send"
    /\ UNCHANGED <<state, first, unsent, stop, err>>

(* sendWork: a worker takes the next table. *)
Send(w, table) ==
    /\ sender = "send" /\ worker[w] = "idle" /\ table \in unsent
    /\ worker' = [worker EXCEPT ![w] = table]
    /\ unsent' = unsent \ {table}
    /\ UNCHANGED <<state, first, sender, stop, err>>

(* sendWork: the end of the tables, or "stop is closed if a worker gets an *)
(* error".  Then finish closes work.  The recover of sendWork is left out: *)
(* the tables of a state that was read are in memory, and listing them     *)
(* does not panic.                                                         *)
CloseWork ==
    /\ sender = "send" /\ (stop \/ unsent = {})
    /\ sender' = "finish"
    /\ UNCHANGED <<state, first, unsent, worker, stop, err>>

(* checkTable *)
Damaged(table) == table \notin state.tables \/ table \in state.bad

error_NoStop(table) ==
    /\ err' = IF err = NoError THEN table ELSE err
    /\ UNCHANGED stop

(* "save first error", "notify main thread, once only" *)
error(table) ==
    /\ err' = IF err = NoError THEN table ELSE err
    /\ stop' = TRUE

(* The checking of a table gives up half way when there is an error. *)
WorkerDone(w) ==
    /\ worker[w] \in Tables
    /\ ~Damaged(worker[w]) \/ err # NoError
    /\ worker' = [worker EXCEPT ![w] = "idle"]
    /\ UNCHANGED <<state, first, sender, unsent, stop, err>>

WorkerError(w) ==
    /\ worker[w] \in Tables /\ Damaged(worker[w])
    /\ error(worker[w])
    /\ worker' = [worker EXCEPT ![w] = "gone"]
    /\ UNCHANGED <<state, first, sender, unsent>>

Finished_NoWait == sender = "finish"

(* wg.Wait *)
Finished == sender = "finish" /\ \A w \in Workers : worker[w] \notin Tables

(* finish, when it does not wait any more *)
finish ==
    /\ Finished
    /\ sender' = "none"
    /\ UNCHANGED <<state, first, unsent, worker, stop, err>>

CheckStep ==
    \/ \E w \in Workers :
        \/ SendFirst(w)
        \/ \E table \in Tables : Send(w, table)
        \/ WorkerDone(w)
        \/ WorkerError(w)
    \/ CloseWork

(* A state is good when none of its tables is damaged. *)
IsGood(s) == s.read /\ s.bad = {}
================================================================================
