------------------------------ MODULE Pipeline -------------------------------
(***************************************************************************)
(* What happens to a transaction after the checker accepted it: db19       *)
(* concur.go, state.go, the commit and exclusive messages of checkco.go,   *)
(* LayeredOnto of meta.go, info.go and index/overlay.go.                   *)
(*                                                                         *)
(* Two goroutines are connected by a bounded channel.  The checker layers  *)
(* the transaction's index changes onto the state, answers the client and  *)
(* sends the list of tables to the merger.  The merger folds the layers    *)
(* into the base layer of the indexes, and from time to time saves the     *)
(* base layers in the btrees and writes a state to the file.  Both compute *)
(* outside the state's mutex and apply the result inside it, so commits    *)
(* happen between the two.  A third thread may add an index to a table, or *)
(* replace a table by loading it.  What they do to the Info of a table is  *)
(* in module Info.                                                         *)
(***************************************************************************)
EXTENDS Info

CONSTANTS
    Tables,       \* the tables
    chanBuffers,  \* concur.go chanBuffers, the capacity of mergeChan
    Alter,        \* TRUE if the admin thread may add indexes
    MayCrash,     \* TRUE if the process may die
    MaxCommits    \* bound: transactions that are in the database

ASSUME PipelineAssumption ==
    /\ chanBuffers \in Nat /\ MaxCommits \in Nat
    /\ Alter \in BOOLEAN /\ MayCrash \in BOOLEAN

VARIABLES
    info,       \* the Info of each table in the current state
    disk,       \* the Info of each table in the last state of the file
    mergeChan,  \* the todo's sent and not received
    checker,    \* the checker goroutine: what it does and the todo it sends
    merger,     \* the merger goroutine: what it does and what it computed
    changed,    \* db.GetState() # prevState of the merger
    admin,      \* the admin thread: what it does, the table, what it built
    log         \* history: the tables written by each transaction, in order

vars == <<info, disk, mergeChan, checker, merger, changed, admin, log>>

-----------------------------------------------------------------------------
(* The state *)

NoTodo == [kind |-> "none"]

\* the checker goroutine waits for a message
Idle == [pc |-> "idle", todo |-> NoTodo]

\* the merger goroutine waits in its select
Select == [pc |-> "select", td |-> NoTodo, merges |-> <<>>, results |-> <<>>]

Fatal == [Select EXCEPT !.pc = "fatal"]

NoAdmin == [pc |-> "none", table |-> "none", ov |-> Overlay(<<>>, 1)]

Init ==
    /\ disk = [t \in Tables |-> NewInfo(<<Overlay(<<>>, 1)>>)]
    /\ info = disk
    /\ mergeChan = <<>> /\ checker = Idle /\ merger = Select
    /\ changed = FALSE /\ admin = NoAdmin
    /\ log = <<>>

\* mutant of UpdateState: a merge does not make a new state
UpdateState_NotMerge(newInfo) ==
    info' = newInfo /\ changed' = (changed \/ merger.pc # "merge")

UpdateState(newInfo) == info' = newInfo /\ changed' = TRUE

-----------------------------------------------------------------------------
(* The checker goroutine: dispatch *)

Sending(todo) == checker' = [pc |-> "sending", todo |-> todo]

\* ckCommit.  The client has its answer before the todo is sent.
Commit(ts) ==
    /\ checker.pc = "idle" /\ admin.table \notin ts
    /\ Len(log) < MaxCommits
    /\ log' = Append(log, ts)
    /\ UpdateState([t \in Tables |->
          IF t \in ts THEN LayeredOnto(info[t], Len(log')) ELSE info[t]])
    /\ Sending([kind |-> "merge", tables |-> ts])
    /\ UNCHANGED <<disk, mergeChan, merger, admin>>

\* ckPersist, for Database.Persist
CallPersist ==
    /\ checker.pc = "idle"
    /\ Sending([kind |-> "persist"])
    /\ UNCHANGED <<info, disk, mergeChan, merger, changed, admin, log>>

\* ckAddExcl, for AlterCreate and Ensure
AddExclusive(t) ==
    /\ Alter /\ checker.pc = "idle" /\ admin.pc = "none"
    /\ Len(info[t].Indexes) = 1
    /\ admin' = [NoAdmin EXCEPT !.pc = "building", !.table = t]
    /\ UNCHANGED <<info, disk, mergeChan, checker, merger, changed, log>>

\* ckRunEndExcl
RunEndExclusive ==
    /\ checker.pc = "idle" /\ admin.pc = "built"
    /\ Sending([kind |-> "run"])
    /\ admin' = [admin EXCEPT !.pc = "running"]
    /\ UNCHANGED <<info, disk, mergeChan, merger, changed, log>>

\* mergeChan <- todo: the checker waits while the channel is full, and then
\* for the answer of the merger unless the todo is a merge
Send ==
    /\ checker.pc = "sending"
    /\ Len(mergeChan) < chanBuffers
    /\ mergeChan' = Append(mergeChan, checker.todo)
    /\ checker' = IF checker.todo.kind = "merge" THEN Idle
                  ELSE [checker EXCEPT !.pc = "waiting"]
    /\ UNCHANGED <<info, disk, merger, changed, admin, log>>

\* the nil message of Stop: close(mergeChan)
Stop ==
    /\ checker.pc = "idle"
    /\ checker' = [checker EXCEPT !.pc = "stopped"]
    /\ UNCHANGED <<info, disk, mergeChan, merger, changed, admin, log>>

\* mutant of buildIndexes: only the btree is read, not its layers
buildIndexes_BtreeOnly ==
    /\ admin.pc = "building"
    /\ LET ix == info[admin.table].Indexes[1]
       IN  admin' = [admin EXCEPT !.pc = "built", !.ov = Overlay(ix.bt, Len(ix.layers))]
    /\ UNCHANGED <<info, disk, mergeChan, checker, merger, changed, log>>

\* the admin thread: buildIndexes, from the state of this moment.  Without
\* rows there is nothing to build and the index is made by Meta.AlterCreate.
buildIndexes ==
    /\ admin.pc = "building"
    /\ LET ti == info[admin.table]
           ix == ti.Indexes[1]
       IN  admin' = [pc    |-> "built",
                     table |-> admin.table,
                     ov    |-> IF ti.Nrows = 0 THEN Overlay(<<>>, 1)
                               ELSE Overlay(Entries(ix), Len(ix.layers))]
    /\ UNCHANGED <<info, disk, mergeChan, checker, merger, changed, log>>

-----------------------------------------------------------------------------
(* The merger goroutine *)

Receive ==
    /\ merger.pc = "select" /\ mergeChan # <<>>
    /\ merger' = [Select EXCEPT !.pc = "todo", !.td = Head(mergeChan)]
    /\ mergeChan' = Tail(mergeChan)
    /\ UNCHANGED <<info, disk, checker, changed, admin, log>>

\* mutant of TableCounts: a table is merged once however many todo's name it
TableCounts_Once(tds) == [t \in UNION {tds[i].tables : i \in DOMAIN tds} |-> 1]

\* mergeList.start and add: for each table the number of todo's that name it
TableCounts(tds) ==
    [t \in UNION {tds[i].tables : i \in DOMAIN tds} |->
        SumSeq([i \in DOMAIN tds |-> IF t \in tds[i].tables THEN 1 ELSE 0])]

\* The merger has a merge in hand.  It drains n more merges of the channel, and
\* the todo after them, which is no merge or one with another schema (left
\* open here).  The results are computed from the state of this moment.
StartMerge ==
    /\ merger.pc = "todo" /\ merger.td.kind = "merge"
    /\ \E n \in 0 .. Len(mergeChan) :
         /\ \A i \in 1 .. n : mergeChan[i].kind = "merge"
         /\ mergeChan' = Rest(mergeChan, n + 1)
         /\ LET tn == TableCounts(<<merger.td>> \o SubSeq(mergeChan, 1, n))
            IN  merger' =
                  IF \A t \in DOMAIN tn : CanMerge(info[t], tn[t])
                  THEN [pc |-> "merge", merges |-> tn,
                        td |-> IF n < Len(mergeChan) THEN mergeChan[n + 1] ELSE NoTodo,
                        results |-> [t \in DOMAIN tn |-> MergeResults(info[t], tn[t])]]
                  ELSE Fatal
    /\ UNCHANGED <<info, disk, checker, changed, admin, log>>

\* Database.Merge: Apply inside UpdateState, then the todo that was drained
Merge ==
    /\ merger.pc = "merge"
    /\ LET tn == merger.merges
       IN  IF \A t \in DOMAIN tn : CanMerge(info[t], tn[t])
           THEN /\ UpdateState([t \in Tables |->
                      IF t \in DOMAIN tn
                      THEN ApplyMerge(info[t], tn[t], merger.results[t])
                      ELSE info[t]])
                /\ merger' = IF merger.td = NoTodo THEN Select
                             ELSE [Select EXCEPT !.pc = "todo", !.td = merger.td]
           ELSE merger' = Fatal /\ UNCHANGED <<info, changed>>
    /\ UNCHANGED <<disk, mergeChan, checker, admin, log>>

\* td.run(), td.ret <-, and the checker's EndExclusive
Run ==
    /\ merger.pc = "todo" /\ merger.td.kind = "run"
    /\ UpdateState([info EXCEPT ![admin.table].Indexes = Append(@, admin.ov)])
    /\ merger' = Select /\ checker' = Idle /\ admin' = NoAdmin
    /\ UNCHANGED <<disk, mergeChan, log>>

\* Meta.Persist: new btrees, computed from the state of this moment
MetaPersist(pc) ==
    merger' = [Select EXCEPT !.pc = pc, !.td = merger.td,
        !.results = [t \in {t \in Tables : Modified(info[t])} |-> SaveResults(info[t])]]

\* the ticker, every persistInterval
Tick ==
    /\ merger.pc = "select" /\ changed
    /\ MetaPersist("persist")
    /\ UNCHANGED <<info, disk, mergeChan, checker, changed, admin, log>>

\* mutant of StartPersist: with nothing to persist the call waits for a change
StartPersist_Waits ==
    /\ merger.pc = "todo" /\ merger.td.kind = "persist"
    /\ IF changed THEN MetaPersist("persist") ELSE UNCHANGED merger
    /\ UNCHANGED <<info, disk, mergeChan, checker, changed, admin, log>>

\* a persist todo, answered at once if the state has not changed
StartPersist ==
    /\ merger.pc = "todo" /\ merger.td.kind = "persist"
    /\ IF changed THEN MetaPersist("persist") /\ UNCHANGED checker
       ELSE merger' = Select /\ checker' = Idle
    /\ UNCHANGED <<info, disk, mergeChan, changed, admin, log>>

\* Database.persist: Apply and Write inside UpdateState, which is prevState now
Persist ==
    /\ merger.pc \in {"persist", "last"}
    /\ info' = [t \in Tables |->
          IF t \in DOMAIN merger.results
          THEN ApplyPersist(info[t], merger.results[t]) ELSE info[t]]
    /\ disk' = [t \in Tables |-> Written(info'[t])]
    /\ changed' = FALSE
    /\ merger' = IF merger.pc = "last" THEN [Select EXCEPT !.pc = "done"] ELSE Select
    /\ checker' = IF merger.td.kind = "persist" THEN Idle ELSE checker
    /\ UNCHANGED <<mergeChan, admin, log>>

\* mutants of Finish: the channel is not drained; the end waits for a change
Finish_NotDrained ==
    /\ merger.pc = "select" /\ checker.pc = "stopped"
    /\ IF changed THEN MetaPersist("last") ELSE merger' = [Select EXCEPT !.pc = "done"]
    /\ UNCHANGED <<info, disk, mergeChan, checker, changed, admin, log>>
Finish_Waits ==
    /\ merger.pc = "select" /\ mergeChan = <<>> /\ checker.pc = "stopped"
    /\ IF changed THEN MetaPersist("last") ELSE UNCHANGED merger
    /\ UNCHANGED <<info, disk, mergeChan, checker, changed, admin, log>>

\* The channel is closed and empty.  The state is persisted if it changed or if
\* the file grew since (grown: by records of transactions that were aborted).
Finish ==
    /\ merger.pc = "select" /\ mergeChan = <<>> /\ checker.pc = "stopped"
    /\ \E grown \in BOOLEAN :
         IF changed \/ grown THEN MetaPersist("last")
         ELSE merger' = [Select EXCEPT !.pc = "done"]
    /\ UNCHANGED <<info, disk, mergeChan, checker, changed, admin, log>>

-----------------------------------------------------------------------------
(* Opening again, after a shutdown or after the process died *)

\* history: the number of transactions that the file holds
Newest(dk) ==
    LET saved == {0} \cup UNION {{dk[t].Indexes[1].bt[i] : i \in DOMAIN dk[t].Indexes[1].bt} :
                                    t \in Tables}
    IN CHOOSE n \in saved : \A m \in saved : m <= n

Durable == Newest(disk)

OpenDatabase ==
    /\ info' = disk
    /\ mergeChan' = <<>> /\ checker' = Idle /\ merger' = Select
    /\ changed' = FALSE /\ admin' = NoAdmin
    /\ log' = SubSeq(log, 1, Durable)
    /\ UNCHANGED disk

Reopen == merger.pc = "done" /\ OpenDatabase

Crash == (MayCrash \/ merger.pc = "fatal") /\ OpenDatabase

Next ==
    \/ \E ts \in (SUBSET Tables) \ {{}} : Commit(ts)
    \/ \E t \in Tables : AddExclusive(t)
    \/ CallPersist \/ RunEndExclusive \/ Send \/ Stop \/ buildIndexes
    \/ Receive \/ StartMerge \/ Merge \/ Run \/ Tick \/ StartPersist \/ Persist
    \/ Finish \/ Reopen \/ Crash

Spec == Init /\ [][Next]_vars

-----------------------------------------------------------------------------
(* Properties *)

Abstract == INSTANCE Store WITH
    view    <- [t \in Tables |-> Entries(info[t].Indexes[1])],
    disk    <- [t \in Tables |-> disk[t].Indexes[1].bt],
    durable <- Durable

IsInfo(ti) ==
    /\ ti.Indexes # <<>> /\ ti.Deltas \in Seq(Nat) \ {<<>>}
    /\ \A i \in DOMAIN ti.Indexes :
         /\ ti.Indexes[i].bt \in Seq(Nat)
         /\ ti.Indexes[i].layers \in Seq(Seq(Nat)) \ {<<>>}
    /\ ti.Nrows \in Nat /\ ti.BtreeNrows \in Nat

\* The types; mergeChan holds at most chanBuffers todo's (concur.go).
TypeOK ==
    /\ DOMAIN info = Tables /\ DOMAIN disk = Tables
    /\ \A t \in Tables : IsInfo(info[t]) /\ IsInfo(disk[t])
    /\ Len(mergeChan) <= chanBuffers
    /\ checker.pc \in {"idle", "sending", "waiting", "stopped"}
    /\ merger.pc \in {"select", "todo", "merge", "persist", "last", "done", "fatal"}
    /\ admin.pc \in {"none", "building", "built", "running"}
    /\ changed \in BOOLEAN
    /\ log \in Seq(SUBSET Tables) /\ Len(log) <= MaxCommits

\* However commits, merges, persists and crashes interleave (and index builds,
\* with Alter), a reader of the first index of a table sees all the accepted
\* transactions, and the file holds there each of a prefix of them completely,
\* in all of its tables, and nothing of the others.
Implements == Abstract!Spec

\* The assertions of Info.Check (info.go), which LayeredOnto has in a comment:
\* the layers of every index match the Deltas, and these add up to Nrows.
InfoCheck ==
    \A t \in Tables :
        LET ti == info[t]
        IN  /\ \A i \in DOMAIN ti.Indexes : Len(ti.Indexes[i].layers) = Len(ti.Deltas)
            /\ ti.BtreeNrows + SumSeq(ti.Deltas) = ti.Nrows

\* The merger never slices past the layers or the Deltas of a table: no commit
\* is merged twice, and none before it is in the state (else the server exits
\* with "FATAL: in merger").
MergerNeverFails == merger.pc # "fatal"

\* All indexes of a table have the same entries, as CheckOtherIndex
\* (checkdb.go) demands of a persisted state.
IndexesAgree ==
    \A t \in Tables : \A i \in DOMAIN info[t].Indexes :
        Entries(info[t].Indexes[i]) = Entries(info[t].Indexes[1])

\* Until the database is opened again, readers find the same in all indexes
\* of a table, those added by AlterCreate included: the commits made while an
\* index was built are in it, and none is in it twice.
IndexesStayEqual == [][IndexesAgree /\ info' # disk => IndexesAgree']_vars

\* what checkTable and CheckMerged (checkdb.go, overlay.go) want of a state
Merged(ti) ==
    \A i \in DOMAIN ti.Indexes :
        /\ ti.Indexes[i].layers = <<(<<>>)>>
        /\ Len(ti.Indexes[i].bt) = ti.Nrows

\* Database.Persist returns "a persisted state, with all ixbuf layer entries
\* merged into the btree" (state.go): when the call of a dump or a check is
\* answered nothing is left in a layer, and every count is that of the btree.
PersistReturnsMerged ==
    [][checker.pc = "waiting" /\ checker.todo.kind = "persist" /\ checker' # checker
       => \A t \in Tables : Merged(info'[t])]_vars

\* When Stop returns (allDone is closed) the file holds every transaction whose
\* client was told that it committed, the ones still in mergeChan included.
ShutdownSavesAll == merger.pc = "done" => Durable = Len(log)

\* the goroutines run; the ticker ticks
MergerStep == Receive \/ StartMerge \/ Merge \/ Run \/ StartPersist \/ Persist \/ Finish

Fairness == WF_vars(Send) /\ WF_vars(MergerStep) /\ WF_vars(Tick)

FairSpec == Spec /\ Fairness

\* If the process does not die, a committed transaction gets to the file
\* without a shutdown or a call of Persist being needed, even if the state was
\* persisted between its commit and its merge.
CommitsGetSaved ==
    \A n \in 1 .. MaxCommits : Len(log) >= n ~> Durable >= n

\* The checker never stays blocked, on a full mergeChan or waiting for the
\* merger, so that every call of Persist and every schema change is answered.
CallsAreAnswered ==
    checker.pc \in {"sending", "waiting"} ~> checker.pc \in {"idle", "stopped"}

\* After Stop the merger drains the channel, persists and closes allDone.
StopFinishes == checker.pc = "stopped" ~> merger.pc = "done"

-----------------------------------------------------------------------------
(* Loading a table into an open database: tools/load.go loadDbTable *)

LoadAddExclusive(t) ==
    /\ checker.pc = "idle" /\ admin.pc = "none"
    /\ admin' = [NoAdmin EXCEPT !.pc = "loading", !.table = t]
    /\ UNCHANGED <<info, disk, mergeChan, checker, merger, changed, log>>

\* loadTable2 and OverwriteTable: a table of one record, from the admin thread
OverwriteTable ==
    /\ admin.pc = "loading" /\ Len(log) < MaxCommits
    /\ log' = Append(log, {admin.table})
    /\ UpdateState([info EXCEPT ![admin.table] = NewInfo(<<Overlay(<<Len(log')>>, 1)>>)])
    /\ admin' = [admin EXCEPT !.pc = "loaded"]
    /\ UNCHANGED <<disk, mergeChan, checker, merger>>

LoadEndExclusive ==
    /\ checker.pc = "idle" /\ admin.pc = "loaded"
    /\ admin' = NoAdmin
    /\ UNCHANGED <<info, disk, mergeChan, checker, merger, changed, log>>

LoadNext ==
    \/ Next \/ OverwriteTable \/ LoadEndExclusive
    \/ \E t \in Tables : LoadAddExclusive(t)

LoadSpec == Init /\ [][LoadNext]_vars
==============================================================================
