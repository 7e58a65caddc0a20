------------------------------- MODULE CheckCo -------------------------------
(***************************************************************************)
(* The concurrent interface to the checker: db19/checkco.go and its queue, *)
(* util/queue/priority_queue.go.                                           *)
(*                                                                         *)
(* Clients are the threads of the server, each running one transaction.    *)
(* A call is put on the queue, which may mean waiting for room; the calls  *)
(* with a ret channel then wait for the answer, the others return as soon  *)
(* as the message is queued.  The checker goroutine gets one message at a  *)
(* time and makes the call of Check for it.  Admin is the thread of schema *)
(* changes and in the end of the shutdown, Ticker is tickGenerator.        *)
(*                                                                         *)
(* What Check does is in the module Check, for calls in any order; here it *)
(* is reduced to what a client can tell: a transaction starts, a read or a *)
(* write counts if the transaction is still active and may abort any       *)
(* active transaction, a commit ends it.  What the merger does for the     *)
(* checker is in Pipeline; here the checker is busy until it is done.      *)
(* Room in the queue is a guard: notFull is signalled at every Get and     *)
(* notEmpty at every Put, with the lock held, so no wakeup is lost.        *)
(* Left out: ReadCount, Transactions and Final, which only look; the rate  *)
(* limiter of StartTran, which only delays the call; an abort of a failed  *)
(* transaction, which does nothing; and the calls made after the checker   *)
(* has returned, which stay on the queue until the process exits.          *)
(***************************************************************************)
EXTENDS Naturals, Sequences

CONSTANTS
    Clients,    \* threads that run an update transaction
    Admin, Ticker,  \* the other threads
    bufSize,    \* room in the queue
    MaxAge      \* ticks a transaction may be outstanding

NoTran == "0"

ASSUME CheckCoAssumption ==
    bufSize \in Nat \ {0} /\ MaxAge \in Nat \ {0}

(* The threads are different, and 0 is not the number of a transaction. *)
ASSUME ThreadsAssumption ==
    Admin \notin Clients /\ Ticker \notin Clients /\ Admin # Ticker /\ NoTran \notin Clients

Threads == Clients \cup {Admin, Ticker}

VARIABLES
    items,      \* PriorityQueue.items
    at,         \* what each thread is doing
    call,       \* the message of the Put a thread is waiting in
    tran,       \* what has become of the client's transaction
    age,        \* ticks since it started
    unseen,     \* how many reads and writes the client has called that Check
                \* has not yet seen with the transaction still active
    busy,       \* the checker waits for the merger to run the change
    stopped     \* the checker goroutine has returned

vars == <<items, at, call, tran, age, unseen, busy, stopped>>

NoCall == [op |-> "none", tran |-> NoTran, by |-> Admin]
Message == [op : {"start", "access", "commit", "abort", "runExcl", "persist",
                  "tick", "stop"},
            tran : Clients \cup {NoTran}, by : Threads]

Init ==
    /\ items = <<>>
    /\ at = [p \in Threads |-> "idle"]
    /\ call = [p \in Threads |-> NoCall]
    /\ tran = [p \in Clients |-> "none"]
    /\ age = [p \in Clients |-> 0]
    /\ unseen = [p \in Clients |-> 0]
    /\ busy = FALSE /\ stopped = FALSE
------------------------------------------------------------------------------
(* PriorityQueue *)

lowPriority == {"start", "persist", "tick"}
mediumPriority == {"access", "runExcl"}

priority_NilIsHigh(op) ==
    IF op \in lowPriority THEN 1 ELSE IF op \in mediumPriority THEN 2 ELSE 3

priority(op) ==
    IF op = "stop" THEN 0 ELSE IF op \in lowPriority THEN 1
    ELSE IF op \in mediumPriority THEN 2 ELSE 3

isOldest_Any(i) == TRUE

(* No earlier item is of the same transaction.  The messages that belong   *)
(* to no transaction all have tran 0.                                      *)
isOldest(i) == \A j \in 1 .. (i - 1) : items[j].tran # items[i].tran

best_LastOfEquals ==
    LET C == {i \in DOMAIN items : isOldest(i)}
        p(i) == priority(items[i].op)
    IN  CHOOSE i \in C : \A j \in C : p(j) < p(i) \/ (p(j) = p(i) /\ j <= i)

(* The item that Get picks: the first of highest priority among the oldest *)
(* of each transaction; the very first item is one of them.                *)
best ==
    LET C == {i \in DOMAIN items : isOldest(i)}
        p(i) == priority(items[i].op)
    IN  CHOOSE i \in C : \A j \in C : p(j) < p(i) \/ (p(j) = p(i) /\ i <= j)

(* slices.Delete *)
Delete(s, i) == SubSeq(s, 1, i - 1) \o SubSeq(s, i + 1, Len(s))

HasRoom == Len(items) < bufSize

After_TickOnce(op) ==
    CASE op = "access"                   -> "idle"
      [] op \in {"abort", "stop", "tick"} -> "done"
      [] OTHER                           -> "waiting"

(* What a thread does once its message is queued. *)
After(op) ==
    CASE op \in {"access", "tick"} -> "idle"
      [] op \in {"abort", "stop"}  -> "done"
      [] OTHER                     -> "waiting"

(* A call up to its Put, which waits while the queue is full. *)
Call(p, msg) ==
    /\ at[p] = "idle" /\ ~stopped
    /\ \/ /\ HasRoom
          /\ items' = Append(items, msg)
          /\ at' = [at EXCEPT ![p] = After(msg.op)]
          /\ UNCHANGED call
       \/ /\ ~HasRoom
          /\ at' = [at EXCEPT ![p] = "putting"]
          /\ call' = [call EXCEPT ![p] = msg]
          /\ UNCHANGED items
    /\ UNCHANGED <<tran, age, busy, stopped>>

(* The rest of a Put that had to wait. *)
Put(p) ==
    /\ at[p] = "putting" /\ HasRoom
    /\ items' = Append(items, call[p])
    /\ at' = [at EXCEPT ![p] = After(call[p].op)]
    /\ call' = [call EXCEPT ![p] = NoCall]
    /\ UNCHANGED <<tran, age, unseen, busy, stopped>>
------------------------------------------------------------------------------
(* The calls *)

Msg(op, t, p) == [op |-> op, tran |-> t, by |-> p]

CallStart(p) ==
    /\ tran[p] = "none"
    /\ Call(p, Msg("start", NoTran, p))
    /\ UNCHANGED unseen

(* Read, Output, Delete and Update.  Whether the transaction has failed is *)
(* tested before the Put; if so the UpdateTran panics.  There is no limit: *)
(* a read of a range that was read before does not count for readMax.      *)
CallAccess(p) ==
    /\ tran[p] \notin {"none", "failed"}
    /\ Call(p, Msg("access", p, p))
    /\ unseen' = [unseen EXCEPT ![p] = @ + 1]

CallCommit(p) ==
    /\ tran[p] \notin {"none", "failed"}
    /\ Call(p, Msg("commit", p, p))
    /\ UNCHANGED unseen

CallAbort(p) ==
    /\ tran[p] \notin {"none", "failed"}
    /\ Call(p, Msg("abort", p, p))
    /\ UNCHANGED unseen

(* RunExclusive or Persist.  AddExclusive, EndExclusive and                *)
(* RunEndExclusive are queued in the same way.                             *)
CallAdmin(op) ==
    /\ Call(Admin, Msg(op, NoTran, Admin))
    /\ UNCHANGED unseen

(* tickGenerator: a second after the previous tick was put. *)
CallTick ==
    /\ Call(Ticker, Msg("tick", NoTran, Ticker))
    /\ UNCHANGED unseen

Stop ==
    /\ Call(Admin, Msg("stop", NoTran, Admin))
    /\ UNCHANGED unseen
------------------------------------------------------------------------------
(* The checker goroutine *)

active == {p \in Clients : tran[p] = "active"}

Fail(S) == [p \in Clients |-> IF p \in S \cap active THEN "failed" ELSE tran[p]]

Answer(p, to) == at' = [at EXCEPT ![p] = to]

(* commit returns nil for a transaction that is not found. *)
Found(p) == tran[p] = "active"

(* The answer to a commit, whether the transaction was found or not. *)
CommitAnswer(p) == Answer(p, "done")

(* age stops at MaxAge - 1, where the next tick aborts. *)
TooOld(p) == p \in active /\ age[p] + 1 >= MaxAge

(* dispatch of the messages that need nothing from the merger.  Any access *)
(* may abort active transactions, the accessing one or others; so may      *)
(* AddExclusive, and tick aborts those that are too old.                   *)
Dispatch(m) ==
    \/ /\ m.op = "start"
       /\ tran' = [tran EXCEPT ![m.by] = "active"]
       /\ Answer(m.by, "idle")
       /\ UNCHANGED <<age, unseen>>
    \/ /\ m.op = "access"
       /\ \/ /\ Found(m.tran)
             /\ unseen' = [unseen EXCEPT ![m.tran] = @ - 1]
             /\ \E S \in SUBSET active : tran' = Fail(S)
          \/ ~Found(m.tran) /\ UNCHANGED <<unseen, tran>>
       /\ UNCHANGED <<age, at>>
    \/ /\ m.op = "commit"
       /\ tran' = [tran EXCEPT ![m.tran] = IF Found(m.tran) THEN "committed" ELSE @]
       /\ CommitAnswer(m.by)
       /\ UNCHANGED <<age, unseen>>
    \/ /\ m.op = "abort"
       /\ tran' = Fail({m.tran})
       /\ UNCHANGED <<age, unseen, at>>
    \/ /\ m.op = "tick"
       /\ age' = [p \in Clients |->
                    IF p \in active /\ age[p] + 1 < MaxAge THEN age[p] + 1
                    ELSE age[p]]
       /\ tran' = Fail({p \in active : TooOld(p)})
       /\ UNCHANGED <<unseen, at>>

Get(m) ==
    /\ Dispatch(m)
    /\ UNCHANGED <<call, busy, stopped>>

(* RunExclusive and Persist: the checker sends the merger a todo, and      *)
(* handles no other message until that is done.                            *)
GetRun(m) ==
    /\ m.op \in {"runExcl", "persist"}
    /\ busy' = TRUE
    /\ IF m.op = "runExcl" THEN \E S \in SUBSET active : tran' = Fail(S)
       ELSE UNCHANGED tran
    /\ UNCHANGED <<at, call, age, unseen, stopped>>

(* The nil that Stop puts: the checker returns, and so does the ticker. *)
GetStop(m) ==
    /\ m.op = "stop"
    /\ stopped' = TRUE
    /\ UNCHANGED <<at, call, tran, age, unseen, busy>>

RunDone ==
    /\ busy
    /\ busy' = FALSE
    /\ Answer(Admin, "idle")
    /\ UNCHANGED <<items, call, tran, age, unseen, stopped>>

checker ==
    \/ /\ ~stopped /\ ~busy /\ items # <<>>
       /\ \E i \in {best} :
            /\ Get(items[i]) \/ GetRun(items[i]) \/ GetStop(items[i])
            /\ items' = Delete(items, i)
    \/ RunDone

Next ==
    \/ checker
    \/ \E p \in Threads : Put(p)
    \/ \E p \in Clients : \/ CallStart(p) \/ CallAccess(p)
                          \/ CallCommit(p) \/ CallAbort(p)
    \/ \E op \in {"runExcl", "persist"} : CallAdmin(op)
    \/ CallTick
    \/ Stop

Spec == Init /\ [][Next]_vars

(* The checker and the ticker are goroutines; the merger answers (see      *)
(* Pipeline).  A Put that was woken tests for room again and may find that *)
(* another thread has taken it, so the ticker gets its tick onto the queue *)
(* only if there is room from some time on.  Nothing is assumed of the     *)
(* clients.                                                                *)
FairSpec ==
    /\ Spec
    /\ WF_vars(checker)
    /\ WF_vars(Put(Ticker))
    /\ WF_vars(CallTick)
------------------------------------------------------------------------------
(* Properties *)

TypeOK ==
    /\ items \in Seq(Message) /\ Len(items) <= bufSize
    /\ at \in [Threads -> {"idle", "putting", "waiting", "done"}]
    /\ call \in [Threads -> Message \cup {NoCall}]
    /\ tran \in [Clients -> {"none", "active", "failed", "committed"}]
    /\ age \in [Clients -> 0 .. (MaxAge - 1)]
    /\ unseen \in [Clients -> Nat]
    /\ busy \in BOOLEAN /\ stopped \in BOOLEAN

(* "This maintains FIFO order within each transaction"                     *)
(* (priority_queue.go:22).  A commit has a higher priority than the reads  *)
(* and writes, which return before the checker has seen them; still, when  *)
(* a transaction commits, the checker has seen every one of them.          *)
CommitHasEverything ==
    \A p \in Clients : tran[p] = "committed" => unseen[p] = 0

(* Stop is handled last: the messages of transactions that were on the     *)
(* queue, commits among them, have been handled when the checker returns.  *)
StopComesLast ==
    [][stopped' /\ ~stopped => \A i \in DOMAIN items' : items'[i].tran = NoTran]_vars

(* A commit that is on the queue is answered, although it has to wait for  *)
(* its transaction's reads and writes, which have no higher priority than  *)
(* those of others, and although other transactions read without end, the  *)
(* transaction is aborted meanwhile, schema is changed, or the database is *)
(* shut down; only a commit queued after the end of the checker is not.    *)
CommitsAreAnswered ==
    \A p \in Clients :
        at[p] = "waiting" /\ tran[p] # "none" /\ ~stopped ~> at[p] = "done"

(* Some transaction goes on reading or writing for ever. *)
EndlessAccess == []<><<\E p \in Clients : CallAccess(p)>>_vars

(* A transaction whose client has gone away is ended by the ticks: however *)
(* full the queue was, they get room on it and are handled, although their *)
(* priority is low, once others stop reading and writing.  As long as they *)
(* do not stop, Get need never pick a tick.                                *)
AbandonedTransEnd ==
    EndlessAccess \/ \A p \in Clients : p \in active ~> (p \notin active \/ stopped)
==============================================================================
