--------------------------------- MODULE Stor ---------------------------------
(***************************************************************************)
(* Allocating, flushing and closing the storage: db19/stor/stor.go.        *)
(*                                                                         *)
(* Alloc is lock free: a step below is one atomic operation of the code    *)
(* (a load, an add, a store) with the local computation after it.  Only    *)
(* extend takes the lock.  The threads of Allocators call Alloc.  FlushTo  *)
(* is called by persist, in the merger, with an offset allocated before;   *)
(* it starts the goroutine flusher unless that is running.  Close is       *)
(* called once, after the merger has stopped.                              *)
(*                                                                         *)
(* chunks is a slice that only grows: its length is all that matters.      *)
(* What is in the storage is left out.                                     *)
(***************************************************************************)
EXTENDS Integers, Sequences

CONSTANTS
    Allocators,     \* threads
    chunksize,
    closedSize,     \* larger than any size: the storage is closed
    maxRetries,
    StartSize,      \* size of the file when it is opened
    MaxAllocs,      \* bound on the calls of Alloc
    MaxFlushes      \* bound on the calls of FlushTo

None == "none"    \* no allocator
Open == -1        \* no size

(* chunksize is a power of two and shift its logarithm *)
ChunkStart(c) == c * chunksize

(* offsetToChunk(offset) = c *)
IsChunk(offset, c) == ChunkStart(c) <= offset /\ offset < ChunkStart(c + 1)

(* The chunks of a file of this size when it is opened (mmapstor.go). *)
FileChunks(sz) == (sz + chunksize - 1) \div chunksize

ASSUME StorAssumption ==
    /\ None \notin Allocators
    /\ chunksize \in Nat \ {0}
    /\ closedSize \in Nat /\ StartSize \in Nat
    /\ ChunkStart(FileChunks(StartSize)) < closedSize
    /\ maxRetries \in Nat \ {0}
    /\ MaxAllocs \in Nat /\ MaxFlushes \in Nat

VARIABLES
    size, allocChunk,
    chunks,         \* the number of chunks
    lock,           \* the thread that is extending, or None
    pc,             \* where each allocator is
    n, loaded, try, \* its locals: bytes wanted, allocChunk loaded, failures
    started,        \* calls of Alloc so far
    allocs,         \* history: the allocations returned, in order
    closedAt,       \* the size that Close took, or Open
    prevFlushChunk, curFlushChunk, flushes,
    flushChan,      \* whether the one place of the channel is taken
    flushTo,        \* where FlushTo is
    flusher,        \* where flusher is, and its locals
    closer,         \* where Close is
    requests,       \* calls of FlushTo so far
    dirty           \* history: chunks requested to be flushed and not flushed

allocVars == <<size, allocChunk, chunks, lock, pc, n, loaded, try, started,
               allocs>>
flushVars == <<prevFlushChunk, curFlushChunk, flushes, flushChan, flushTo,
               flusher, requests, dirty>>
closeVars == <<closedAt, closer>>
vars == <<allocVars,
                   flushVars, closeVars>>

(* "ignore trailing zero bytes": size may be less than that of the file. *)
Init ==
    /\ chunks = FileChunks(StartSize)
    /\ allocChunk = chunks - 1
    /\ size \in {sz \in 0 .. StartSize : ChunkStart(allocChunk) <= sz}
    /\ lock = None
    /\ pc = [t \in Allocators |-> "idle"]
    /\ n = [t \in Allocators |-> 1]
    /\ loaded = [t \in Allocators |-> 0]
    /\ try = [t \in Allocators |-> 0]
    /\ started = 0
    /\ allocs = <<>>
    /\ prevFlushChunk = IF chunks = 0 THEN 0 ELSE chunks - 1
    /\ curFlushChunk = 0
    /\ flushes = 0
    /\ flushChan = FALSE
    /\ flushTo = "idle"
    /\ flusher = [at |-> "none", len |-> 0, c |-> 0, cur |-> 0]
    /\ requests = 0
    /\ dirty = {}
    /\ closedAt = Open
    /\ closer = "open"
------------------------------------------------------------------------------
(* Alloc *)

Goto(t, where) == pc' = [pc EXCEPT ![t] = where]

Call(t, bytes) ==
    /\ pc[t] = "idle" /\ started < MaxAllocs
    /\ started' = started + 1
    /\ n' = [n EXCEPT ![t] = bytes]
    /\ try' = [try EXCEPT ![t] = 0]
    /\ loaded' = [loaded EXCEPT ![t] = allocChunk]
    /\ Goto(t, "add")
    /\ UNCHANGED <<size, allocChunk, chunks, lock, allocs,
                   flushVars, closeVars>>

(* The next time round the loop, or the panic. *)
Retry(t) ==
    /\ pc[t] = "retry"
    /\ IF try[t] < maxRetries
       THEN loaded' = [loaded EXCEPT ![t] = allocChunk] /\ Goto(t, "add")
       ELSE UNCHANGED loaded /\ Goto(t, "panic")
    /\ UNCHANGED <<size, allocChunk, chunks, lock, n, try, started, allocs,
                   flushVars, closeVars>>

Fits_Start(t, newsize) == IsChunk(newsize - n[t], loaded[t])

(* The end is in the chunk loaded before.  "this check catches two cases:  *)
(* allocation straddled a chunk boundary, another thread bumped us into    *)
(* the next chunk".                                                        *)
Fits(t, newsize) == IsChunk(newsize - 1, loaded[t])

Add(t) ==
    LET newsize == size + n[t]
    IN  /\ pc[t] = "add"
        /\ size' = newsize
        /\ \/ /\ newsize >= closedSize
              /\ Goto(t, "exited")      \* "stor: use after close"
              /\ UNCHANGED <<try, allocs>>
           \/ /\ newsize < closedSize /\ Fits(t, newsize)
              /\ Goto(t, "idle")
              /\ allocs' = Append(allocs, [off |-> size, n |-> n[t],
                                          late |-> closedAt # Open])
              /\ UNCHANGED try
           \/ /\ newsize < closedSize /\ ~Fits(t, newsize)
              /\ Goto(t, "extend")
              /\ try' = [try EXCEPT ![t] = @ + 1]
              /\ UNCHANGED allocs
        /\ UNCHANGED <<allocChunk, chunks, lock, n, loaded, started,
                   flushVars, closeVars>>

(* The test before the lock is taken. *)
Lock_Early(t) ==
    /\ pc[t] = "extend"
    /\ IF loaded[t] + 1 < chunks
       THEN Goto(t, "retry") /\ UNCHANGED lock
       ELSE lock = None /\ Goto(t, "get") /\ lock' = t
    /\ UNCHANGED <<size, allocChunk, chunks, n, loaded, try, started, allocs,
                   flushVars, closeVars>>

(* extend up to the test: "another thread beat us to it". *)
Lock(t) ==
    /\ pc[t] = "extend" /\ lock = None
    /\ IF loaded[t] + 1 < chunks
       THEN Goto(t, "retry") /\ UNCHANGED lock
       ELSE Goto(t, "get") /\ lock' = t
    /\ UNCHANGED <<size, allocChunk, chunks, n, loaded, try, started, allocs,
                   flushVars, closeVars>>

(* chunks.Store *)
AddChunk(t) ==
    /\ pc[t] = "get"
    /\ chunks' = chunks + 1
    /\ Goto(t, "size")
    /\ UNCHANGED <<size, allocChunk, lock, n, loaded, try, started, allocs,
                   flushVars, closeVars>>

NextSize_OffByOne(t) == ChunkStart(loaded[t])

(* "set size to start of chunk, to handle straddle" *)
NextSize(t) == ChunkStart(loaded[t] + 1)

SetSize(t) ==
    /\ pc[t] = "size"
    /\ size' = NextSize(t)
    /\ Goto(t, "inc")
    /\ UNCHANGED <<allocChunk, chunks, lock, n, loaded, try, started, allocs,
                   flushVars, closeVars>>

(* allocChunk.Add(1) and the end of extend *)
NextChunk(t) ==
    /\ pc[t] = "inc"
    /\ allocChunk' = allocChunk + 1
    /\ lock' = None
    /\ Goto(t, "retry")
    /\ UNCHANGED <<size, chunks, n, loaded, try, started, allocs,
                   flushVars, closeVars>>
------------------------------------------------------------------------------
(* FlushTo and flusher *)

(* curFlushChunk.Store, for the chunk of the state just written.  All that *)
(* was written since the last request has to be flushed.                   *)
FlushTo(offset) ==
    /\ flushTo = "idle" /\ closer = "open" /\ requests < MaxFlushes
    /\ \E c \in 0 .. allocChunk :
        /\ IsChunk(offset, c)
        /\ c >= curFlushChunk
        /\ curFlushChunk' = c
        /\ dirty' = dirty \cup
            (IF requests = 0 THEN prevFlushChunk ELSE curFlushChunk) .. c
    /\ requests' = requests + 1
    /\ flushTo' = "add"
    /\ UNCHANGED <<prevFlushChunk, flushes, flushChan, flusher,
                   allocVars, closeVars>>

(* flushes.Add(1): "flush requested" *)
FlushRequest ==
    /\ flushTo = "add"
    /\ flushes' = flushes + 1
    /\ flushTo' = "send"
    /\ UNCHANGED <<prevFlushChunk, curFlushChunk, flushChan, flusher, requests,
                   dirty, allocVars, closeVars>>

(* The select: start flusher, or "flush already running". *)
FlushStart ==
    /\ flushTo = "send"
    /\ IF flushChan THEN UNCHANGED <<flushChan, flusher>>
       ELSE flushChan' = TRUE /\ flusher' = [flusher EXCEPT !.at = "swap"]
    /\ flushTo' = "idle"
    /\ UNCHANGED <<prevFlushChunk, curFlushChunk, flushes, requests, dirty,
                   allocVars, closeVars>>

(* flushes.Swap(0), before the loop and after each flush. *)
FlusherSwap ==
    /\ flusher.at = "swap"
    /\ flushes' = 0
    /\ flusher' = [flusher EXCEPT !.at = IF flushes > 0 THEN "chunks"
                                                     ELSE "receive"]
    /\ UNCHANGED <<prevFlushChunk, curFlushChunk, flushChan, flushTo, requests,
                   dirty, allocVars, closeVars>>

FlushLoadChunks ==
    /\ flusher.at = "chunks"
    /\ flusher' = [flusher EXCEPT !.at = "cur", !.len = chunks]
    /\ UNCHANGED <<prevFlushChunk, curFlushChunk, flushes, flushChan, flushTo,
                   requests, dirty, allocVars, closeVars>>

FlushLoadCur ==
    /\ flusher.at = "cur"
    /\ flusher' = [flusher EXCEPT !.at = "flush", !.cur = curFlushChunk,
                                  !.c = prevFlushChunk]
    /\ UNCHANGED <<prevFlushChunk, curFlushChunk, flushes, flushChan, flushTo,
                   requests, dirty, allocVars, closeVars>>

(* impl.Flush(chunks[c]); the index may be past the chunks loaded. *)
FlushChunk ==
    /\ flusher.at = "flush" /\ flusher.c <= flusher.cur
    /\ IF flusher.c < flusher.len
       THEN /\ dirty' = dirty \ {flusher.c}
            /\ flusher' = [flusher EXCEPT !.c = @ + 1]
       ELSE /\ flusher' = [flusher EXCEPT !.at = "panic"]
            /\ UNCHANGED dirty
    /\ UNCHANGED <<prevFlushChunk, curFlushChunk, flushes, flushChan, flushTo,
                   requests, allocVars, closeVars>>

(* Requests that came during the flush are taken for served. *)
FlushDone_NoLoop ==
    /\ flusher.at = "flush" /\ flusher.c > flusher.cur
    /\ prevFlushChunk' = flusher.cur
    /\ flushes' = 0
    /\ flusher' = [flusher EXCEPT !.at = "receive"]
    /\ UNCHANGED <<curFlushChunk, flushChan, flushTo, requests, dirty,
                   allocVars, closeVars>>

FlushDone ==
    /\ flusher.at = "flush" /\ flusher.c > flusher.cur
    /\ prevFlushChunk' = flusher.cur
    /\ flusher' = [flusher EXCEPT !.at = "swap"]
    /\ UNCHANGED <<curFlushChunk, flushes, flushChan, flushTo, requests, dirty,
                   allocVars, closeVars>>

(* <-flushChan *)
FlusherEnd ==
    /\ flusher.at = "receive"
    /\ flushChan' = FALSE
    /\ flusher' = [flusher EXCEPT !.at = "none"]
    /\ UNCHANGED <<prevFlushChunk, curFlushChunk, flushes, flushTo, requests,
                   dirty, allocVars, closeVars>>
------------------------------------------------------------------------------
(* Close *)

(* size.Swap(closedSize) *)
Close ==
    /\ closer = "open" /\ flushTo = "idle"
    /\ size' = closedSize
    /\ closedAt' = size
    /\ closer' = "wait"
    /\ UNCHANGED <<allocChunk, chunks, lock, pc, n, loaded, try, started,
                   allocs, flushVars>>

(* flushWait: the channel becomes free, or five seconds pass.  Then        *)
(* impl.Close(size): the file is truncated to the size taken before.       *)
FlushWait ==
    /\ closer = "wait"
    /\ closer' \in (IF flushChan THEN {"timedout"} ELSE {"flushed", "timedout"})
    /\ UNCHANGED <<allocVars, flushVars, closedAt>>

Next ==
    \/ \E t \in Allocators :
        \/ \E bytes \in 1 .. chunksize : Call(t, bytes)
        \/ Retry(t) \/ Add(t) \/ Lock(t) \/ AddChunk(t) \/ SetSize(t)
        \/ NextChunk(t)
    \/ \E i \in DOMAIN allocs : FlushTo(allocs[i].off)
    \/ FlushRequest \/ FlushStart
    \/ FlusherSwap \/ FlushLoadChunks \/ FlushLoadCur \/ FlushChunk
    \/ FlushDone \/ FlusherEnd
    \/ Close \/ FlushWait

Spec == Init /\ [][Next]_vars
------------------------------------------------------------------------------
(* Properties *)

AllocTypeOK ==
    /\ size \in Nat /\ chunks \in Nat /\ allocChunk \in Nat \cup {-1}
    /\ lock \in Allocators \cup {None}
    /\ pc \in [Allocators -> {"idle", "add", "extend", "get", "size", "inc",
                              "retry", "panic", "exited"}]
    /\ n \in [Allocators -> 1 .. chunksize]
    /\ loaded \in [Allocators -> Nat \cup {-1}]
    /\ try \in [Allocators -> 0 .. maxRetries]
    /\ started \in 0 .. MaxAllocs
    /\ allocs \in Seq([off : Nat, n : 1 .. chunksize, late : BOOLEAN])
    /\ closedAt \in Nat \cup {Open}
    /\ closer \in {"open", "wait", "flushed", "timedout"}

FlushTypeOK ==
    /\ prevFlushChunk \in Nat /\ curFlushChunk \in Nat
    /\ flushes \in 0 .. MaxFlushes /\ requests \in 0 .. MaxFlushes
    /\ flushChan \in BOOLEAN
    /\ flushChan <=> flusher.at # "none"
    /\ flushTo \in {"idle", "add", "send"}
    /\ flusher \in [at : {"none", "swap", "chunks", "cur", "flush", "receive",
                          "panic"},
                    len : Nat, c : Nat, cur : Nat]
    /\ dirty \subseteq Nat

(* The types; and the channel is full just while flusher runs. *)
TypeOK == AllocTypeOK /\ FlushTypeOK

End(a) == a.off + a.n

(* Alloc: no two allocations overlap, none straddles a chunk boundary, and *)
(* the chunk of each is mapped, however the loads, adds and stores of the  *)
(* threads interleave with an extend that sets the size back.              *)
AllocsAreDisjoint ==
    \A i \in DOMAIN allocs :
        /\ \A j \in DOMAIN allocs : i < j => End(allocs[i]) <= allocs[j].off
        /\ \E c \in 0 .. (chunks - 1) :
                /\ ChunkStart(c) <= allocs[i].off
                /\ End(allocs[i]) <= ChunkStart(c + 1)

(* An Alloc that has to try again does so in a later chunk: the waits for  *)
(* the lock see to it, so the increments wasted while allocChunk lags cost *)
(* no more than one of the maxRetries tries for each new chunk.            *)
RetriesMoveOn ==
    [][\A t \in Allocators : pc[t] = "retry" /\ pc'[t] = "add"
            => loaded'[t] > loaded[t]]_vars

(* Close takes a size that covers every allocation returned before: the    *)
(* file is not cut short.                                                  *)
CloseKeepsAllocs ==
    closedAt # Open =>
        \A i \in DOMAIN allocs : ~allocs[i].late => End(allocs[i]) <= closedAt

(* What the flush that is running and the next one will flush. *)
Reach ==
    IF flusher.at = "flush"
    THEN (flusher.c .. flusher.cur) \cup (flusher.cur .. curFlushChunk)
    ELSE prevFlushChunk .. curFlushChunk

(* What the flush that is running, if any, will flush. *)
Pending ==
    CASE flusher.at \in {"chunks", "cur"} -> Reach
      [] flusher.at = "flush" -> flusher.c .. flusher.cur
      [] OTHER -> {}

(* FlushTo and flusher: no flush that was requested is taken for done.  A  *)
(* chunk that is not flushed yet is still to be flushed by the flush that  *)
(* runs; or else a request is counted in flushes, or about to be, and the  *)
(* next flush does not start behind the chunk nor end before it.  When     *)
(* that flush is made is another matter: it may be left to the next call   *)
(* of FlushTo.                                                             *)
RequestsAreKept ==
    flusher.at # "panic" =>
        /\ dirty \subseteq Reach
        /\ flushes = 0 /\ flushTo # "add" => dirty \subseteq Pending

(* flushWait "waits up to 5 seconds for flushes to finish" (stor.go:254):  *)
(* when it has not timed out, nothing requested is left to be flushed.     *)
FlushWaitFlushes == closer = "flushed" => dirty = {}
==============================================================================
