------------------------------ MODULE Timestamps ------------------------------
(***************************************************************************)
(* Unique timestamps: the server's part, db19/timestamp.go, and the part   *)
(* of each client process, Thread.Timestamp in core/thread.go.             *)
(*                                                                         *)
(* The server hands out blocks and a client gives the values of its block  *)
(* one after the other: in the first half of a second a block is           *)
(* TsInitialBatch milliseconds, in the second half it is one millisecond   *)
(* with extra counting up (SuTimestamp).  A value is a pair of a time in   *)
(* milliseconds and extra, compared in that order.                         *)
(*                                                                         *)
(* The lengths of a second, of its first part and of the blocks are        *)
(* constants.  The clock of the server is a variable that may be set to    *)
(* anything.  tsLock of the client is held while the server answers, so a  *)
(* client that is fetching does nothing else.                              *)
(***************************************************************************)
EXTENDS Integers

CONSTANTS
    Clients,        \* client processes (the server's own threads are one)
    Second,         \* milliseconds in a second
    TsThreshold, TsInitialBatch,
    ExtraLimit,     \* 256, the values of extra, which is a uint8
    Ahead,          \* 990, how far ahead the timestamp starts
    MaxClock,       \* bound on the clock, in seconds
    MaxTime,        \* bound on timestamp
    AnyRestart      \* whether a restart may come at any time

ASSUME TimestampsAssumption ==
    /\ Second \in Nat \ {0}
    /\ TsThreshold \in Nat
    /\ TsInitialBatch \in Nat \ {0}
    /\ ExtraLimit \in Nat \ {0} /\ ExtraLimit # TsInitialBatch
    /\ Ahead \in Nat
    /\ MaxClock \in Nat /\ MaxTime \in Nat
    /\ AnyRestart \in BOOLEAN

NotFetching == -1
NotTicking == -1

VARIABLES
    clock,      \* Now().WithoutMs(), in seconds
    timestamp,  \* the server's timestamp, the next to hand out
    tick,       \* the time ticker has read and not yet applied
    tsCount, tsLimit, tsLast,   \* of each client process
    fetched,    \* the server's answer on its way to a client
    issued,     \* history: every value handed out, by whom, from which block
    last        \* history: the value each client handed out last

vars == <<clock, timestamp, tick, tsCount, tsLimit, tsLast, fetched, issued,
          last>>

Millisecond(ts) == ts % Second

Start(now) == now * Second + Ahead

Init ==
    /\ clock \in 0 .. MaxClock
    /\ timestamp = Start(clock)
    /\ tick = NotTicking
    /\ tsCount = [c \in Clients |-> 0]
    /\ tsLimit = [c \in Clients |-> 0]
    /\ tsLast = [c \in Clients |-> 0]
    /\ fetched = [c \in Clients |-> NotFetching]
    /\ issued = {}
    /\ last = [c \in Clients |-> <<-1, 0>>]
------------------------------------------------------------------------------
(* The server *)

(* The clock moves on, or is set. *)
Clock ==
    /\ clock' \in 0 .. MaxClock
    /\ UNCHANGED <<timestamp, tick, tsCount, tsLimit, tsLast, fetched, issued,
                   last>>

(* ticker, once a second: it reads the clock, *)
TickerRead ==
    /\ tick = NotTicking
    /\ tick' = clock * Second
    /\ UNCHANGED <<clock, timestamp, tsCount, tsLimit, tsLast, fetched, issued,
                   last>>

Forwards_Always(t) == TRUE

(* "only update timestamp forwards" *)
Forwards(t) == t > timestamp

(* and with tsLock held it brings the timestamp forward. *)
Ticker ==
    /\ tick # NotTicking
    /\ timestamp' = IF Forwards(tick) THEN tick ELSE timestamp
    /\ tick' = NotTicking
    /\ UNCHANGED <<clock, tsCount, tsLimit, tsLast, fetched, issued, last>>

Block_One(ts) == 1

(* How far Timestamp moves on from what it returns. *)
Block(ts) == IF Millisecond(ts) < TsThreshold THEN TsInitialBatch ELSE 1

(* StartTimestamps in a new server process; the clients have to start      *)
(* again too.  Unless AnyRestart, the clock has reached the second of the  *)
(* old server's timestamp, and its Ahead milliseconds were not used.       *)
Restart ==
    /\ AnyRestart \/ timestamp <= Start(clock)
    /\ timestamp' = Start(clock)
    /\ tick' = NotTicking
    /\ tsCount' = [c \in Clients |-> 0]
    /\ tsLimit' = [c \in Clients |-> 0]
    /\ fetched' = [c \in Clients |-> NotFetching]
    /\ UNCHANGED <<clock, tsLast, issued, last>>
------------------------------------------------------------------------------
(* The clients *)

(* A value of the block that starts at base. *)
HandOut(c, base, ts, extra) ==
    /\ issued' = issued \cup {[client |-> c, base |-> base, ts |-> ts,
                               extra |-> extra]}
    /\ last' = [last EXCEPT ![c] = <<ts, extra>>]

(* tsCount++ gives a value that is less than tsLimit. *)
MoreLeft(c) == tsCount[c] + 1 < tsLimit[c]

(* Timestamp, fast path.  The limit tells which kind of block it is. *)
Timestamp(c) ==
    /\ fetched[c] = NotFetching /\ MoreLeft(c)
    /\ tsCount' = [tsCount EXCEPT ![c] = @ + 1]
    /\ \/ /\ tsLimit[c] = TsInitialBatch
          /\ tsLast' = [tsLast EXCEPT ![c] = @ + 1]
          /\ HandOut(c, tsLast[c] - tsCount[c], tsLast[c] + 1, 0)
       \/ /\ tsLimit[c] # TsInitialBatch
          /\ HandOut(c, tsLast[c], tsLast[c], (tsCount[c] + 1) % ExtraLimit)
          /\ UNCHANGED tsLast
    /\ UNCHANGED <<clock, timestamp, tick, tsLimit, fetched>>

(* Timestamp, slow path: the server's Timestamp() for this client. *)
Fetch(c) ==
    /\ fetched[c] = NotFetching /\ ~MoreLeft(c)
    /\ timestamp + Block(timestamp) <= MaxTime
    /\ fetched' = [fetched EXCEPT ![c] = timestamp]
    /\ timestamp' = timestamp + Block(timestamp)
    /\ UNCHANGED <<clock, tick, tsCount, tsLimit, tsLast, issued, last>>

(* How many values the block has. *)
Limit(ts) ==
    IF Millisecond(ts) < TsThreshold THEN TsInitialBatch ELSE ExtraLimit

(* The answer arrives. *)
Fetched(c) ==
    /\ fetched[c] # NotFetching
    /\ tsLast' = [tsLast EXCEPT ![c] = fetched[c]]
    /\ tsCount' = [tsCount EXCEPT ![c] = 0]
    /\ tsLimit' = [tsLimit EXCEPT ![c] = Limit(fetched[c])]
    /\ HandOut(c, fetched[c], fetched[c], 0)
    /\ fetched' = [fetched EXCEPT ![c] = NotFetching]
    /\ UNCHANGED <<clock, timestamp, tick>>

(* tsExpire, once a second after the first fetch: the rest of the block is *)
(* not used.                                                               *)
Expire(c) ==
    /\ fetched[c] = NotFetching /\ tsLimit[c] # 0
    /\ tsCount' = [tsCount EXCEPT ![c] = tsLimit[c] + 1]
    /\ UNCHANGED <<clock, timestamp, tick, tsLimit, tsLast, fetched, issued,
                   last>>

Next ==
    \/ Clock \/ TickerRead \/ Ticker \/ Restart
    \/ \E c \in Clients : Timestamp(c) \/ Fetch(c) \/ Fetched(c) \/ Expire(c)

Spec == Init /\ [][Next]_vars
------------------------------------------------------------------------------
(* Properties *)

(* The type of issued. *)
Value == [client : Clients, base : Nat, ts : Nat, extra : Nat]

TypeOK ==
    /\ clock \in 0 .. MaxClock
    /\ timestamp \in Nat
    /\ tick \in Nat \cup {NotTicking}
    /\ tsCount \in [Clients -> Nat]
    /\ tsLimit \in [Clients -> {0, TsInitialBatch, ExtraLimit}]
    /\ tsLast \in [Clients -> Nat]
    /\ fetched \in [Clients -> Nat \cup {NotFetching}]
    /\ issued \subseteq Value
    /\ last \in [Clients -> Int \X Nat]

Before(v, w) == v[1] < w[1] \/ (v[1] = w[1] /\ v[2] < w[2])

(* No two client processes ever give the same timestamp, whatever the      *)
(* clock does, whenever ticker moves the timestamp and however the fetches *)
(* interleave: a client stays within its block and the server skips it.    *)
Unique ==
    \A v, w \in issued : v.ts = w.ts /\ v.extra = w.extra => v.client = w.client

(* The timestamps of one client process only go up. *)
Increasing ==
    [][\A c \in Clients : last'[c] # last[c] => Before(last[c], last'[c])]_vars
==============================================================================
