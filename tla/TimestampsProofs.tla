--------------------------- MODULE TimestampsProofs ---------------------------
(***************************************************************************)
(* Proofs that timestamps are unique and that those of a client increase,  *)
(* for any number of clients and any lengths of the blocks, provided the   *)
(* server is only restarted when the clock has caught up with it.          *)
(***************************************************************************)
EXTENDS Timestamps, TLAPS

Disjoint(a, b) == a + Block(a) <= b \/ b + Block(b) <= a

(* The start of the block a client is using. *)
CurBase(c) ==
    IF tsLimit[c] = TsInitialBatch THEN tsLast[c] - tsCount[c] ELSE tsLast[c]

(* Every value lies in its block, and the server is past the block. *)
InBlocks ==
    \A v \in issued :
        /\ v.base <= v.ts /\ v.ts < v.base + Block(v.base)
        /\ v.base + Block(v.base) <= timestamp

(* A block is used by one client, and the blocks do not overlap. *)
OneClientPerBlock ==
    \A v, w \in issued :
        \/ v.base = w.base /\ v.client = w.client
        \/ Disjoint(v.base, w.base)

(* A block on its way to a client is nobody else's. *)
FetchedIsFree ==
    \A c \in Clients : fetched[c] # NotFetching =>
        /\ fetched[c] + Block(fetched[c]) <= timestamp
        /\ last[c][1] < fetched[c]
        /\ \A v \in issued : Disjoint(v.base, fetched[c])
        /\ \A d \in Clients \ {c} : fetched[d] # NotFetching =>
                Disjoint(fetched[c], fetched[d])

(* A client that has values left has used the first ones of its block. *)
CurIsOwn ==
    \A c \in Clients : MoreLeft(c) =>
        /\ \E v \in issued : v.client = c /\ v.base = CurBase(c)
        /\ tsLimit[c] = TsInitialBatch => Block(CurBase(c)) = TsInitialBatch
        /\ last[c][1] = tsLast[c]
        /\ last[c][2] = IF tsLimit[c] = TsInitialBatch THEN 0 ELSE tsCount[c]

LastIsPast == \A c \in Clients : last[c][1] < timestamp

IInv ==
    /\ TypeOK /\ InBlocks /\ OneClientPerBlock /\ FetchedIsFree /\ CurIsOwn
    /\ LastIsPast

(* A block is at least one millisecond. *)
LEMMA BlockType ==
    ASSUME NEW ts \in Nat
    PROVE  Block(ts) \in Nat /\ Block(ts) >= 1
BY TimestampsAssumption DEF Block

(* extra does not wrap within a block. *)
LEMMA SmallMod ==
    ASSUME NEW n \in Nat, NEW m \in Nat, n < m
    PROVE  n % m = n
OBVIOUS

(* The start is after the beginning of time. *)
LEMMA StartType ==
    ASSUME NEW now \in Nat
    PROVE  Start(now) \in Nat
BY TimestampsAssumption DEF Start

(* The server and the clients start with nothing handed out. *)
THEOREM InitIInv == Init => IInv
BY TimestampsAssumption, StartType
   DEF Init, IInv, TypeOK, InBlocks, OneClientPerBlock, FetchedIsFree, CurIsOwn,
       LastIsPast, MoreLeft, NotFetching, NotTicking

(* The clock and the reading of it by ticker change nothing else. *)
LEMMA ClockStep == ASSUME IInv, Clock \/ TickerRead PROVE IInv'
<1> USE TimestampsAssumption
<1>1. TypeOK'
  BY DEF IInv, TypeOK, Clock, TickerRead
<1>2. QED
  BY <1>1 DEF IInv, Clock, TickerRead, InBlocks, OneClientPerBlock, FetchedIsFree,
     CurIsOwn, LastIsPast, MoreLeft, CurBase, Disjoint

(* Whoever moves the timestamp forward and hands out nothing leaves every  *)
(* block behind it.                                                        *)
LEMMA ForwardStep ==
    ASSUME IInv, timestamp' \in Nat, timestamp' >= timestamp, TypeOK',
           UNCHANGED <<issued, last, tsLast>>,
           \A c \in Clients : fetched'[c] \in {fetched[c], NotFetching},
           \A c \in Clients : MoreLeft(c)' => /\ MoreLeft(c)
                                             /\ tsLimit'[c] = tsLimit[c]
                                             /\ tsCount'[c] = tsCount[c]
    PROVE  IInv'
<1>1. InBlocks'
  <2> SUFFICES ASSUME NEW v \in issued
               PROVE  /\ v.base <= v.ts /\ v.ts < v.base + Block(v.base)
                      /\ v.base + Block(v.base) <= timestamp'
    BY DEF InBlocks
  <2>1. v.base \in Nat
    BY DEF IInv, TypeOK, Value
  <2> QED
    BY <2>1, BlockType DEF IInv, InBlocks, TypeOK
<1>2. OneClientPerBlock'
  BY DEF IInv, OneClientPerBlock, Disjoint
<1>3. FetchedIsFree'
  <2> SUFFICES ASSUME NEW c \in Clients, fetched'[c] # NotFetching
               PROVE  /\ fetched[c] + Block(fetched[c]) <= timestamp'
                      /\ last[c][1] < fetched[c]
                      /\ \A v \in issued : Disjoint(v.base, fetched[c])
                      /\ \A d \in Clients \ {c} : fetched'[d] # NotFetching =>
                                Disjoint(fetched[c], fetched'[d])
    BY DEF FetchedIsFree, Disjoint
  <2>1. fetched'[c] = fetched[c] /\ fetched[c] \in Nat
    BY DEF IInv, TypeOK
  <2>2. fetched[c] + Block(fetched[c]) <= timestamp'
    BY <2>1, BlockType DEF IInv, FetchedIsFree, TypeOK
  <2> QED
    BY <2>1, <2>2 DEF IInv, FetchedIsFree
<1>4. CurIsOwn'
  BY DEF IInv, CurIsOwn, CurBase
<1>5. LastIsPast'
  BY DEF IInv, LastIsPast, TypeOK
<1>6. QED
  BY <1>1, <1>2, <1>3, <1>4, <1>5 DEF IInv

(* ticker only moves the timestamp forwards. *)
LEMMA TickerStep == ASSUME IInv, Ticker PROVE IInv'
<1>1. TypeOK'
  BY DEF IInv, TypeOK, Ticker, NotTicking
<1>2. timestamp' \in Nat /\ timestamp' >= timestamp
  BY DEF IInv, TypeOK, Ticker, Forwards, NotTicking
<1>3. QED
  BY <1>1, <1>2, ForwardStep DEF Ticker, MoreLeft

(* A client that lets its block go has no values left. *)
LEMMA ExpireStep ==
    ASSUME IInv, NEW c \in Clients, Expire(c) PROVE IInv'
<1>1. TypeOK'
  BY TimestampsAssumption DEF IInv, TypeOK, Expire
<1>2. timestamp' \in Nat /\ timestamp' >= timestamp
  BY DEF IInv, TypeOK, Expire
<1>3. ASSUME NEW d \in Clients, MoreLeft(d)'
      PROVE  MoreLeft(d) /\ tsLimit'[d] = tsLimit[d] /\ tsCount'[d] = tsCount[d]
  BY <1>3, TimestampsAssumption DEF Expire, MoreLeft, IInv, TypeOK
<1>4. QED
  BY <1>1, <1>2, <1>3, ForwardStep DEF Expire

(* A restart that is late enough starts past every block. *)
LEMMA RestartStep ==
    ASSUME ~AnyRestart, IInv, Restart PROVE IInv'
<1>1. TypeOK'
  BY TimestampsAssumption, StartType DEF IInv, TypeOK, Restart, NotTicking
<1>2. timestamp' \in Nat /\ timestamp' >= timestamp
  BY StartType DEF IInv, TypeOK, Restart
<1>3. ASSUME NEW d \in Clients PROVE ~MoreLeft(d)'
  BY DEF Restart, MoreLeft
<1>4. QED
  BY <1>1, <1>2, <1>3, ForwardStep DEF Restart

(* The server hands out the next block. *)
LEMMA FetchStep ==
    ASSUME IInv, NEW c \in Clients, Fetch(c) PROVE IInv'
<1> DEFINE b == timestamp
<1>1. b \in Nat /\ Block(b) \in Nat /\ Block(b) >= 1
  BY BlockType DEF IInv, TypeOK
<1>2. /\ timestamp' = b + Block(b)
      /\ fetched' = [fetched EXCEPT ![c] = b]
      /\ UNCHANGED <<clock, tick, tsCount, tsLimit, tsLast, issued, last>>
  BY DEF Fetch
<1> HIDE DEF b
<1>3. TypeOK'
  BY <1>1, <1>2 DEF IInv, TypeOK
<1>4. ASSUME NEW v \in issued
      PROVE  v.base \in Nat /\ Block(v.base) \in Nat /\ v.base + Block(v.base) <= b
  BY BlockType DEF IInv, TypeOK, Value, InBlocks, b
<1>5. InBlocks'
  BY <1>1, <1>2, <1>4 DEF IInv, InBlocks
<1>6. OneClientPerBlock'
  BY <1>2 DEF IInv, OneClientPerBlock, Disjoint
<1>7. FetchedIsFree'
  <2> SUFFICES ASSUME NEW d \in Clients, fetched'[d] # NotFetching
               PROVE  /\ fetched'[d] + Block(fetched'[d]) <= timestamp'
                      /\ last[d][1] < fetched'[d]
                      /\ \A v \in issued : Disjoint(v.base, fetched'[d])
                      /\ \A e \in Clients \ {d} : fetched'[e] # NotFetching =>
                                Disjoint(fetched'[d], fetched'[e])
    BY <1>2 DEF FetchedIsFree, Disjoint
  <2>1. ASSUME NEW e \in Clients, fetched[e] # NotFetching
        PROVE  /\ fetched[e] \in Nat /\ Block(fetched[e]) \in Nat
               /\ fetched[e] + Block(fetched[e]) <= b
    BY <2>1, BlockType DEF IInv, TypeOK, FetchedIsFree, b
  <2>2. CASE d = c
    <3>1. fetched'[d] = b
      BY <1>2, <2>2 DEF IInv, TypeOK
    <3>2. last[d][1] < b
      BY DEF IInv, LastIsPast, b
    <3>3. \A v \in issued : Disjoint(v.base, b)
      BY <1>4 DEF Disjoint
    <3>4. ASSUME NEW e \in Clients \ {d}, fetched'[e] # NotFetching
          PROVE  Disjoint(b, fetched'[e])
      BY <1>2, <2>1, <2>2, <3>4 DEF Disjoint, IInv, TypeOK
    <3> QED
      BY <1>1, <1>2, <3>1, <3>2, <3>3, <3>4
  <2>3. CASE d # c
    <3>1. fetched'[d] = fetched[d]
      BY <1>2, <2>3 DEF IInv, TypeOK
    <3>2. fetched[d] + Block(fetched[d]) <= timestamp'
      BY <1>1, <1>2, <2>1, <3>1
    <3>3. ASSUME NEW e \in Clients \ {d}, fetched'[e] # NotFetching
          PROVE  Disjoint(fetched[d], fetched'[e])
      <4>1. CASE e = c
        BY <1>2, <2>1, <3>1, <4>1 DEF Disjoint, IInv, TypeOK
      <4>2. CASE e # c
        BY <1>2, <3>1, <3>3, <4>2 DEF IInv, TypeOK, FetchedIsFree
      <4> QED
        BY <4>1, <4>2
    <3> QED
      BY <3>1, <3>2, <3>3 DEF IInv, FetchedIsFree
  <2> QED
    BY <2>2, <2>3
<1>8. CurIsOwn'
  BY <1>2 DEF IInv, CurIsOwn, CurBase, MoreLeft
<1>9. LastIsPast'
  BY <1>1, <1>2 DEF IInv, LastIsPast, TypeOK, b
<1>10. QED
  BY <1>3, <1>5, <1>6, <1>7, <1>8, <1>9 DEF IInv

(* The answer of the server arrives, and its first value is handed out. *)
LEMMA FetchedStep ==
    ASSUME IInv, NEW c \in Clients, Fetched(c) PROVE IInv'
<1> DEFINE b == fetched[c]
           new == [client |-> c, base |-> b, ts |-> b, extra |-> 0]
<1>1. b \in Nat /\ Block(b) \in Nat /\ Block(b) >= 1 /\ b + Block(b) <= timestamp
  BY BlockType DEF IInv, TypeOK, Fetched, FetchedIsFree
<1>2. /\ tsLast' = [tsLast EXCEPT ![c] = b]
      /\ tsCount' = [tsCount EXCEPT ![c] = 0]
      /\ tsLimit' = [tsLimit EXCEPT ![c] = Limit(b)]
      /\ issued' = issued \cup {new}
      /\ last' = [last EXCEPT ![c] = <<b, 0>>]
      /\ fetched' = [fetched EXCEPT ![c] = NotFetching]
      /\ UNCHANGED <<clock, timestamp, tick>>
  BY DEF Fetched, HandOut
<1>3. \A v \in issued : Disjoint(v.base, b)
  BY DEF IInv, FetchedIsFree, Fetched
<1>4. \A d \in Clients \ {c} : fetched[d] # NotFetching => Disjoint(b, fetched[d])
  BY DEF IInv, FetchedIsFree, Fetched
<1> HIDE DEF b
<1>5. TypeOK'
  <2>1. new \in Value
    BY <1>1 DEF Value
  <2>2. Limit(b) \in {0, TsInitialBatch, ExtraLimit}
    BY DEF Limit
  <2> QED
    BY <1>1, <1>2, <2>1, <2>2 DEF IInv, TypeOK
<1>6. InBlocks'
  BY <1>1, <1>2 DEF IInv, InBlocks
<1>7. OneClientPerBlock'
  BY <1>1, <1>2, <1>3 DEF IInv, OneClientPerBlock, Disjoint
<1>8. FetchedIsFree'
  <2> SUFFICES ASSUME NEW d \in Clients, fetched'[d] # NotFetching
               PROVE  /\ fetched'[d] + Block(fetched'[d]) <= timestamp
                      /\ last'[d][1] < fetched'[d]
                      /\ \A v \in issued' : Disjoint(v.base, fetched'[d])
                      /\ \A e \in Clients \ {d} : fetched'[e] # NotFetching =>
                                Disjoint(fetched'[d], fetched'[e])
    BY <1>2 DEF FetchedIsFree, Disjoint
  <2>1. d # c /\ fetched'[d] = fetched[d] /\ last'[d] = last[d]
    BY <1>2 DEF IInv, TypeOK
  <2>2. ASSUME NEW e \in Clients \ {d}, fetched'[e] # NotFetching
        PROVE  Disjoint(fetched[d], fetched'[e])
    BY <1>2, <2>1, <2>2 DEF IInv, TypeOK, FetchedIsFree
  <2>3. Disjoint(new.base, fetched[d])
    BY <1>4, <2>1
  <2> QED
    BY <1>2, <2>1, <2>2, <2>3 DEF IInv, FetchedIsFree
<1>9. CurIsOwn'
  <2> SUFFICES ASSUME NEW d \in Clients, MoreLeft(d)'
               PROVE  /\ \E v \in issued' : v.client = d /\ v.base = CurBase(d)'
                      /\ tsLimit'[d] = TsInitialBatch
                            => Block(CurBase(d)') = TsInitialBatch
                      /\ last'[d][1] = tsLast'[d]
                      /\ last'[d][2] = IF tsLimit'[d] = TsInitialBatch THEN 0
                                       ELSE tsCount'[d]
    BY DEF CurIsOwn, Block, Millisecond
  <2>1. CASE d = c
    <3>1. tsLast'[d] = b /\ tsCount'[d] = 0 /\ tsLimit'[d] = Limit(b)
          /\ last'[d] = <<b, 0>>
      BY <1>2, <2>1 DEF IInv, TypeOK
    <3>2. CurBase(d)' = b
      BY <1>1, <3>1 DEF CurBase
    <3>3. Limit(b) = TsInitialBatch => Block(b) = TsInitialBatch
      BY TimestampsAssumption DEF Limit, Block
    <3>4. new \in issued' /\ new.client = d /\ new.base = CurBase(d)'
      BY <1>2, <2>1, <3>2
    <3>5. last'[d][1] = b /\ last'[d][2] = 0
      BY <3>1
    <3> QED
      BY <3>1, <3>2, <3>3, <3>4, <3>5
  <2>2. CASE d # c
    <3>1. /\ tsLast'[d] = tsLast[d] /\ tsCount'[d] = tsCount[d]
          /\ tsLimit'[d] = tsLimit[d] /\ last'[d] = last[d]
      BY <1>2, <2>2 DEF IInv, TypeOK
    <3>2. MoreLeft(d) /\ CurBase(d)' = CurBase(d)
      BY <3>1 DEF MoreLeft, CurBase
    <3> QED
      BY <1>2, <3>1, <3>2 DEF IInv, CurIsOwn
  <2> QED
    BY <2>1, <2>2
<1>10. LastIsPast'
  BY <1>1, <1>2 DEF IInv, LastIsPast, TypeOK
<1>11. QED
  BY <1>5, <1>6, <1>7, <1>8, <1>9, <1>10 DEF IInv

(* The next value of the block that a client is using. *)
LEMMA TimestampStep ==
    ASSUME IInv, NEW c \in Clients, Timestamp(c)
    PROVE  IInv' /\ last'[c][1] \in Nat /\ Before(last[c], last'[c])
<1> USE TimestampsAssumption
<1> DEFINE b == CurBase(c)
           ts == IF tsLimit[c] = TsInitialBatch THEN tsLast[c] + 1 ELSE tsLast[c]
           x == IF tsLimit[c] = TsInitialBatch THEN 0 ELSE tsCount[c] + 1
           new == [client |-> c, base |-> b, ts |-> ts, extra |-> x]
<1>1. MoreLeft(c) /\ fetched[c] = NotFetching
  BY DEF Timestamp
<1>2. PICK u \in issued : u.client = c /\ u.base = b
  BY <1>1 DEF IInv, CurIsOwn
<1>3. /\ b \in Nat /\ Block(b) \in Nat /\ Block(b) >= 1
      /\ b + Block(b) <= timestamp
  BY <1>2, BlockType DEF IInv, TypeOK, Value, InBlocks
<1>4. /\ tsCount[c] \in Nat /\ tsLast[c] \in Nat
      /\ tsLimit[c] \in {0, TsInitialBatch, ExtraLimit}
      /\ tsCount[c] + 1 < tsLimit[c]
  BY <1>1 DEF IInv, TypeOK, MoreLeft
<1>5. ts \in Nat /\ x \in Nat /\ b <= ts /\ ts < b + Block(b)
  BY <1>1, <1>3, <1>4 DEF IInv, CurIsOwn, CurBase
<1>6. (tsCount[c] + 1) % ExtraLimit = tsCount[c] + 1
          \/ tsLimit[c] = TsInitialBatch
  BY <1>4, SmallMod
<1>7. /\ tsCount' = [tsCount EXCEPT ![c] = @ + 1]
      /\ tsLast' = [tsLast EXCEPT ![c] = ts]
      /\ issued' = issued \cup {new}
      /\ last' = [last EXCEPT ![c] = <<ts, x>>]
      /\ UNCHANGED <<clock, timestamp, tick, tsLimit, fetched>>
  BY <1>6 DEF Timestamp, HandOut, CurBase, IInv, TypeOK
<1>8. last[c][1] = tsLast[c]
      /\ last[c][2] = IF tsLimit[c] = TsInitialBatch THEN 0 ELSE tsCount[c]
  BY <1>1 DEF IInv, CurIsOwn
<1>9. last'[c][1] \in Nat /\ Before(last[c], last'[c])
  <2>1. last'[c] = <<ts, x>>
    BY <1>7 DEF IInv, TypeOK
  <2> QED
    BY <1>4, <1>5, <1>8, <2>1 DEF Before
<1>10. CurBase(c)' = b /\ tsLimit'[c] = tsLimit[c]
  BY <1>4, <1>7 DEF CurBase, IInv, TypeOK
<1> HIDE DEF b, ts, x
<1>11. TypeOK'
  <2>1. new \in Value
    BY <1>3, <1>5 DEF Value
  <2> QED
    BY <1>4, <1>5, <1>7, <2>1 DEF IInv, TypeOK
<1>12. InBlocks'
  BY <1>3, <1>5, <1>7 DEF IInv, InBlocks
<1>13. OneClientPerBlock'
  BY <1>2, <1>7 DEF IInv, OneClientPerBlock, Disjoint
<1>14. FetchedIsFree'
  <2> SUFFICES ASSUME NEW d \in Clients, fetched[d] # NotFetching
               PROVE  /\ fetched[d] + Block(fetched[d]) <= timestamp
                      /\ last'[d][1] < fetched[d]
                      /\ \A v \in issued' : Disjoint(v.base, fetched[d])
                      /\ \A e \in Clients \ {d} : fetched[e] # NotFetching =>
                                Disjoint(fetched[d], fetched[e])
    BY <1>7 DEF FetchedIsFree, Disjoint
  <2>1. d # c /\ last'[d] = last[d]
    BY <1>1, <1>7 DEF IInv, TypeOK
  <2>2. Disjoint(new.base, fetched[d])
    BY <1>2 DEF IInv, FetchedIsFree
  <2> QED
    BY <1>7, <2>1, <2>2 DEF IInv, FetchedIsFree
<1>15. CurIsOwn'
  <2> SUFFICES ASSUME NEW d \in Clients, MoreLeft(d)'
               PROVE  /\ \E v \in issued' : v.client = d /\ v.base = CurBase(d)'
                      /\ tsLimit'[d] = TsInitialBatch
                            => Block(CurBase(d)') = TsInitialBatch
                      /\ last'[d][1] = tsLast'[d]
                      /\ last'[d][2] = IF tsLimit'[d] = TsInitialBatch THEN 0
                                       ELSE tsCount'[d]
    BY DEF CurIsOwn, Block, Millisecond
  <2>1. CASE d = c
    <3>1. tsLast'[d] = ts /\ last'[d] = <<ts, x>> /\ tsCount'[d] = tsCount[c] + 1
      BY <1>7, <2>1 DEF IInv, TypeOK
    <3>2. u \in issued' /\ u.client = d /\ u.base = CurBase(d)'
      BY <1>2, <1>7, <1>10, <2>1
    <3>3. tsLimit'[d] = TsInitialBatch => Block(CurBase(d)') = TsInitialBatch
      BY Zenon, <1>1, <1>10, <2>1 DEF IInv, CurIsOwn, b
    <3>4. last'[d][1] = ts /\ last'[d][2] = x
      BY <3>1
    <3> QED
      BY <1>10, <2>1, <3>1, <3>2, <3>3, <3>4 DEF x
  <2>2. CASE d # c
    <3>1. /\ tsLast'[d] = tsLast[d] /\ tsCount'[d] = tsCount[d]
          /\ tsLimit'[d] = tsLimit[d] /\ last'[d] = last[d]
      BY <1>7, <2>2 DEF IInv, TypeOK
    <3>2. MoreLeft(d) /\ CurBase(d)' = CurBase(d)
      BY <3>1 DEF MoreLeft, CurBase
    <3> QED
      BY <1>7, <3>1, <3>2 DEF IInv, CurIsOwn
  <2> QED
    BY <2>1, <2>2
<1>16. LastIsPast'
  BY <1>3, <1>5, <1>7 DEF IInv, LastIsPast, TypeOK
<1>17. QED
  BY <1>9, <1>11, <1>12, <1>13, <1>14, <1>15, <1>16 DEF IInv

(* Every step keeps the invariant. *)
THEOREM NextIInv ==
    ASSUME ~AnyRestart, IInv, [Next]_vars
    PROVE  IInv'
<1>1. CASE UNCHANGED vars
  BY <1>1 DEF vars, IInv, TypeOK, InBlocks, OneClientPerBlock, FetchedIsFree,
     CurIsOwn, LastIsPast, MoreLeft, CurBase, Disjoint
<1>2. CASE Clock \/ TickerRead \/ Ticker \/ Restart
  BY <1>2, ClockStep, TickerStep, RestartStep
<1>3. ASSUME NEW c \in Clients, Timestamp(c) \/ Fetch(c) \/ Fetched(c) \/ Expire(c)
      PROVE  IInv'
  BY <1>3, TimestampStep, FetchStep, FetchedStep, ExpireStep
<1>4. QED
  BY <1>1, <1>2, <1>3 DEF Next

(* Values of different blocks differ, and a block has one client. *)
LEMMA IInvUnique == IInv => Unique
<1> SUFFICES ASSUME IInv, NEW v \in issued, NEW w \in issued, v.ts = w.ts
             PROVE  v.client = w.client
  BY DEF Unique
<1>1. /\ v.base \in Nat /\ v.ts \in Nat /\ Block(v.base) \in Nat
      /\ w.base \in Nat /\ w.ts \in Nat /\ Block(w.base) \in Nat
  BY BlockType DEF IInv, TypeOK, Value
<1>2. /\ v.base <= v.ts /\ v.ts < v.base + Block(v.base)
      /\ w.base <= w.ts /\ w.ts < w.base + Block(w.base)
  BY DEF IInv, InBlocks
<1>3. ~Disjoint(v.base, w.base)
  BY <1>1, <1>2 DEF Disjoint
<1>4. QED
  BY <1>3 DEF IInv, OneClientPerBlock

(* Thread.Timestamp and the server's Timestamp: no two client processes    *)
(* give the same timestamp, for any number of clients, any block sizes and *)
(* any clock, if no restart comes before the clock has caught up.          *)
THEOREM UniqueTheorem == ASSUME ~AnyRestart PROVE Spec => []Unique
<1>1. Init => IInv
  BY InitIInv
<1>2. IInv /\ [Next]_vars => IInv'
  BY NextIInv
<1>3. QED
  BY <1>1, <1>2, IInvUnique, PTL DEF Spec

(* Thread.Timestamp: what a client process gives is later than what it     *)
(* gave before, from one block to the next and within a block.             *)
THEOREM IncreasingTheorem == ASSUME ~AnyRestart PROVE Spec => Increasing
<1>1. Init => IInv
  BY InitIInv
<1>2. IInv /\ [Next]_vars => IInv'
  BY NextIInv
<1>3. ASSUME IInv, Next, NEW d \in Clients, last'[d] # last[d]
      PROVE  Before(last[d], last'[d])
  <2>1. PICK c \in Clients : Timestamp(c) \/ Fetched(c)
    BY <1>3 DEF Next, Clock, TickerRead, Ticker, Restart, Fetch, Expire
  <2>2. d = c
    BY <1>3, <2>1 DEF Timestamp, Fetched, HandOut, IInv, TypeOK
  <2>3. CASE Timestamp(c)
    BY <1>3, <2>2, <2>3, TimestampStep
  <2>4. CASE Fetched(c)
    <3>1. last'[c] = <<fetched[c], 0>>
      BY <1>3, <2>4 DEF Fetched, HandOut, IInv, TypeOK
    <3>2. last[c][1] < fetched[c]
      BY <1>3, <2>4 DEF Fetched, IInv, FetchedIsFree
    <3> QED
      BY <2>2, <3>1, <3>2 DEF Before
  <2> QED
    BY <2>1, <2>3, <2>4
<1>4. IInv /\ [Next]_vars
        => [\A c \in Clients : last'[c] # last[c] => Before(last[c], last'[c])]_vars
  BY <1>3 DEF vars
<1>5. QED
  BY <1>1, <1>2, <1>4, PTL DEF Spec, Increasing
==============================================================================
