------------------------------ MODULE StorProofs ------------------------------
(***************************************************************************)
(* Proofs that allocations are disjoint, lie in one mapped chunk and are   *)
(* covered by the size that Close takes, that every retry of Alloc is in a *)
(* later chunk, and that no request to flush is forgotten, for any number  *)
(* of threads, any chunk size and any number of calls.                     *)
(***************************************************************************)
EXTENDS Stor, TLAPS

Extending(t) == pc[t] \in {"get", "size", "inc"}

(* extend is exclusive, works on the current chunk, and the chunk is there *)
(* before allocChunk says so.                                              *)
ExtendInv ==
    /\ lock = None => chunks = allocChunk + 1
    /\ \A t \in Allocators :
        /\ lock = t <=> Extending(t)
        /\ pc[t] = "get" => chunks = allocChunk + 1
        /\ pc[t] \in {"size", "inc"} => chunks = allocChunk + 2
        /\ pc[t] # "idle" => loaded[t] <= allocChunk
        /\ pc[t] = "add" => try[t] < maxRetries
        /\ Extending(t) => loaded[t] = allocChunk
        /\ pc[t] = "retry" => loaded[t] < allocChunk
        /\ pc[t] = "extend" \/ Extending(t) =>
                ChunkStart(loaded[t] + 1) < closedSize

(* size never falls below the chunk in use, nor below what was allocated. *)
SizeInv ==
    /\ ChunkStart(allocChunk) <= size /\ ChunkStart(allocChunk) < closedSize
    /\ \A t \in Allocators : pc[t] = "inc" => ChunkStart(allocChunk + 1) <= size
    /\ \A i \in DOMAIN allocs :
        /\ End(allocs[i]) <= size /\ End(allocs[i]) < closedSize
        /\ End(allocs[i]) <= ChunkStart(allocChunk + 1)

AllocInv ==
    AllocTypeOK /\ ExtendInv /\ SizeInv /\ AllocsAreDisjoint /\ CloseKeepsAllocs

FlushInv ==
    /\ FlushTypeOK
    /\ flushes + (IF flushTo = "add" THEN 1 ELSE 0) <= requests
    /\ requests = 0 =>
        /\ flusher.at = "none" /\ flushTo = "idle" /\ dirty = {}
        /\ prevFlushChunk = 0 \/ prevFlushChunk <= allocChunk
        /\ \A i \in DOMAIN allocs : ChunkStart(prevFlushChunk) <= allocs[i].off
    /\ requests > 0 => prevFlushChunk <= curFlushChunk
    /\ flusher.at = "flush" =>
        flusher.cur <= curFlushChunk /\ prevFlushChunk <= flusher.cur
    /\ RequestsAreKept

IInv == AllocInv /\ FlushInv
------------------------------------------------------------------------------
(* Chunks follow each other. *)
LEMMA ChunkStartNext ==
    ASSUME NEW c \in Int
    PROVE  /\ ChunkStart(c) \in Int
           /\ ChunkStart(c + 1) = ChunkStart(c) + chunksize
           /\ ChunkStart(c) < ChunkStart(c + 1)
BY StorAssumption DEF ChunkStart

(* A multiple of a natural number is one. *)
LEMMA TimesNat == ASSUME NEW a \in Nat, NEW b \in Nat PROVE a * b \in Nat
OBVIOUS

(* Later chunks start later. *)
LEMMA ChunkStartMonotone ==
    ASSUME NEW c \in Int, NEW d \in Int, c <= d
    PROVE  ChunkStart(c) <= ChunkStart(d)
<1>1. (d - c) * chunksize \in Nat
  BY TimesNat, StorAssumption
<1>2. d * chunksize = c * chunksize + (d - c) * chunksize
  BY StorAssumption
<1>3. QED
  BY <1>1, <1>2, StorAssumption DEF ChunkStart

(* No chunk starts before the storage. *)
LEMMA ChunkStartNat == ASSUME NEW c \in Nat PROVE ChunkStart(c) \in Nat
BY TimesNat, StorAssumption DEF ChunkStart

(* The file is in its chunks. *)
LEMMA FileChunksFit ==
    /\ FileChunks(StartSize) \in Nat
    /\ StartSize <= ChunkStart(FileChunks(StartSize))
<1> DEFINE q == FileChunks(StartSize)
<1>1. q \in Nat
  BY StorAssumption DEF FileChunks
<1>2. StartSize + chunksize - 1 =
        q * chunksize + ((StartSize + chunksize - 1) % chunksize)
  BY StorAssumption DEF FileChunks
<1>3. (StartSize + chunksize - 1) % chunksize \in 0 .. (chunksize - 1)
  BY StorAssumption
<1>4. q * chunksize \in Nat
  BY <1>1, TimesNat, StorAssumption
<1>5. QED
  BY <1>1, <1>2, <1>3, <1>4, StorAssumption DEF ChunkStart
------------------------------------------------------------------------------
(* Every allocation is a positive length at an offset. *)
LEMMA AllocType ==
    ASSUME AllocTypeOK
    PROVE  \A i \in DOMAIN allocs :
                /\ allocs[i].off \in Nat /\ allocs[i].n \in 1 .. chunksize
                /\ allocs[i].late \in BOOLEAN
                /\ End(allocs[i]) \in Nat
<1> DEFINE S == [off : Nat, n : 1 .. chunksize, late : BOOLEAN]
<1>1. ASSUME NEW i \in DOMAIN allocs PROVE allocs[i] \in S
  <2>1. allocs \in Seq(S)
    BY DEF AllocTypeOK
  <2> HIDE DEF S
  <2>2. QED
    BY <2>1
<1>2. ASSUME NEW a \in S
      PROVE  a.off \in Nat /\ a.n \in 1 .. chunksize /\ a.late \in BOOLEAN
  OBVIOUS
<1>3. ASSUME NEW a \in S PROVE End(a) \in Nat
  BY StorAssumption, <1>2 DEF End
<1>4. QED
  BY <1>1, <1>2, <1>3

(* NewStor establishes the invariant. *)
THEOREM InitIInv == Init => IInv
<1> SUFFICES ASSUME Init PROVE IInv
  OBVIOUS
<1> USE StorAssumption, FileChunksFit DEF Init
<1>1. /\ chunks \in Nat /\ allocChunk = chunks - 1 /\ allocChunk \in Nat \cup {-1}
      /\ size \in Nat
  OBVIOUS
<1>2. AllocTypeOK
  <2>1. allocs \in Seq([off : Nat, n : 1 .. chunksize, late : BOOLEAN])
    OBVIOUS
  <2>2. QED
    BY <1>1, <2>1 DEF AllocTypeOK
<1>9. FlushTypeOK
  <2>1. flusher.at = "none" /\ ~flushChan /\ flushChan \in BOOLEAN
    BY Zenon
  <2>2. prevFlushChunk \in Nat
    BY <1>1
  <2>3. flusher \in [at : {"none", "swap", "chunks", "cur", "flush", "receive",
                          "panic"},
                    len : Nat, c : Nat, cur : Nat]
    OBVIOUS
  <2>4. flushes \in 0 .. MaxFlushes /\ requests \in 0 .. MaxFlushes
        /\ curFlushChunk \in Nat
    OBVIOUS
  <2>5. QED
    BY <2>1, <2>2, <2>3, <2>4 DEF FlushTypeOK
<1>3. ExtendInv
  BY <1>1 DEF ExtendInv, Extending
<1>4. ChunkStart(allocChunk) < ChunkStart(chunks)
  BY <1>1, ChunkStartNext
<1>5. SizeInv
  <2>1. ChunkStart(allocChunk) \in Int /\ ChunkStart(chunks) \in Int
    BY <1>1, ChunkStartNext
  <2>2. DOMAIN allocs = {}
    OBVIOUS
  <2>3. QED
    BY <1>1, <1>4, <2>1, <2>2 DEF SizeInv
<1>6. AllocsAreDisjoint /\ CloseKeepsAllocs
  BY DEF AllocsAreDisjoint, CloseKeepsAllocs
<1>7. FlushInv
  <2>1. DOMAIN allocs = {}
    OBVIOUS
  <2>2. prevFlushChunk = 0 \/ prevFlushChunk <= allocChunk
    BY <1>1
  <2>3. QED
    BY <1>1, <1>9, <2>1, <2>2 DEF FlushInv, RequestsAreKept
<1>8. QED
  BY <1>2, <1>3, <1>5, <1>6, <1>7 DEF IInv, AllocInv

(* The first load of Alloc. *)
LEMMA CallStep ==
    ASSUME AllocInv, NEW t \in Allocators, NEW bytes \in 1 .. chunksize,
           Call(t, bytes)
    PROVE  AllocInv'
<1> USE StorAssumption DEF AllocInv, Call, Goto
<1>1. AllocTypeOK'
  BY SMTT(60) DEF AllocTypeOK, flushVars, closeVars
<1>2. ExtendInv'
  BY DEF ExtendInv, Extending, AllocTypeOK
<1>3. SizeInv'
  BY DEF SizeInv, AllocTypeOK
<1>4. AllocsAreDisjoint' /\ CloseKeepsAllocs'
  BY DEF AllocsAreDisjoint, CloseKeepsAllocs, closeVars
<1>5. QED
  BY <1>1, <1>2, <1>3, <1>4

(* Going round the loop. *)
LEMMA RetryStep ==
    ASSUME AllocInv, NEW t \in Allocators, Retry(t)
    PROVE  AllocInv'
<1> USE StorAssumption DEF AllocInv, Retry, Goto
<1>1. AllocTypeOK'
  BY ZenonT(60) DEF AllocTypeOK, flushVars, closeVars
<1>2. ExtendInv'
  BY DEF ExtendInv, Extending, AllocTypeOK
<1>3. SizeInv'
  BY DEF SizeInv, AllocTypeOK
<1>4. AllocsAreDisjoint' /\ CloseKeepsAllocs'
  BY DEF AllocsAreDisjoint, CloseKeepsAllocs, closeVars
<1>5. QED
  BY <1>1, <1>2, <1>3, <1>4

(* Taking the lock: the extender's chunk is the current one. *)
LEMMA LockStep ==
    ASSUME AllocInv, NEW t \in Allocators, Lock(t)
    PROVE  AllocInv'
<1> USE StorAssumption DEF AllocInv, Lock, Goto
<1>1. AllocTypeOK'
  BY Zenon DEF AllocTypeOK, flushVars, closeVars
<1>2. ExtendInv'
  <2>1. chunks = allocChunk + 1 /\ loaded[t] <= allocChunk /\ allocChunk \in Int
        /\ loaded[t] \in Int /\ \A u \in Allocators : ~Extending(u)
    BY DEF ExtendInv, AllocTypeOK
  <2>2. CASE loaded[t] + 1 < chunks
    BY SMTT(60), <2>1, <2>2 DEF ExtendInv, Extending, AllocTypeOK
  <2>3. CASE ~(loaded[t] + 1 < chunks)
    <3>1. loaded[t] = allocChunk
      BY <2>1, <2>3
    <3>2. QED
      BY <2>1, <2>3, <3>1 DEF ExtendInv, Extending, AllocTypeOK
  <2>4. QED
    BY <2>2, <2>3
<1>3. SizeInv'
  BY DEF SizeInv, AllocTypeOK
<1>4. AllocsAreDisjoint' /\ CloseKeepsAllocs'
  BY DEF AllocsAreDisjoint, CloseKeepsAllocs, closeVars
<1>5. QED
  BY <1>1, <1>2, <1>3, <1>4

(* Storing the chunks. *)
LEMMA AddChunkStep ==
    ASSUME AllocInv, NEW t \in Allocators, AddChunk(t)
    PROVE  AllocInv'
<1> USE StorAssumption DEF AllocInv, AddChunk, Goto
<1>1. AllocTypeOK'
  BY DEF AllocTypeOK, flushVars, closeVars
<1>2. ExtendInv'
  BY DEF ExtendInv, Extending, AllocTypeOK
<1>3. SizeInv'
  BY DEF SizeInv, AllocTypeOK
<1>4. 0 .. (chunks - 1) \subseteq 0 .. (chunks' - 1)
  BY DEF AllocTypeOK
<1>5. AllocsAreDisjoint'
  BY <1>4 DEF AllocsAreDisjoint, End
<1>6. CloseKeepsAllocs'
  BY DEF CloseKeepsAllocs, closeVars
<1>7. QED
  BY <1>1, <1>2, <1>3, <1>5, <1>6

(* Setting the size: back, but not before anything allocated. *)
LEMMA SetSizeStep ==
    ASSUME AllocInv, NEW t \in Allocators, SetSize(t)
    PROVE  AllocInv'
<1> USE StorAssumption DEF AllocInv, SetSize, NextSize, Goto
<1>0. /\ loaded[t] = allocChunk /\ allocChunk \in Int /\ allocChunk + 1 \in Nat
      /\ size' = ChunkStart(allocChunk + 1)
  BY DEF ExtendInv, Extending, AllocTypeOK
<1>1. ChunkStart(allocChunk + 1) \in Nat /\ ChunkStart(allocChunk) \in Int
      /\ ChunkStart(allocChunk) < ChunkStart(allocChunk + 1)
  BY <1>0, ChunkStartNat, ChunkStartNext
<1>2. AllocTypeOK'
  BY SMTT(60), <1>0, <1>1 DEF AllocTypeOK, flushVars, closeVars
<1>3. ExtendInv'
  BY DEF ExtendInv, Extending, AllocTypeOK
<1>4. SizeInv'
  <2>1. UNCHANGED <<allocChunk, allocs>>
    OBVIOUS
  <2>2. \A i \in DOMAIN allocs : End(allocs[i]) <= ChunkStart(allocChunk + 1)
            /\ End(allocs[i]) < closedSize
    BY DEF SizeInv
  <2>3. ChunkStart(allocChunk) <= size' /\ ChunkStart(allocChunk) < closedSize
        /\ ChunkStart(allocChunk + 1) <= size'
    <3>1. ChunkStart(allocChunk) < closedSize
      BY DEF SizeInv
    <3>2. QED
      BY <1>0, <1>1, <3>1
  <2>4. \A i \in DOMAIN allocs : End(allocs[i]) <= size'
    BY <1>0, <2>2
  <2>5. QED
    BY <2>1, <2>2, <2>3, <2>4 DEF SizeInv, End
<1>5. AllocsAreDisjoint' /\ CloseKeepsAllocs'
  BY DEF AllocsAreDisjoint, CloseKeepsAllocs, closeVars
<1>6. QED
  BY <1>2, <1>3, <1>4, <1>5

(* Moving to the next chunk. *)
LEMMA NextChunkStep ==
    ASSUME AllocInv, NEW t \in Allocators, NextChunk(t)
    PROVE  AllocInv'
<1> USE StorAssumption DEF AllocInv, NextChunk, Goto
<1>1. /\ loaded[t] = allocChunk /\ allocChunk \in Int
      /\ ChunkStart(allocChunk + 1) < closedSize
      /\ ChunkStart(allocChunk + 1) <= size
  BY DEF ExtendInv, Extending, AllocTypeOK, SizeInv
<1>2. AllocTypeOK'
  BY <1>1 DEF AllocTypeOK, flushVars, closeVars
<1>3. ExtendInv'
  <2>1. /\ chunks = allocChunk + 2 /\ lock' = None /\ allocChunk' = allocChunk + 1
        /\ \A u \in Allocators \ {t} : ~Extending(u) /\ ~Extending(u)'
        /\ ~Extending(t)'
    BY DEF ExtendInv, Extending, AllocTypeOK
  <2>2. \A u \in Allocators : lock' = u <=> Extending(u)'
    BY <2>1
  <2>3. \A u \in Allocators : loaded[u] \in Int
    BY DEF AllocTypeOK
  <2>4. QED
    BY SMTT(60), <1>1, <2>1, <2>2, <2>3 DEF ExtendInv, Extending, AllocTypeOK
<1>4. ChunkStart(allocChunk + 1) < ChunkStart(allocChunk + 1 + 1)
  BY <1>1, ChunkStartNext
<1>5. ChunkStart(allocChunk + 1) \in Int /\ ChunkStart(allocChunk + 1 + 1) \in Int
  BY <1>1, ChunkStartNext
<1>6. SizeInv'
  <2>1. allocChunk' = allocChunk + 1 /\ \A u \in Allocators : pc'[u] # "inc"
    BY DEF ExtendInv, Extending, AllocTypeOK
  <2>2. \A i \in DOMAIN allocs : End(allocs[i]) \in Int
    BY AllocType
  <2>3. \A i \in DOMAIN allocs : End(allocs[i]) <= size
            /\ End(allocs[i]) < closedSize
            /\ End(allocs[i]) <= ChunkStart(allocChunk + 1 + 1)
    BY <1>4, <1>5, <2>2 DEF SizeInv
  <2>4. QED
    BY <1>1, <2>1, <2>3 DEF SizeInv, End
<1>7. AllocsAreDisjoint' /\ CloseKeepsAllocs'
  BY DEF AllocsAreDisjoint, CloseKeepsAllocs, closeVars
<1>8. QED
  BY <1>2, <1>3, <1>6, <1>7

(* The add: what it returns starts where all others have ended. *)
LEMMA AddStep ==
    ASSUME AllocInv, NEW t \in Allocators, Add(t)
    PROVE  AllocInv'
<1> USE StorAssumption
<1> DEFINE newsize == size + n[t]
<1>1. /\ size \in Nat /\ n[t] \in 1 .. chunksize /\ newsize \in Nat /\ newsize > size
      /\ size' = newsize /\ pc[t] = "add" /\ loaded[t] \in Int /\ allocChunk \in Int
      /\ loaded[t] <= allocChunk /\ chunks \in Nat /\ allocChunk + 1 <= chunks
      /\ try[t] \in 0 .. (maxRetries - 1)
  <2>1. /\ size \in Nat /\ n[t] \in 1 .. chunksize /\ newsize \in Nat
        /\ newsize > size /\ size' = newsize /\ pc[t] = "add"
        /\ loaded[t] \in Int /\ allocChunk \in Int /\ chunks \in Nat
    <3>1. /\ size \in Nat /\ n[t] \in 1 .. chunksize /\ loaded[t] \in Int
          /\ allocChunk \in Int /\ chunks \in Nat
      BY DEF AllocInv, AllocTypeOK
    <3>2. size' = newsize /\ pc[t] = "add"
      BY DEF Add
    <3>3. QED
      BY <3>1, <3>2
  <2>2. loaded[t] <= allocChunk /\ try[t] \in 0 .. (maxRetries - 1)
    <3>1. try[t] \in 0 .. maxRetries
      BY DEF AllocInv, AllocTypeOK
    <3>2. loaded[t] <= allocChunk /\ try[t] < maxRetries
      BY <2>1 DEF AllocInv, ExtendInv
    <3>3. QED
      BY <3>1, <3>2
  <2>3. allocChunk + 1 <= chunks
    <3>1. CASE lock = None
      BY <2>1, <3>1 DEF AllocInv, ExtendInv
    <3>2. CASE lock # None
      <4>1. PICK u \in Allocators : lock = u
        BY <3>2 DEF AllocInv, AllocTypeOK
      <4>2. Extending(u)
        BY <4>1 DEF AllocInv, ExtendInv
      <4>3. QED
        BY <2>1, <4>2 DEF AllocInv, ExtendInv, Extending
    <3>3. QED
      BY <3>1, <3>2
  <2>4. QED
    BY <2>1, <2>2, <2>3
<1>2. /\ UNCHANGED <<allocChunk, chunks, lock, n, loaded, started>>
      /\ UNCHANGED <<closedAt, closer>>
  BY DEF Add, closeVars
<1>3. /\ ChunkStart(allocChunk) \in Int /\ ChunkStart(loaded[t]) \in Int
      /\ ChunkStart(loaded[t] + 1) \in Int /\ ChunkStart(allocChunk + 1) \in Int
      /\ ChunkStart(loaded[t]) <= ChunkStart(allocChunk)
      /\ ChunkStart(loaded[t] + 1) <= ChunkStart(allocChunk + 1)
      /\ ChunkStart(loaded[t]) < ChunkStart(loaded[t] + 1)
  BY SMTT(60), <1>1, ChunkStartNext, ChunkStartMonotone
<1>4. ChunkStart(allocChunk) <= size
  BY DEF AllocInv, SizeInv
<1>9. \A i \in DOMAIN allocs : End(allocs[i]) \in Nat /\ End(allocs[i]) <= size
            /\ End(allocs[i]) < closedSize
            /\ End(allocs[i]) <= ChunkStart(allocChunk + 1)
  BY AllocType DEF AllocInv, SizeInv
<1>10. \A u \in Allocators : pc'[u] = "inc" => ChunkStart(allocChunk + 1) <= newsize
  <2>1. \A u \in Allocators : pc'[u] = "inc" => pc[u] = "inc"
    BY SMTT(60) DEF Add, Goto, AllocInv, AllocTypeOK
  <2>2. QED
    BY <1>1, <1>3, <2>1 DEF AllocInv, SizeInv
<1>11. ChunkStart(allocChunk) <= newsize /\ ChunkStart(allocChunk) < closedSize
  BY <1>1, <1>3, <1>4 DEF AllocInv, SizeInv
<1>5. CASE newsize >= closedSize
  <2>1. pc' = [pc EXCEPT ![t] = "exited"] /\ UNCHANGED <<try, allocs>>
    BY <1>1, <1>5 DEF Add, Goto
  <2>2. AllocTypeOK'
    BY SMTT(60), <1>1, <1>2, <2>1 DEF AllocInv, AllocTypeOK
  <2>3. ExtendInv'
    BY <1>1, <1>2, <2>1 DEF AllocInv, AllocTypeOK, ExtendInv, Extending
  <2>4. SizeInv'
    BY SMTT(60), <1>1, <1>2, <1>9, <1>10, <1>11, <2>1 DEF SizeInv
  <2>5. AllocsAreDisjoint' /\ CloseKeepsAllocs'
    BY <1>2, <2>1 DEF AllocInv, AllocsAreDisjoint, CloseKeepsAllocs
  <2>6. QED
    BY <2>2, <2>3, <2>4, <2>5 DEF AllocInv
<1>6. CASE newsize < closedSize /\ ~Fits(t, newsize)
  <2>1. /\ pc' = [pc EXCEPT ![t] = "extend"] /\ try' = [try EXCEPT ![t] = @ + 1]
        /\ UNCHANGED allocs
    BY SMTT(60), <1>1, <1>6 DEF Add, Goto
  <2>2. ChunkStart(loaded[t] + 1) < closedSize
    BY <1>1, <1>3, <1>4, <1>6 DEF Fits, IsChunk
  <2>3. AllocTypeOK'
    <3>1. try' \in [Allocators -> 0 .. maxRetries]
      BY SMTT(60), <1>1, <2>1 DEF AllocInv, AllocTypeOK
    <3>2. QED
      BY Zenon, <1>1, <1>2, <2>1, <3>1 DEF AllocInv, AllocTypeOK
  <2>4. ExtendInv'
    BY SMTT(60), <1>1, <1>2, <2>1, <2>2 DEF AllocInv, AllocTypeOK, ExtendInv, Extending
  <2>5. SizeInv'
    BY <1>1, <1>2, <1>9, <1>10, <1>11, <2>1 DEF SizeInv
  <2>6. AllocsAreDisjoint' /\ CloseKeepsAllocs'
    BY <1>2, <2>1 DEF AllocInv, AllocsAreDisjoint, CloseKeepsAllocs
  <2>7. QED
    BY <2>3, <2>4, <2>5, <2>6 DEF AllocInv
<1>7. CASE newsize < closedSize /\ Fits(t, newsize)
  <2> DEFINE a == [off |-> size, n |-> n[t], late |-> closedAt # Open]
  <2>1. /\ pc' = [pc EXCEPT ![t] = "idle"] /\ UNCHANGED try
        /\ allocs' = Append(allocs, a)
    BY SMTT(60), <1>1, <1>7 DEF Add, Goto
  <2>2. End(a) = newsize /\ a.off = size /\ a.late = (closedAt # Open)
    BY DEF End
  <2>3. /\ ChunkStart(loaded[t]) <= size /\ newsize <= ChunkStart(loaded[t] + 1)
        /\ loaded[t] \in 0 .. (chunks - 1)
    <3>1. ChunkStart(loaded[t]) <= size /\ newsize <= ChunkStart(loaded[t] + 1)
      BY <1>1, <1>3, <1>4, <1>7 DEF Fits, IsChunk
    <3>2. loaded[t] >= 0
      <4>1. ASSUME loaded[t] = -1 PROVE FALSE
        <5>1. ChunkStart(0) = 0
          BY DEF ChunkStart
        <5>2. QED
          BY <1>1, <3>1, <4>1, <5>1
      <4>2. QED
        BY <4>1 DEF AllocInv, AllocTypeOK
    <3>3. QED
      BY <1>1, <3>1, <3>2
  <2>4. /\ allocs \in Seq([off : Nat, n : 1 .. chunksize, late : BOOLEAN])
        /\ a \in [off : Nat, n : 1 .. chunksize, late : BOOLEAN]
    BY SMTT(60), <1>1 DEF AllocInv, AllocTypeOK
  <2>5. /\ DOMAIN allocs' = 1 .. (Len(allocs) + 1) /\ DOMAIN allocs = 1 .. Len(allocs)
        /\ Len(allocs) \in Nat
        /\ \A i \in DOMAIN allocs : allocs'[i] = allocs[i]
        /\ allocs'[Len(allocs) + 1] = a
    BY SMTT(60), <2>1, <2>4
  <2>14. /\ \A i \in DOMAIN allocs : End(allocs'[i]) = End(allocs[i])
         /\ End(allocs'[Len(allocs) + 1]) = newsize
    BY <2>2, <2>5 DEF End
  <2>6. \A i \in DOMAIN allocs' : i \in DOMAIN allocs \/ i = Len(allocs) + 1
    BY <2>5
  <2>7. AllocTypeOK'
    <3>1. allocs' \in Seq([off : Nat, n : 1 .. chunksize, late : BOOLEAN])
      BY <2>1, <2>4
    <3>2. QED
      BY Zenon, <1>1, <1>2, <2>1, <3>1 DEF AllocInv, AllocTypeOK
  <2>8. ExtendInv'
    BY SMTT(60), <1>1, <1>2, <2>1 DEF AllocInv, AllocTypeOK, ExtendInv, Extending
  <2>10. SizeInv'
    <3>1. \A i \in DOMAIN allocs' : End(allocs'[i]) <= newsize
              /\ End(allocs'[i]) < closedSize
              /\ End(allocs'[i]) <= ChunkStart(allocChunk + 1)
      <4>0. /\ size \in Nat /\ newsize \in Nat /\ size < newsize
            /\ newsize < closedSize
        BY <1>1, <1>7
      <4>2. newsize <= ChunkStart(allocChunk + 1)
        <5>1. /\ newsize <= ChunkStart(loaded[t] + 1)
              /\ ChunkStart(loaded[t] + 1) <= ChunkStart(allocChunk + 1)
              /\ ChunkStart(loaded[t] + 1) \in Int
              /\ ChunkStart(allocChunk + 1) \in Int
          BY <1>3, <2>3
        <5> HIDE DEF newsize
        <5>2. QED
          BY <4>0, <5>1
      <4> HIDE DEF newsize
      <4>1. ASSUME NEW i \in DOMAIN allocs
            PROVE  /\ End(allocs'[i]) <= newsize /\ End(allocs'[i]) < closedSize
                   /\ End(allocs'[i]) <= ChunkStart(allocChunk + 1)
        <5>1. /\ End(allocs[i]) \in Nat /\ End(allocs[i]) <= size
              /\ End(allocs[i]) < closedSize
              /\ End(allocs[i]) <= ChunkStart(allocChunk + 1)
          BY <1>9
        <5>2. End(allocs'[i]) = End(allocs[i])
          BY <2>14
        <5>3. QED
          BY <4>0, <5>1, <5>2
      <4>3. QED
        BY <2>6, <2>14, <4>0, <4>1, <4>2
    <3>2. QED
      BY ZenonT(60), <1>1, <1>2, <1>10, <1>11, <3>1 DEF SizeInv
  <2>11. AllocsAreDisjoint'
    <3>1. \A i, j \in DOMAIN allocs' : i < j => End(allocs'[i]) <= allocs'[j].off
      BY SMTT(60), <1>9, <2>2, <2>5, <2>6, <2>14 DEF AllocInv, AllocsAreDisjoint
    <3>2. \A i \in DOMAIN allocs' : \E c \in 0 .. (chunks - 1) :
              /\ ChunkStart(c) <= allocs'[i].off
              /\ End(allocs'[i]) <= ChunkStart(c + 1)
      BY SMTT(60), <2>2, <2>3, <2>5, <2>6 DEF AllocInv, AllocsAreDisjoint
    <3>3. QED
      BY SMTT(60), <1>2, <3>1, <3>2 DEF AllocsAreDisjoint
  <2>12. CloseKeepsAllocs'
    BY Zenon, <1>2, <2>2, <2>5, <2>6 DEF AllocInv, CloseKeepsAllocs
  <2>13. QED
    BY <2>7, <2>8, <2>10, <2>11, <2>12 DEF AllocInv
<1>8. QED
  BY <1>1, <1>5, <1>6, <1>7

(* Close: the size it takes covers what was allocated. *)
LEMMA CloseStep == ASSUME AllocInv, Close PROVE AllocInv'
<1> USE StorAssumption DEF AllocInv, Close
<1>1. AllocTypeOK'
  BY DEF AllocTypeOK, Open
<1>2. ExtendInv'
  BY DEF ExtendInv, Extending
<1>3. SizeInv'
  <2>1. \A i \in DOMAIN allocs : End(allocs[i]) \in Nat
    BY AllocType
  <2>2. \A u \in Allocators : pc[u] = "inc" => ChunkStart(allocChunk + 1) < closedSize
    BY DEF ExtendInv, Extending
  <2>3. ChunkStart(allocChunk) \in Int /\ ChunkStart(allocChunk + 1) \in Int
    <3>1. allocChunk \in Int /\ allocChunk + 1 \in Int
      BY DEF AllocTypeOK
    <3>2. QED
      BY <3>1, ChunkStartNext
  <2>4. QED
    BY <2>1, <2>2, <2>3 DEF SizeInv
<1>4. AllocsAreDisjoint'
  BY DEF AllocsAreDisjoint
<1>5. CloseKeepsAllocs'
  BY DEF CloseKeepsAllocs, SizeInv
<1>6. QED
  BY <1>1, <1>2, <1>3, <1>4, <1>5
------------------------------------------------------------------------------
(* Allocation disturbs flushing only in that the first request finds more. *)
LEMMA FlushFrame ==
    ASSUME IInv, UNCHANGED flushVars, allocChunk' \in Int, allocChunk <= allocChunk',
           \/ UNCHANGED allocs
           \/ \E k \in 1 .. chunksize, late \in BOOLEAN :
                allocs' = Append(allocs, [off |-> size, n |-> k, late |-> late])
    PROVE  FlushInv'
<1> USE StorAssumption
<1>1. FlushTypeOK'
  BY DEF IInv, FlushInv, FlushTypeOK, flushVars
<1>2. allocChunk \in Int /\ size \in Nat /\ prevFlushChunk \in Nat
      /\ ChunkStart(allocChunk) <= size
  BY DEF IInv, AllocInv, AllocTypeOK, SizeInv, FlushInv, FlushTypeOK
<1>3. ASSUME requests = 0
      PROVE  /\ prevFlushChunk = 0 \/ prevFlushChunk <= allocChunk'
             /\ \A i \in DOMAIN allocs' : ChunkStart(prevFlushChunk) <= allocs'[i].off
  <2>1. prevFlushChunk = 0 \/ prevFlushChunk <= allocChunk
    BY <1>3 DEF IInv, FlushInv
  <2>2. \A i \in DOMAIN allocs : ChunkStart(prevFlushChunk) <= allocs[i].off
    BY <1>3 DEF IInv, FlushInv
  <2>3. ChunkStart(prevFlushChunk) <= size
    <3>1. CASE prevFlushChunk = 0
      BY <1>2, <3>1 DEF ChunkStart
    <3>2. CASE prevFlushChunk <= allocChunk
      <4>1. ChunkStart(prevFlushChunk) <= ChunkStart(allocChunk)
        BY <1>2, <3>2, ChunkStartMonotone
      <4>2. ChunkStart(prevFlushChunk) \in Int /\ ChunkStart(allocChunk) \in Int
        BY <1>2, ChunkStartNext
      <4>3. QED
        BY <1>2, <4>1, <4>2
    <3>3. QED
      BY <2>1, <3>1, <3>2
  <2>4. CASE UNCHANGED allocs
    BY <1>2, <2>1, <2>2, <2>4
  <2>5. CASE \E k \in 1 .. chunksize, late \in BOOLEAN :
                allocs' = Append(allocs, [off |-> size, n |-> k, late |-> late])
    <3>1. PICK k \in 1 .. chunksize, late \in BOOLEAN :
                allocs' = Append(allocs, [off |-> size, n |-> k, late |-> late])
      BY <2>5
    <3> DEFINE a == [off |-> size, n |-> k, late |-> late]
               S == [off : Nat, n : 1 .. chunksize, late : BOOLEAN]
    <3>2. a \in S /\ allocs \in Seq(S) /\ a.off = size
      BY <1>2 DEF IInv, AllocInv, AllocTypeOK
    <3>3. \A i \in DOMAIN allocs' :
            \/ i \in DOMAIN allocs /\ allocs'[i] = allocs[i]
            \/ allocs'[i] = a
      <4> HIDE DEF S
      <4>1. QED
        BY <3>1, <3>2
    <3>4. QED
      BY SMTT(60), <1>2, <2>1, <2>2, <2>3, <3>2, <3>3
  <2>6. QED
    BY Zenon, <2>4, <2>5
<1>4. QED
  BY <1>1, <1>3 DEF IInv, FlushInv, flushVars, Reach, Pending, RequestsAreKept

(* FlushTo's store: the chunks requested can be reached from the last flush. *)
LEMMA FlushToStep ==
    ASSUME IInv, NEW i \in DOMAIN allocs, FlushTo(allocs[i].off)
    PROVE  FlushInv'
<1> USE StorAssumption DEF FlushTo
<1>1. PICK c \in 0 .. allocChunk :
        /\ IsChunk(allocs[i].off, c)
        /\ c >= curFlushChunk
        /\ curFlushChunk' = c
        /\ dirty' = dirty \cup
            (IF requests = 0 THEN prevFlushChunk ELSE curFlushChunk) .. c
  OBVIOUS
<1>2. /\ flushTo' = "add" /\ requests' = requests + 1 /\ requests < MaxFlushes
      /\ flushTo = "idle"
      /\ UNCHANGED <<prevFlushChunk, flushes, flushChan, flusher>>
  OBVIOUS
<1>3. c \in Nat /\ FlushTypeOK /\ FlushInv
  BY SMTT(60) DEF IInv, AllocInv, AllocTypeOK, FlushInv
<1>4. FlushTypeOK'
  BY <1>1, <1>2, <1>3 DEF FlushTypeOK
<1>5. prevFlushChunk \in Nat /\ curFlushChunk \in Nat /\ requests \in Nat
      /\ flusher.c \in Nat /\ flusher.cur \in Nat /\ flushes \in Nat
  BY <1>3 DEF FlushTypeOK
<1>6. prevFlushChunk <= c
  <2>1. CASE requests = 0
    <3>1. ChunkStart(prevFlushChunk) <= allocs[i].off
      BY <1>3, <2>1 DEF FlushInv
    <3>2. allocs[i].off < ChunkStart(c + 1) /\ allocs[i].off \in Nat
      BY <1>1, AllocType DEF IsChunk, IInv, AllocInv
    <3>3. ASSUME c + 1 <= prevFlushChunk PROVE FALSE
      <4>1. ChunkStart(c + 1) <= ChunkStart(prevFlushChunk)
        BY <1>3, <1>5, <3>3, ChunkStartMonotone
      <4>2. ChunkStart(c + 1) \in Nat /\ ChunkStart(prevFlushChunk) \in Nat
        BY <1>3, <1>5, ChunkStartNat
      <4>3. QED
        BY <3>1, <3>2, <4>1, <4>2
    <3>4. QED
      BY <1>3, <1>5, <3>3
  <2>2. CASE requests # 0
    BY <1>1, <1>3, <1>5, <2>2 DEF FlushInv
  <2>3. QED
    BY <2>1, <2>2
<1>7. flusher.at = "flush" => flusher.cur <= c /\ prevFlushChunk <= flusher.cur
  BY <1>1, <1>3, <1>5 DEF FlushInv
<1>8. flusher.at # "panic" => dirty' \subseteq Reach'
  <2>1. CASE requests = 0
    BY <1>1, <1>2, <1>3, <1>5, <2>1 DEF FlushInv, Reach, RequestsAreKept
  <2>2. CASE requests # 0
    <3>1. prevFlushChunk <= curFlushChunk
      BY <1>3, <1>5, <2>2 DEF FlushInv
    <3>2. CASE flusher.at = "flush"
      BY <1>1, <1>2, <1>3, <1>5, <2>2, <3>1, <3>2 DEF FlushInv, Reach, RequestsAreKept
    <3>3. CASE flusher.at # "flush"
      BY <1>1, <1>2, <1>3, <1>5, <2>2, <3>1, <3>3 DEF FlushInv, Reach, RequestsAreKept
    <3>4. QED
      BY <3>2, <3>3
  <2>3. QED
    BY <2>1, <2>2
<1>9. QED
  BY <1>1, <1>2, <1>3, <1>4, <1>5, <1>6, <1>7, <1>8 DEF FlushInv, RequestsAreKept

(* The other steps of FlushTo, and those of flusher. *)
LEMMA FlushSteps ==
    ASSUME IInv,
           FlushRequest \/ FlushStart \/ FlusherSwap \/ FlushLoadChunks
           \/ FlushLoadCur \/ FlushChunk \/ FlushDone \/ FlusherEnd
    PROVE  FlushInv'
<1> USE StorAssumption
<1>1. FlushInv /\ FlushTypeOK /\ UNCHANGED <<allocChunk, allocs, chunks>>
  BY DEF IInv, FlushInv, FlushRequest, FlushStart, FlusherSwap, FlushLoadChunks,
     FlushLoadCur, FlushChunk, FlushDone, FlusherEnd, allocVars
<1>2. /\ prevFlushChunk \in Nat /\ curFlushChunk \in Nat /\ requests \in Nat
      /\ flusher.c \in Nat /\ flusher.cur \in Nat /\ flusher.len \in Nat
      /\ flushes \in Nat /\ chunks \in Nat
  BY <1>1 DEF FlushTypeOK, IInv, AllocInv, AllocTypeOK
<1> USE <1>1, <1>2
<1>3. CASE FlushRequest
  <2>1. FlushTypeOK'
    BY <1>3 DEF FlushRequest, FlushTypeOK, FlushInv
  <2>2. QED
    BY <1>3, <2>1 DEF FlushRequest, FlushTypeOK, FlushInv, Reach, Pending, RequestsAreKept
<1>4. CASE FlushStart
  <2>1. FlushTypeOK'
    BY Zenon, <1>4 DEF FlushStart, FlushTypeOK, FlushInv
  <2>2. QED
    BY <1>4, <2>1 DEF FlushStart, FlushTypeOK, FlushInv, Reach, Pending, RequestsAreKept
<1>5. CASE FlusherSwap
  <2>1. FlushTypeOK'
    BY <1>5 DEF FlusherSwap, FlushTypeOK, FlushInv
  <2>2. QED
    BY <1>5, <2>1 DEF FlusherSwap, FlushTypeOK, FlushInv, Reach, Pending, RequestsAreKept
<1>6. CASE FlushLoadChunks
  <2>1. FlushTypeOK'
    BY Zenon, <1>6 DEF FlushLoadChunks, FlushTypeOK, FlushInv
  <2>2. QED
    BY <1>6, <2>1 DEF FlushLoadChunks, FlushTypeOK, FlushInv, Reach, Pending, RequestsAreKept
<1>7. CASE FlushLoadCur
  <2>1. FlushTypeOK'
    BY Zenon, <1>7 DEF FlushLoadCur, FlushTypeOK, FlushInv
  <2>2. QED
    BY <1>7, <2>1 DEF FlushLoadCur, FlushTypeOK, FlushInv, Reach, Pending, RequestsAreKept
<1>8. CASE FlushChunk
  <2>1. FlushTypeOK'
    BY <1>8 DEF FlushChunk, FlushTypeOK, FlushInv
  <2>2. QED
    BY <1>8, <2>1 DEF FlushChunk, FlushTypeOK, FlushInv, Reach, Pending, RequestsAreKept
<1>9. CASE FlushDone
  <2>1. FlushTypeOK'
    BY <1>9 DEF FlushDone, FlushTypeOK, FlushInv
  <2>2. QED
    BY <1>9, <2>1 DEF FlushDone, FlushTypeOK, FlushInv, Reach, Pending, RequestsAreKept
<1>10. CASE FlusherEnd
  <2>1. FlushTypeOK'
    BY Zenon, <1>10 DEF FlusherEnd, FlushTypeOK, FlushInv
  <2>2. QED
    BY <1>10, <2>1 DEF FlusherEnd, FlushTypeOK, FlushInv, Reach, Pending, RequestsAreKept
<1>11. QED
  BY <1>3, <1>4, <1>5, <1>6, <1>7, <1>8, <1>9, <1>10
------------------------------------------------------------------------------
(* The steps of Alloc, Close and flushWait keep FlushInv. *)
LEMMA OtherSteps ==
    ASSUME IInv,
           \/ Close \/ FlushWait
           \/ \E t \in Allocators :
                \/ \E bytes \in 1 .. chunksize : Call(t, bytes)
                \/ Retry(t) \/ Add(t) \/ Lock(t) \/ AddChunk(t) \/ SetSize(t)
                \/ NextChunk(t)
    PROVE  FlushInv'
<1>1. allocChunk \in Int
  BY DEF IInv, AllocInv, AllocTypeOK
<1>2. CASE Close \/ FlushWait
  BY <1>1, <1>2, FlushFrame DEF Close, FlushWait, allocVars
<1>3. ASSUME NEW t \in Allocators, NEW bytes \in 1 .. chunksize, Call(t, bytes)
      PROVE  FlushInv'
  BY <1>1, <1>3, FlushFrame DEF Call
<1>4. ASSUME NEW t \in Allocators, Add(t) PROVE FlushInv'
  <2>1. n[t] \in 1 .. chunksize /\ (closedAt # Open) \in BOOLEAN
    BY SMTT(60) DEF IInv, AllocInv, AllocTypeOK
  <2>2. UNCHANGED flushVars /\ UNCHANGED allocChunk
    BY ZenonT(60), <1>4 DEF Add
  <2>3. \/ UNCHANGED allocs
        \/ allocs' = Append(allocs, [off |-> size, n |-> n[t],
                                     late |-> closedAt # Open])
    BY Zenon, <1>4 DEF Add
  <2>4. allocChunk' \in Int /\ allocChunk <= allocChunk'
    BY <1>1, <2>2
  <2>5. CASE UNCHANGED allocs
    BY <2>2, <2>4, <2>5, FlushFrame
  <2>6. CASE allocs' = Append(allocs, [off |-> size, n |-> n[t],
                                       late |-> closedAt # Open])
    <3>1. \E k \in 1 .. chunksize, late \in BOOLEAN :
            allocs' = Append(allocs, [off |-> size, n |-> k, late |-> late])
      BY <2>1, <2>6, Zenon
    <3>2. QED
      BY <2>2, <2>4, <3>1, FlushFrame
  <2>7. QED
    BY <2>3, <2>5, <2>6
<1>5. ASSUME NEW t \in Allocators,
             Retry(t) \/ Lock(t) \/ AddChunk(t) \/ SetSize(t) \/ NextChunk(t)
      PROVE  FlushInv'
  <2>1. UNCHANGED flushVars /\ UNCHANGED allocs
    BY ZenonT(60), <1>5 DEF Retry, Lock, AddChunk, SetSize, NextChunk
  <2>2. allocChunk' = allocChunk \/ allocChunk' = allocChunk + 1
    BY Zenon, <1>5 DEF Retry, Lock, AddChunk, SetSize, NextChunk
  <2>3. allocChunk' \in Int /\ allocChunk <= allocChunk'
    BY SMTT(60), <1>1, <2>2
  <2>4. QED
    BY SMTT(60), <2>1, <2>3, FlushFrame
<1>6. QED
  BY <1>2, <1>3, <1>4, <1>5

(* Flushing does not touch what AllocInv is about. *)
LEMMA AllocFrame ==
    ASSUME AllocInv, UNCHANGED allocVars, UNCHANGED closedAt,
           closer' \in {"open", "wait", "flushed", "timedout"}
    PROVE  AllocInv'
BY Zenon DEF AllocInv, allocVars, AllocTypeOK, ExtendInv, Extending, SizeInv,
   AllocsAreDisjoint, CloseKeepsAllocs

(* Every step of every thread keeps the invariant. *)
THEOREM NextIInv == IInv /\ [Next]_vars => IInv'
<1> SUFFICES ASSUME IInv, [Next]_vars PROVE IInv'
  OBVIOUS
<1>1. AllocInv /\ closer \in {"open", "wait", "flushed", "timedout"}
  BY DEF IInv, AllocInv, AllocTypeOK
<1>2. ASSUME NEW t \in Allocators,
             \/ \E bytes \in 1 .. chunksize : Call(t, bytes)
             \/ Retry(t) \/ Add(t) \/ Lock(t) \/ AddChunk(t) \/ SetSize(t)
             \/ NextChunk(t)
      PROVE  IInv'
  <2>1. AllocInv'
    BY <1>1, <1>2, CallStep, RetryStep, AddStep, LockStep, AddChunkStep,
       SetSizeStep, NextChunkStep
  <2>2. FlushInv'
    BY <1>2, OtherSteps
  <2>3. QED
    BY <2>1, <2>2 DEF IInv
<1>3. ASSUME NEW i \in DOMAIN allocs, FlushTo(allocs[i].off) PROVE IInv'
  <2>1. UNCHANGED allocVars /\ UNCHANGED closeVars
    BY <1>3 DEF FlushTo
  <2>2. QED
    BY <1>1, <1>3, <2>1, AllocFrame, FlushToStep DEF IInv, closeVars
<1>4. CASE \/ FlushRequest \/ FlushStart \/ FlusherSwap \/ FlushLoadChunks
           \/ FlushLoadCur \/ FlushChunk \/ FlushDone \/ FlusherEnd
  <2>1. UNCHANGED allocVars /\ UNCHANGED closeVars
    BY <1>4 DEF FlushRequest, FlushStart, FlusherSwap, FlushLoadChunks,
       FlushLoadCur, FlushChunk, FlushDone, FlusherEnd
  <2>2. QED
    BY <1>1, <1>4, <2>1, AllocFrame, FlushSteps DEF IInv, closeVars
<1>5. CASE Close
  BY <1>1, <1>5, CloseStep, OtherSteps DEF IInv
<1>6. CASE FlushWait
  <2>1. UNCHANGED <<allocVars, closedAt>>
        /\ closer' \in {"open", "wait", "flushed", "timedout"}
    BY <1>6 DEF FlushWait
  <2>2. QED
    BY <1>1, <1>6, <2>1, AllocFrame, OtherSteps DEF IInv
<1>7. CASE UNCHANGED vars
  <2>1. UNCHANGED <<allocVars, flushVars, closeVars>>
    BY <1>7 DEF vars
  <2>2. allocChunk' \in Int /\ allocChunk <= allocChunk' /\ UNCHANGED allocs
    BY <1>1, <2>1 DEF AllocInv, AllocTypeOK, allocVars
  <2>3. QED
    BY <1>1, <2>1, <2>2, AllocFrame, FlushFrame DEF IInv, closeVars
<1>8. QED
  BY <1>2, <1>3, <1>4, <1>5, <1>6, <1>7 DEF Next

(* The invariant holds in every reachable state. *)
THEOREM SpecIInv == Spec => []IInv
BY InitIInv, NextIInv, PTL DEF Spec

(* Types, and that flushChan is full just while flusher runs, so there is  *)
(* at most one flusher.                                                    *)
THEOREM TypeOKTheorem == Spec => []TypeOK
<1>1. IInv => TypeOK
  BY DEF IInv, AllocInv, FlushInv, TypeOK
<1>2. QED
  BY <1>1, SpecIInv, PTL

(* Alloc never returns storage that overlaps other storage, straddles a    *)
(* chunk boundary or is not mapped, whatever the threads that race with    *)
(* each other and with extend.                                             *)
THEOREM AllocsAreDisjointTheorem == Spec => []AllocsAreDisjoint
<1>1. IInv => AllocsAreDisjoint
  BY DEF IInv, AllocInv
<1>2. QED
  BY <1>1, SpecIInv, PTL

(* The size that Close takes covers every allocation returned before. *)
THEOREM CloseKeepsAllocsTheorem == Spec => []CloseKeepsAllocs
<1>1. IInv => CloseKeepsAllocs
  BY DEF IInv, AllocInv
<1>2. QED
  BY <1>1, SpecIInv, PTL

(* FlushTo and flusher: a chunk that was requested and is not flushed is   *)
(* within what the running flush has still to do, or a request is counted  *)
(* and the next flush takes the chunk in.                                  *)
THEOREM RequestsAreKeptTheorem == Spec => []RequestsAreKept
<1>1. IInv => RequestsAreKept
  BY DEF IInv, FlushInv
<1>2. QED
  BY <1>1, SpecIInv, PTL

(* Every retry of Alloc is in a later chunk. *)
THEOREM RetriesMoveOnTheorem == Spec => RetriesMoveOn
<1>1. IInv /\ [Next]_vars =>
        [\A t \in Allocators : pc[t] = "retry" /\ pc'[t] = "add"
            => loaded'[t] > loaded[t]]_vars
  <2> SUFFICES ASSUME IInv, Next, NEW t \in Allocators, pc[t] = "retry",
                      pc'[t] = "add"
               PROVE  loaded'[t] > loaded[t]
    OBVIOUS
  <2>1. /\ loaded[t] < allocChunk /\ t \in DOMAIN pc /\ t \in DOMAIN loaded
        /\ \A u \in Allocators : u \in DOMAIN pc
        /\ loaded[t] \in Int /\ allocChunk \in Int
    BY DEF IInv, AllocInv, AllocTypeOK, ExtendInv
  <2>2. CASE Retry(t)
    BY SMTT(60), <2>1, <2>2 DEF Retry, Goto
  <2>3. ASSUME NEW u \in Allocators, u # t,
               \/ \E bytes \in 1 .. chunksize : Call(u, bytes)
               \/ Retry(u) \/ Add(u) \/ Lock(u) \/ AddChunk(u) \/ SetSize(u)
               \/ NextChunk(u)
        PROVE  FALSE
    BY SMTT(60), <2>1, <2>3 DEF Call, Retry, Add, Lock, AddChunk, SetSize, NextChunk, Goto
  <2>4. ASSUME \/ \E bytes \in 1 .. chunksize : Call(t, bytes)
               \/ Add(t) \/ Lock(t) \/ AddChunk(t) \/ SetSize(t) \/ NextChunk(t)
        PROVE  FALSE
    BY Zenon, <2>4 DEF Call, Add, Lock, AddChunk, SetSize, NextChunk
  <2>5. ASSUME NEW i \in DOMAIN allocs, FlushTo(allocs[i].off) PROVE FALSE
    BY <2>5 DEF FlushTo, allocVars
  <2>6. ASSUME \/ FlushRequest \/ FlushStart \/ FlusherSwap \/ FlushLoadChunks
               \/ FlushLoadCur \/ FlushChunk \/ FlushDone \/ FlusherEnd
               \/ Close \/ FlushWait
        PROVE  FALSE
    BY <2>6 DEF FlushRequest, FlushStart, FlusherSwap, FlushLoadChunks,
       FlushLoadCur, FlushChunk, FlushDone, FlusherEnd, Close, FlushWait, allocVars
  <2>7. QED
    BY <2>2, <2>3, <2>4, <2>5, <2>6 DEF Next
<1>2. QED
  BY <1>1, SpecIInv, PTL DEF Spec, RetriesMoveOn
==============================================================================
