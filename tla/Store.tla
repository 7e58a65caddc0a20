-------------------------------- MODULE Store --------------------------------
(***************************************************************************)
(* What the database promises of the transactions it has accepted: they    *)
(* are a sequence, readers see the effect of all of it, the file holds the *)
(* effect of a prefix of it, and a crash loses what is not in that prefix. *)
(*                                                                         *)
(* A transaction is the set of tables it wrote.  The content of a table is *)
(* the sequence of the positions of the transactions that wrote it.        *)
(***************************************************************************)
EXTENDS Naturals, Sequences

CONSTANT Tables

VARIABLES
    log,      \* the transactions that were accepted, in order
    durable,  \* the length of the prefix that the file holds
    view,     \* for each table, its content for a reader
    disk      \* for each table, its content in the file

storeVars == <<log, durable, view, disk>>

\* the positions of the transactions that wrote t, among the first n of l
Writes(l, t, n) ==
    LET writes[i \in 0 .. n] ==
            IF i = 0 THEN <<>>
            ELSE IF t \in l[i] THEN Append(writes[i - 1], i)
            ELSE writes[i - 1]
    IN  writes[n]

\* the content of every table after the transactions of l
Content(l) == [t \in Tables |-> Writes(l, t, Len(l))]

Update(l, d) ==
    /\ log' = l /\ durable' = d
    /\ view' = Content(l) /\ disk' = Content(SubSeq(l, 1, d))

Init == log = <<>> /\ durable = 0 /\ view = Content(log) /\ disk = Content(log)

Accept == \E ts \in (SUBSET Tables) \ {{}} : Update(Append(log, ts), durable)

Save == \E d \in durable .. Len(log) : Update(log, d)

Lose == Update(SubSeq(log, 1, durable), durable)

Spec == Init /\ [][Accept \/ Save \/ Lose]_storeVars
==============================================================================
