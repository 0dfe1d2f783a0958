------------------------------ MODULE Ingress -------------------------------
(***************************************************************************)
(* How inventory facts come in from Kafka: consume_batch takes a record,   *)
(* has it registered in the event store and only then commits its offset.  *)
(* Several consumers of one group run, are cut off, and run again.         *)
(*                                                                         *)
(* Kafka is outside: it assigns each partition to one consumer, may move   *)
(* it at any time, hands out records from the committed offset on, and     *)
(* takes a commit from the consumer a partition is assigned to.            *)
(***************************************************************************)
EXTENDS Naturals, Sequences

CONSTANTS
    Processes, NoOne,
    Log,            \* the records of each partition: <<event, digest>>, or
                    \* NoOne for a record the ingress refuses
    MaxMessages     \* max_messages

VARIABLES
    committed,      \* the offset each partition is committed up to
    owner,          \* the consumer each partition is assigned to
    occurrences,    \* what the event store registered, by partition and offset
    job             \* the consume_batch each process is in

vars == <<committed, owner, occurrences, job>>

Partitions == DOMAIN Log
Positions == UNION {{q} \X DOMAIN Log[q] : q \in Partitions}
Record(x) == Log[x[1]][x[2]]
Kinds == {"ACCEPTED", "DUPLICATE", "CONFLICT"}
Batch == [next : [Partitions -> Nat], taken : Partitions \cup {NoOne},
          stored : BOOLEAN, count : 0..MaxMessages]

Init ==
    /\ committed = [q \in Partitions |-> 0]
    /\ owner = [q \in Partitions |-> NoOne]
    /\ occurrences = [x \in Positions |-> NoOne]
    /\ job = [o \in Processes |-> NoOne]

(* The record in hand: the last one taken from its partition.              *)
InHand(o) == <<job[o].taken, job[o].next[job[o].taken]>>

(* register_event: the first payload of an event is accepted, the same one *)
(* again is a duplicate, another one a conflict.                           *)
KindOf(x) ==
    LET first == {y \in Positions : occurrences[y] = "ACCEPTED" /\ Record(y)[1] = Record(x)[1]}
    IN  CASE first = {} -> "ACCEPTED"
          [] \E y \in first : Record(y)[2] = Record(x)[2] -> "DUPLICATE"
          [] OTHER -> "CONFLICT"

-----------------------------------------------------------------------------
(* A process opens its consumer.                                           *)
Open(o) ==
    /\ job[o] = NoOne
    /\ job' = [job EXCEPT ![o] = [next |-> [q \in Partitions |-> 0], taken |-> NoOne,
                                  stored |-> FALSE, count |-> 0]]
    /\ UNCHANGED <<committed, owner, occurrences>>

(* Kafka moves a partition to a consumer that polls.                       *)
Assign(q, o) ==
    /\ job[o] # NoOne /\ job[o].taken = NoOne
    /\ owner[q] # o
    /\ owner' = [owner EXCEPT ![q] = o]
    /\ job' = [job EXCEPT ![o].next[q] = committed[q]]
    /\ UNCHANGED <<committed, occurrences>>

(* The consumer takes the next record of one of its partitions.            *)
Take(o, q) ==
    /\ job[o] # NoOne /\ job[o].taken = NoOne
    /\ owner[q] = o
    /\ job[o].next[q] < Len(Log[q])
    /\ job' = [job EXCEPT ![o].taken = q, ![o].next[q] = @ + 1]
    /\ UNCHANGED <<committed, owner, occurrences>>

(* ingest: an occurrence that is known is only read, a record that is      *)
(* refused raises (Close).                                                 *)
Ingest(o) ==
    /\ job[o] # NoOne /\ job[o].taken # NoOne /\ ~job[o].stored
    /\ Record(InHand(o)) # NoOne
    /\ occurrences' = [occurrences EXCEPT ![InHand(o)] = IF @ = NoOne THEN KindOf(InHand(o)) ELSE @]
    /\ job' = [job EXCEPT ![o].stored = TRUE]
    /\ UNCHANGED <<committed, owner>>

(* The offset after the record is committed; the batch ends when it has    *)
(* max_messages records.                                                   *)
Commit(o) ==
    /\ job[o] # NoOne /\ job[o].taken # NoOne /\ job[o].stored
    /\ owner[job[o].taken] = o
    /\ committed' = [committed EXCEPT ![job[o].taken] = InHand(o)[2]]
    /\ IF job[o].count + 1 < MaxMessages
       THEN /\ job' = [job EXCEPT ![o].taken = NoOne, ![o].stored = FALSE, ![o].count = @ + 1]
            /\ UNCHANGED owner
       ELSE /\ job' = [job EXCEPT ![o] = NoOne]
            /\ owner' = [q \in Partitions |-> IF owner[q] = o THEN NoOne ELSE owner[q]]
    /\ UNCHANGED occurrences

(* The consumer is closed: nothing came in time, the record was refused,   *)
(* the store or the commit raised, or the process stopped.                 *)
Close(o) ==
    /\ job[o] # NoOne
    /\ job' = [job EXCEPT ![o] = NoOne]
    /\ owner' = [q \in Partitions |-> IF owner[q] = o THEN NoOne ELSE owner[q]]
    /\ UNCHANGED <<committed, occurrences>>

Next ==
    \E o \in Processes :
        \/ Open(o) \/ Ingest(o) \/ Commit(o) \/ Close(o)
        \/ \E q \in Partitions : Assign(q, o) \/ Take(o, q)

Spec == Init /\ [][Next]_vars

-----------------------------------------------------------------------------
TypeOK ==
    /\ \A q \in Partitions : committed[q] \in 0..Len(Log[q])
    /\ owner \in [Partitions -> Processes \cup {NoOne}]
    /\ occurrences \in [Positions -> Kinds \cup {NoOne}]
    /\ job \in [Processes -> Batch \cup {NoOne}]

(* What Kafka will not deliver again the event store has, whatever was cut *)
(* off or moved in between (consume_batch commits after ingest returned;   *)
(* test_phase12b_inventory_ingress.py:309), and of every event exactly one *)
(* payload is accepted: so a record the ingress refuses holds its          *)
(* partition for good.                                                     *)
OutcomesAreTrue ==
    /\ \A x \in Positions : x[2] <= committed[x[1]] => occurrences[x] # NoOne
    /\ \A x \in Positions : occurrences[x] # NoOne =>
          \E y \in Positions :
              /\ occurrences[y] = "ACCEPTED" /\ Record(y)[1] = Record(x)[1]
              /\ (occurrences[x] = "CONFLICT") <=> Record(x)[2] # Record(y)[2]
    /\ \A x, y \in Positions :
          occurrences[x] = "ACCEPTED" /\ occurrences[y] = "ACCEPTED" /\ Record(x)[1] = Record(y)[1]
              => x = y
=============================================================================
