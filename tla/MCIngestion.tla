---------------------------- MODULE MCIngestion ----------------------------
(* The surroundings of Ingestion that TLC tries. *)
EXTENDS Ingestion

\* one delivery per message and everything else can fail; redelivery and crashes; none
Delivering == [faults |-> {"crash", "db", "pool", "publish"}, expiredReadRaises |-> TRUE]
Redelivering == [faults |-> {"redeliver", "crash"}, expiredReadRaises |-> TRUE]
Calm == [faults |-> {}, expiredReadRaises |-> TRUE]
CalmLenient == [faults |-> {}, expiredReadRaises |-> FALSE]

AllWorlds == {Delivering, Redelivering, Calm, CalmLenient}
CalmWorlds == {Calm}
=============================================================================
