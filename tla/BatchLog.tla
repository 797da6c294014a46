------------------------------ MODULE BatchLog ------------------------------
(***************************************************************************)
(* What the ingest promises about DEMO.SQL_LOG: an append-only log that    *)
(* grows by all the records of one file in one step.                       *)
(***************************************************************************)
EXTENDS Integers, Sequences

CONSTANTS InitLog, Files

VARIABLE log

Added == SubSeq(log', Len(log) + 1, Len(log'))

Store(records) ==
    /\ log' = log \o Added
    /\ [i \in DOMAIN Added |-> Added[i].entry] = records

Init == log = InitLog

Next == \E records \in Files : Store(records)

Spec == Init /\ [][Next]_log
=============================================================================
