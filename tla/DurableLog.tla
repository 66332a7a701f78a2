------------------------------ MODULE DurableLog ------------------------------
(***************************************************************************)
(* What a rollout recorder promises its session: records are kept in the   *)
(* order they were accepted, a restart keeps a prefix of them, and no      *)
(* restart takes back a record that a flush has acknowledged.              *)
(***************************************************************************)
EXTENDS Naturals, Sequences

VARIABLES
  log,      \* records accepted and still known, in order
  durable,  \* how many of them are on durable storage
  acked     \* how many of them a flush has acknowledged

vars == <<log, durable, acked>>

Init == log = <<>> /\ durable = 0 /\ acked = 0

Accept ==
  /\ Len(log') > Len(log)
  /\ SubSeq(log', 1, Len(log)) = log
  /\ UNCHANGED <<durable, acked>>

Sync ==
  /\ durable' \in durable..Len(log)
  /\ UNCHANGED <<log, acked>>

Acknowledge ==
  /\ durable = Len(log)
  /\ acked' = durable
  /\ UNCHANGED <<log, durable>>

Restart ==
  /\ \E n \in durable..Len(log) : log' = SubSeq(log, 1, n)
  /\ durable' = Len(log')
  /\ UNCHANGED acked

Next == Accept \/ Sync \/ Acknowledge \/ Restart

Spec == Init /\ [][Next]_vars
===============================================================================
