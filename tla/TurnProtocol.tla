------------------------------ MODULE TurnProtocol ------------------------------
(***************************************************************************)
(* What the client of the TUI bridge relies on: one thread is announced at *)
(* a time, its turns are numbered from 1 without a gap, at most one turn   *)
(* is open, and neither a turn nor a thread begins while one is open.      *)
(***************************************************************************)
EXTENDS Naturals

CONSTANT Threads

VARIABLES
  alive,   \* the bridge's process runs
  thread,  \* the thread announced last
  open,    \* the turn that has started and not ended, 0 for none
  last     \* the number of turns the thread has started

vars == <<alive, thread, open, last>>

Init == alive = TRUE /\ thread \in Threads /\ open = 0 /\ last = 0

Announce ==
  /\ alive
  /\ open = 0
  /\ thread' \in Threads
  /\ open' = 0
  /\ last' = 0
  /\ UNCHANGED alive

Begin ==
  /\ alive
  /\ open = 0
  /\ open' = last + 1
  /\ last' = last + 1
  /\ UNCHANGED <<alive, thread>>

End ==
  /\ alive
  /\ open # 0
  /\ open' = 0
  /\ UNCHANGED <<alive, thread, last>>

(* The process ends, perhaps inside a turn; its successor starts afresh.   *)
Stop == alive /\ ~alive' /\ UNCHANGED <<thread, open, last>>

Relaunch == ~alive /\ Init'

Next == Announce \/ Begin \/ End \/ Stop \/ Relaunch

Spec == Init /\ [][Next]_vars
===============================================================================
