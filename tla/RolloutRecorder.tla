---------------------------- MODULE RolloutRecorder ----------------------------
(***************************************************************************)
(* pycodex/core/rollout_recorder.py: the queue-backed single writer of one *)
(* session's JSONL rollout file, and the reading of that file after a      *)
(* restart (rollout_replay.py).                                            *)
(*                                                                         *)
(* The session calls record, flush and shutdown one after the other.  The  *)
(* worker task takes requests until the queue is empty without giving the  *)
(* event loop away, so the session runs only when the worker is not        *)
(* draining; the process can be killed between any two steps.              *)
(***************************************************************************)
EXTENDS Naturals, Sequences, SequencesExt

CONSTANTS
  MaxRecords,   \* bound: records handed to the recorder in one behaviour
  MaxBatch,     \* bound: records in one record() call
  MaxCalls,     \* bound: flush() calls in one life of the recorder
  MaxRestarts   \* bound: restarts of the process

ASSUME RecorderAssumption ==
  /\ MaxRecords \in Nat
  /\ MaxBatch \in Nat \ {0}
  /\ MaxCalls \in Nat
  /\ MaxRestarts \in Nat

Records == 1..MaxRecords

(* How the file ends: after a newline, in the middle of a record (perhaps  *)
(* inside a multi-byte character), or with a whole record and no newline.  *)
Tails == {"newline", "partial", "split_char", "unterminated"}

Request == [op : {"write", "flush", "orphan", "shutdown"}, items : Seq(Records)]

VARIABLES
  queue,     \* requests the worker has not taken
  worker,    \* none, scheduled, draining, waiting, failed, stopped, cancelled
  closed,    \* RolloutRecorder._closed
  disk,      \* records synced to the file
  unsynced,  \* records written to the handle and not yet synced
  tail,      \* how the file ends
  spoiled,   \* a record was appended to a line that was not finished
  session,   \* what the session is doing
  reply,     \* the future of the session's flush or shutdown
  accepted,  \* records the session holds as persisted, in order
  acked,     \* length of accepted at the last flush that returned normally
  issued,    \* records handed out so far
  calls,     \* flush() calls in this life of the recorder
  restarts   \* restarts so far

requests == <<queue, worker, closed>>
file == <<disk, unsynced, tail, spoiled>>
client == <<session, reply>>
history == <<accepted, acked, issued>>
bounds == <<calls, restarts>>
vars == <<queue, worker, closed, disk, unsynced, tail, spoiled, session, reply,
          accepted, acked, issued, calls, restarts>>

TypeOK ==
  /\ queue \in Seq(Request)
  /\ worker \in {"none", "scheduled", "draining", "waiting", "failed", "stopped", "cancelled"}
  /\ closed \in BOOLEAN
  /\ disk \in Seq(Records)
  /\ unsynced \in Seq(Records)
  /\ tail \in Tails
  /\ spoiled \in BOOLEAN
  /\ session \in {"idle", "flush", "shutdown", "down", "rejected"}
  /\ reply \in {"none", "ok", "error"}
  /\ accepted \in Seq(Records)
  /\ acked \in Nat
  /\ issued \in 0..MaxRecords
  /\ calls \in 0..MaxCalls
  /\ restarts \in 0..MaxRestarts

Init ==
  /\ queue = <<>>
  /\ worker = "none"
  /\ closed = FALSE
  /\ disk = <<>>
  /\ unsynced = <<>>
  /\ tail = "newline"
  /\ spoiled = FALSE
  /\ session = "idle"
  /\ reply = "none"
  /\ accepted = <<>>
  /\ acked = 0
  /\ issued = 0
  /\ calls = 0
  /\ restarts = 0

-------------------------------------------------------------------------------
(* The session's calls.                                                    *)

(* On a closed recorder record() raises, flush() and shutdown() return at  *)
(* once: nothing changes.                                                  *)
SessionRuns == session = "idle" /\ worker # "draining" /\ ~closed

EnsureWorker == worker' = IF worker = "none" THEN "scheduled" ELSE worker

(* Faulty variant of Put: batches carry a tag the worker does not know.    *)
PutMistagged(op, items) ==
  queue' = Append(queue, [op |-> IF op = "write" THEN "batch" ELSE op, items |-> items])

Put(op, items) == queue' = Append(queue, [op |-> op, items |-> items])

Record(n) ==
  LET items == [i \in 1..n |-> issued + i]
  IN  /\ SessionRuns
      /\ issued + n <= MaxRecords
      /\ EnsureWorker
      /\ Put("write", items)
      /\ accepted' = accepted \o items
      /\ issued' = issued + n
      /\ UNCHANGED <<closed, file, client, acked, bounds>>

Call(op) ==
  /\ SessionRuns
  /\ EnsureWorker
  /\ Put(op, <<>>)
  /\ session' = op
  /\ reply' = "none"
  /\ UNCHANGED <<closed, file, history, restarts>>

Flush == calls < MaxCalls /\ Call("flush") /\ calls' = calls + 1

Shutdown == Call("shutdown") /\ UNCHANGED calls

(* The awaited future is resolved.                                         *)
CallReturns ==
  /\ session \in {"flush", "shutdown"}
  /\ worker # "draining"
  /\ reply # "none"
  /\ session' = "idle"
  /\ acked' = IF reply = "ok" THEN Len(accepted) ELSE acked
  /\ closed' = (closed \/ (session = "shutdown" /\ reply = "ok"))
  /\ UNCHANGED <<queue, worker, file, reply, accepted, issued, bounds>>

(* Faulty variant of Timeout: the futures are awaited with no time limit.  *)
NoTimeout == FALSE /\ UNCHANGED vars

(* wait_for expires, whether or not the request was served: the recorder   *)
(* is closed and the worker task cancelled.                                *)
Timeout ==
  /\ session \in {"flush", "shutdown"}
  /\ worker # "draining"
  /\ session' = "idle"
  /\ closed' = TRUE
  /\ worker' = IF worker \in {"scheduled", "waiting"} THEN "cancelled" ELSE worker
  /\ UNCHANGED <<queue, file, reply, history, bounds>>

(* The turn is cancelled during its flush: the request stays in the queue  *)
(* and nobody waits for it.                                                *)
CancelFlush ==
  /\ session = "flush"
  /\ worker # "draining"
  /\ session' = "idle"
  /\ queue' = [i \in DOMAIN queue |->
                 IF queue[i].op = "flush" THEN [op |-> "orphan", items |-> <<>>] ELSE queue[i]]
  /\ UNCHANGED <<worker, closed, file, reply, history, bounds>>

-------------------------------------------------------------------------------
(* The worker task.                                                        *)

(* Faulty variant of WorkerStarts: every line without newline is cut back. *)
WorkerStartsCutting ==
  /\ worker = "scheduled"
  /\ worker' = "draining"
  /\ tail' = "newline"
  /\ disk' = IF tail = "unterminated" THEN Front(disk) ELSE disk
  /\ UNCHANGED <<queue, closed, unsynced, spoiled, client, history, bounds>>

(* _guard_newline_boundary, then open for append: a partial tail is cut    *)
(* back to the last newline, a whole record gets its newline.              *)
WorkerStarts ==
  /\ worker = "scheduled"
  /\ worker' = "draining"
  /\ tail' = "newline"
  /\ UNCHANGED <<queue, closed, disk, unsynced, spoiled, client, history, bounds>>

WorkerWakes ==
  /\ worker = "waiting"
  /\ queue # <<>>
  /\ worker' = "draining"
  /\ UNCHANGED <<queue, closed, file, client, history, bounds>>

Taken(op) == worker = "draining" /\ queue # <<>> /\ Head(queue).op = op /\ queue' = Tail(queue)

WriteBatch ==
  /\ Taken("write")
  /\ unsynced' = unsynced \o Head(queue).items
  /\ spoiled' = (spoiled \/ tail # "newline")
  /\ tail' = "newline"
  /\ UNCHANGED <<worker, closed, disk, client, history, bounds>>

Sync ==
  /\ disk' = disk \o unsynced
  /\ unsynced' = <<>>
  /\ UNCHANGED <<tail, spoiled>>

ServeFlush ==
  /\ \/ Taken("flush") /\ reply' = "ok"
     \/ Taken("orphan") /\ UNCHANGED reply
  /\ Sync
  /\ UNCHANGED <<worker, closed, session, history, bounds>>

ServeShutdown ==
  /\ Taken("shutdown")
  /\ Sync
  /\ reply' = "ok"
  /\ worker' = "stopped"
  /\ UNCHANGED <<closed, session, history, bounds>>

WorkerSleeps ==
  /\ worker = "draining"
  /\ queue = <<>>
  /\ worker' = "waiting"
  /\ UNCHANGED <<queue, closed, file, client, history, bounds>>

(* Faulty variant of WorkerFails: the next call starts a new worker.       *)
WorkerRespawns ==
  /\ worker = "draining" /\ queue # <<>>
  /\ worker' = "none"
  /\ queue' = <<>>
  /\ UNCHANGED <<closed, file, client, history, bounds>>

(* The guard, open, a write or an fsync raises.  The request in service is *)
(* dropped: a batch may be in the file in part, a future stays unresolved. *)
(* The queue is drained; the waiters still in it get the exception.        *)
WorkerFails ==
  /\ \/ worker = "scheduled" /\ UNCHANGED <<unsynced, tail>>
     \/ /\ worker = "draining" /\ queue # <<>>
        /\ unsynced' = unsynced \o Head(queue).items
        /\ tail' = IF unsynced' = <<>> THEN tail ELSE "newline"
  /\ LET first == IF worker = "scheduled" THEN 1 ELSE 2
     IN  reply' = IF \E i \in first..Len(queue) : queue[i].op \in {"flush", "shutdown"}
                    THEN "error" ELSE reply
  /\ worker' = "failed"
  /\ closed' = TRUE
  /\ queue' = <<>>
  /\ UNCHANGED <<disk, spoiled, session, history, bounds>>

-------------------------------------------------------------------------------
(* What a kill or a failed write leaves of the records not yet synced: a   *)
(* prefix, perhaps a piece of the next record, perhaps no final newline.   *)
Survives(keep) ==
  /\ disk' = disk \o SubSeq(unsynced, 1, keep)
  /\ tail' \in {"newline"}
       \union (IF keep < Len(unsynced) THEN {"partial", "split_char"} ELSE {})
       \union (IF keep > 0 THEN {"unterminated"} ELSE {})

(* The process is killed or exits; its unsynced records may be lost.       *)
Restart ==
  /\ restarts < MaxRestarts
  /\ session # "rejected"
  /\ IF unsynced = <<>>
       THEN UNCHANGED <<disk, tail>>
       ELSE \E keep \in 0..Len(unsynced) : Survives(keep)
  /\ unsynced' = <<>>
  /\ queue' = <<>>
  /\ worker' = "none"
  /\ closed' = FALSE
  /\ session' = "down"
  /\ reply' = "none"
  /\ accepted' = disk'
  /\ calls' = 0
  /\ restarts' = restarts + 1
  /\ UNCHANGED <<spoiled, acked, issued>>

(* replay_rollout reads the file before a new recorder opens it.  A piece  *)
(* of a record is ignored with a warning; a piece of a character makes     *)
(* read_text raise UnicodeDecodeError, and the session is not resumed.     *)
Resume ==
  /\ session = "down"
  /\ session' = IF tail = "split_char" THEN "rejected" ELSE "idle"
  /\ UNCHANGED <<requests, file, reply, history, bounds>>

(* Nothing more is asked of this recorder.                                 *)
Idle == session \in {"idle", "rejected"} /\ UNCHANGED vars

WorkerStep ==
  \/ WorkerStarts \/ WorkerWakes \/ WriteBatch \/ ServeFlush \/ ServeShutdown \/ WorkerSleeps

Next ==
  \/ \E n \in 1..MaxBatch : Record(n)
  \/ Flush
  \/ Shutdown
  \/ CallReturns
  \/ Timeout
  \/ CancelFlush
  \/ WorkerStep
  \/ WorkerFails
  \/ Restart
  \/ Resume
  \/ Idle

Spec == Init /\ [][Next]_vars

(* The event loop runs the ready worker, the resolved call and the expired *)
(* timer; disks, users and kills are not fair.                             *)
Fairness == WF_vars(WorkerStep) /\ WF_vars(CallReturns) /\ WF_vars(Timeout)

FairSpec == Spec /\ Fairness

-------------------------------------------------------------------------------
(* The file is always a prefix of what the session believes persisted:     *)
(* no record is skipped, duplicated or overtaken, and none is appended to  *)
(* an unfinished line, over failures, cancelled flushes, timeouts and      *)
(* restarts.                                                               *)
FileIsPrefix == ~spoiled /\ IsPrefix(disk \o unsynced, accepted)

(* Every flush and shutdown returns or raises, even when the worker died   *)
(* with the request in its hands.                                          *)
CallsReturn == session \in {"flush", "shutdown"} ~> session \notin {"flush", "shutdown"}

(* "Crash/truncation recovery replays to last valid record".               *)
CrashRecoverable == session # "rejected"

(* Acknowledged records survive; see DurableLog.                           *)
Log == INSTANCE DurableLog WITH log <- accepted, durable <- Len(disk)

LogSpec == Log!Spec
===============================================================================
