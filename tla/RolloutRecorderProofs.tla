------------------------- MODULE RolloutRecorderProofs -------------------------
(***************************************************************************)
(* The rollout file is a faithful prefix of what the session believes      *)
(* persisted, and the recorder implements DurableLog, for any number of    *)
(* records, calls and restarts.                                            *)
(***************************************************************************)
EXTENDS RolloutRecorder, SequenceTheorems, TLAPS

-------------------------------------------------------------------------------
(* Where the accepted records are.                                         *)

StartsWith(t, s) == Len(s) <= Len(t) /\ \A i \in 1..Len(s) : t[i] = s[i]

(* The requests of q hold, one after the other, the records of log that    *)
(* come after its first base ones: request i those up to offset[i].        *)
Layout(offset, q, base, log) ==
  /\ offset[0] = base
  /\ offset[Len(q)] = Len(log)
  /\ \A i \in 1..Len(q) :
       /\ offset[i] = offset[i - 1] + Len(q[i].items)
       /\ \A j \in 1..Len(q[i].items) : log[offset[i - 1] + j] = q[i].items[j]

LaidOut(q, base, log) ==
  \E offset \in [0..Len(q) -> 0..Len(log)] : Layout(offset, q, base, log)

WriterAlive == worker \in {"none", "scheduled", "draining", "waiting"}

(* While the worker lives, every accepted record is on disk, in the handle *)
(* or in the queue, in this order.                                         *)
AllAccounted == WriterAlive => LaidOut(queue, Len(disk) + Len(unsynced), accepted)

Written == StartsWith(accepted, disk \o unsynced)

WriterAtNewline == worker \in {"draining", "waiting"} => tail = "newline"

Unspoiled == ~spoiled

OnlyWritesCarry == \A i \in 1..Len(queue) : queue[i].op # "write" => queue[i].items = <<>>

(* A worker that is gone is never handed anything: the recorder is closed, *)
(* or the shutdown that stopped it is about to close it.                   *)
GoneMeansClosed ==
  /\ worker \in {"failed", "cancelled"} => closed
  /\ worker = "stopped" => closed \/ (session = "shutdown" /\ reply = "ok")

(* The session waits for the last request of the queue, if for any.        *)
AwaitedIsLast ==
  \A i \in 1..Len(queue) : queue[i].op \in {"flush", "shutdown"} =>
    /\ i = Len(queue)
    /\ closed \/ (session = queue[i].op /\ reply = "none")

OkMeansSynced == session \in {"flush", "shutdown"} /\ reply = "ok" => Len(disk) = Len(accepted)

AckedOnDisk == acked <= Len(disk)

ProtocolInv ==
  /\ WriterAtNewline
  /\ Unspoiled
  /\ OnlyWritesCarry
  /\ GoneMeansClosed
  /\ AwaitedIsLast

AccountInv ==
  /\ AllAccounted
  /\ Written
  /\ OkMeansSynced
  /\ AckedOnDisk

-------------------------------------------------------------------------------
(* How the layout of the queue changes with the queue.                     *)

(* A new last request carries the new last records.                        *)
LEMMA LaidOutAppend ==
  ASSUME NEW q \in Seq(Request), NEW base, NEW log \in Seq(Records), NEW r \in Request,
         LaidOut(q, base, log)
  PROVE  LaidOut(Append(q, r), base, log \o r.items)
<1> DEFINE L == Len(q)
           N == Len(log)
           grown == log \o r.items
           p == Append(q, r)
<1>1. L \in Nat /\ N \in Nat /\ r.items \in Seq(Records) /\ Len(r.items) \in Nat
  BY DEF Request
<1>2. Len(grown) = N + Len(r.items) /\ \A j \in 1..N : grown[j] = log[j]
  BY <1>1
<1>3. \A j \in 1..Len(r.items) : grown[N + j] = r.items[j]
  BY <1>1
<1>4. PICK off \in [0..L -> 0..N] : Layout(off, q, base, log)
  BY DEF LaidOut
<1>5. Len(p) = L + 1 /\ p[L + 1] = r /\ \A i \in 1..L : p[i] = q[i]
  BY AppendProperties
<1> DEFINE new == [i \in 0..(L + 1) |-> IF i = L + 1 THEN Len(grown) ELSE off[i]]
<1>6. new \in [0..(L + 1) -> 0..Len(grown)]
  BY <1>1, <1>2
<1>7. new[L + 1] = Len(grown) /\ \A i \in 0..L : new[i] = off[i] /\ off[i] \in 0..N
  <2>1. L + 1 \in 0..(L + 1) /\ \A i \in 0..L : i \in 0..(L + 1) /\ i # L + 1
    BY <1>1
  <2>2. \A i \in 0..L : off[i] \in 0..N
    BY <1>4
  <2> HIDE DEF L, N
  <2> QED
    BY <2>1, <2>2
<1> HIDE DEF new, p, grown
<1>8. new[0] = base /\ new[L] = N
  BY <1>1, <1>4, <1>7 DEF Layout
<1>9. ASSUME NEW i \in 1..L
      PROVE  /\ new[i] = new[i - 1] + Len(p[i].items)
             /\ \A j \in 1..Len(p[i].items) : grown[new[i - 1] + j] = p[i].items[j]
  <2>1. p[i] = q[i] /\ Len(q[i].items) \in Nat
    BY <1>5 DEF Request
  <2>2. /\ new[i] = off[i] /\ off[i] \in 0..N
        /\ new[i - 1] = off[i - 1] /\ off[i - 1] \in 0..N
        /\ off[i] = off[i - 1] + Len(q[i].items)
    BY <1>1, <1>4, <1>7 DEF Layout
  <2>3. ASSUME NEW j \in 1..Len(q[i].items)
        PROVE  grown[off[i - 1] + j] = q[i].items[j]
    <3>1. off[i - 1] + j \in 1..N
      BY <1>1, <2>1, <2>2
    <3> QED
      BY <1>2, <1>4, <3>1 DEF Layout
  <2> QED
    BY <2>1, <2>2, <2>3
<1>10. /\ new[L + 1] = new[L] + Len(p[L + 1].items)
       /\ \A j \in 1..Len(p[L + 1].items) : grown[new[L] + j] = p[L + 1].items[j]
  BY <1>2, <1>3, <1>5, <1>7, <1>8
<1>11. Layout(new, p, base, grown)
  <2> SUFFICES ASSUME NEW i \in 1..(L + 1)
               PROVE  /\ new[i] = new[i - 1] + Len(p[i].items)
                      /\ \A j \in 1..Len(p[i].items) : grown[new[i - 1] + j] = p[i].items[j]
    BY <1>5, <1>7, <1>8 DEF Layout
  <2>1. CASE i = L + 1
    <3>1. i - 1 = L
      BY <1>1, <2>1
    <3> QED
      BY <1>10, <2>1, <3>1
  <2>2. CASE i # L + 1
    <3>1. i \in 1..L
      BY <1>1, <2>2
    <3> QED
      BY <1>9, <3>1
  <2> QED
    BY <2>1, <2>2
<1> QED
  BY <1>5, <1>6, <1>11 DEF LaidOut, p, grown

(* The first request carries the records that come next.                   *)
LEMMA LaidOutTail ==
  ASSUME NEW q \in Seq(Request), q # <<>>, NEW base, NEW log \in Seq(Records),
         LaidOut(q, base, log)
  PROVE  /\ LaidOut(Tail(q), base + Len(Head(q).items), log)
         /\ base + Len(Head(q).items) <= Len(log)
         /\ \A j \in 1..Len(Head(q).items) : log[base + j] = Head(q).items[j]
<1> DEFINE L == Len(q)
           N == Len(log)
           p == Tail(q)
<1>1. L \in Nat \ {0} /\ N \in Nat /\ Head(q) = q[1]
  BY EmptySeq
<1>2. PICK off \in [0..L -> 0..N] : Layout(off, q, base, log)
  BY DEF LaidOut
<1>3. Len(p) = L - 1 /\ \A i \in 1..(L - 1) : p[i] = q[i + 1]
  BY <1>1, HeadTailProperties
<1>4. /\ off[1] = base + Len(Head(q).items) /\ off[1] \in 0..N
      /\ \A j \in 1..Len(Head(q).items) : log[base + j] = Head(q).items[j]
  BY <1>1, <1>2 DEF Layout
<1> DEFINE new == [i \in 0..(L - 1) |-> off[i + 1]]
<1>5. new \in [0..(L - 1) -> 0..N] /\ \A i \in 0..(L - 1) : new[i] = off[i + 1]
  BY <1>1
<1> HIDE DEF new, p
<1>6. new[0] = off[1] /\ new[L - 1] = N
  BY <1>1, <1>2, <1>5 DEF Layout
<1>7. ASSUME NEW i \in 1..(L - 1)
      PROVE  /\ new[i] = new[i - 1] + Len(p[i].items)
             /\ \A j \in 1..Len(p[i].items) : log[new[i - 1] + j] = p[i].items[j]
  <2>1. i + 1 \in 1..L /\ new[i] = off[i + 1] /\ new[i - 1] = off[i] /\ (i + 1) - 1 = i
    BY <1>1, <1>5
  <2>2. \A k \in 1..L : /\ off[k] = off[k - 1] + Len(q[k].items)
                        /\ \A j \in 1..Len(q[k].items) : log[off[k - 1] + j] = q[k].items[j]
    BY <1>2 DEF Layout
  <2>3. /\ off[i + 1] = off[i] + Len(q[i + 1].items)
        /\ \A j \in 1..Len(q[i + 1].items) : log[off[i] + j] = q[i + 1].items[j]
    BY <2>1, <2>2
  <2> QED
    BY <1>3, <2>1, <2>3
<1>8. Layout(new, p, off[1], log)
  BY <1>3, <1>6, <1>7 DEF Layout
<1>9. LaidOut(p, off[1], log)
  BY <1>3, <1>5, <1>8 DEF LaidOut
<1> QED
  BY <1>4, <1>9 DEF p

(* Only the records that requests carry matter.                            *)
LEMMA LaidOutSame ==
  ASSUME NEW q \in Seq(Request), NEW p \in Seq(Request), NEW base, NEW log \in Seq(Records),
         Len(p) = Len(q), \A i \in 1..Len(q) : p[i].items = q[i].items,
         LaidOut(q, base, log)
  PROVE  LaidOut(p, base, log)
<1>1. PICK off \in [0..Len(q) -> 0..Len(log)] : Layout(off, q, base, log)
  BY DEF LaidOut
<1>2. \A i \in 1..Len(q) :
        /\ off[i] = off[i - 1] + Len(p[i].items)
        /\ \A j \in 1..Len(p[i].items) : log[off[i - 1] + j] = p[i].items[j]
  BY <1>1, Zenon DEF Layout
<1>3. Layout(off, p, base, log)
  BY <1>1, <1>2, Zenon DEF Layout
<1> QED
  BY <1>1, <1>3, Zenon DEF LaidOut

(* An empty queue leaves no record out.                                    *)
LEMMA LaidOutEmpty ==
  ASSUME NEW base, NEW log \in Seq(Records)
  PROVE  LaidOut(<<>>, base, log) <=> base = Len(log)
<1>1. ASSUME base = Len(log) PROVE LaidOut(<<>>, base, log)
  <2> DEFINE off == [i \in 0..0 |-> base]
  <2>1. off \in [0..0 -> 0..Len(log)] /\ off[0] = base
    BY <1>1
  <2> HIDE DEF off
  <2>2. Layout(off, <<>>, base, log)
    BY <1>1, <2>1 DEF Layout
  <2>3. Len(<<>>) = 0
    OBVIOUS
  <2> QED
    BY <2>1, <2>2, <2>3 DEF LaidOut
<1>2. LaidOut(<<>>, base, log) => base = Len(log)
  BY DEF LaidOut, Layout
<1> QED
  BY <1>1, <1>2

-------------------------------------------------------------------------------
(* The request the worker takes, and what stays in the queue.              *)
LEMMA HeadLaid ==
  ASSUME TypeOK, queue # <<>>
  PROVE  /\ Head(queue) \in Request
         /\ Head(queue) = queue[1]
         /\ Head(queue).items \in Seq(Records)
         /\ unsynced \o Head(queue).items \in Seq(Records)
         /\ Tail(queue) \in Seq(Request)
         /\ Len(queue) \in Nat \ {0}
         /\ Len(Tail(queue)) = Len(queue) - 1
         /\ \A i \in 1..(Len(queue) - 1) : Tail(queue)[i] = queue[i + 1]
<1>1. Head(queue) \in Request /\ Tail(queue) \in Seq(Request) /\ Len(queue) \in Nat \ {0}
  BY HeadTailProperties, EmptySeq DEF TypeOK
<1>2. Len(Tail(queue)) = Len(queue) - 1
  BY HeadTailProperties DEF TypeOK
<1>3. \A i \in 1..(Len(queue) - 1) : Tail(queue)[i] = queue[i + 1]
  BY <1>2, HeadTailProperties DEF TypeOK
<1>4. Head(queue).items \in Seq(Records)
  BY <1>1 DEF Request
<1>5. unsynced \o Head(queue).items \in Seq(Records)
  BY <1>4, ConcatProperties DEF TypeOK
<1>6. Head(queue) = queue[1]
  BY DEF TypeOK
<1> QED
  BY <1>1, <1>2, <1>3, <1>4, <1>5, <1>6

(* A request that the session puts into the queue is well formed.          *)
LEMMA TypeStep == ASSUME TypeOK, [Next]_vars PROVE TypeOK'
<1> USE RecorderAssumption DEF TypeOK
<1>1. CASE UNCHANGED vars
  BY <1>1 DEF vars
<1>2. ASSUME NEW n \in 1..MaxBatch, Record(n) PROVE TypeOK'
  <2> DEFINE batch == [i \in 1..n |-> issued + i]
  <2>1. batch \in Seq(Records)
    BY <1>2 DEF Record, Records
  <2> HIDE DEF batch
  <2>2. [op |-> "write", items |-> batch] \in Request
    BY <2>1 DEF Request
  <2>3. queue' \in Seq(Request) /\ accepted' \in Seq(Records)
    BY <1>2, <2>1, <2>2 DEF Record, Put, batch
  <2> QED
    BY <1>2, <2>3 DEF Record, EnsureWorker, file, client, bounds
<1>3. ASSUME NEW call \in {"flush", "shutdown"}, Call(call) PROVE TypeOK' \/ calls' # calls
  <2>1. [op |-> call, items |-> <<>>] \in Request
    BY DEF Request
  <2>2. queue' \in Seq(Request)
    BY <1>3, <2>1 DEF Call, Put
  <2> QED
    BY <1>3, <2>2 DEF Call, EnsureWorker, file, history
<1>4. ASSUME Flush PROVE TypeOK'
  <2>1. [op |-> "flush", items |-> <<>>] \in Request
    BY DEF Request
  <2>2. queue' \in Seq(Request)
    BY <1>4, <2>1 DEF Flush, Call, Put
  <2> QED
    BY <1>4, <2>2 DEF Flush, Call, EnsureWorker, file, history
<1>5. ASSUME Shutdown PROVE TypeOK'
  BY <1>3, <1>5 DEF Shutdown
<1>6. ASSUME CallReturns PROVE TypeOK'
  BY <1>6 DEF CallReturns, file, bounds
<1>7. ASSUME Timeout PROVE TypeOK'
  BY <1>7 DEF Timeout, file, history, bounds
<1>8. ASSUME CancelFlush PROVE TypeOK'
  <2>1. [op |-> "orphan", items |-> <<>>] \in Request
    BY DEF Request
  <2>2. queue' \in Seq(Request)
    BY <1>8, <2>1 DEF CancelFlush
  <2> QED
    BY <1>8, <2>2 DEF CancelFlush, file, history, bounds
<1>9. ASSUME WorkerStarts \/ WorkerWakes \/ WorkerSleeps PROVE TypeOK'
  BY <1>9 DEF WorkerStarts, WorkerWakes, WorkerSleeps, Tails, file, client, history, bounds
<1>10. ASSUME WriteBatch PROVE TypeOK'
  <2>1. unsynced \o Head(queue).items \in Seq(Records) /\ Tail(queue) \in Seq(Request)
    BY <1>10, HeadLaid DEF WriteBatch, Taken
  <2> QED
    BY <1>10, <2>1 DEF WriteBatch, Taken, Tails, client, history, bounds
<1>11. ASSUME ServeFlush \/ ServeShutdown PROVE TypeOK'
  <2>1. Tail(queue) \in Seq(Request) /\ disk \o unsynced \in Seq(Records) /\ <<>> \in Seq(Records)
    BY <1>11, HeadLaid, ConcatProperties, EmptySeq DEF ServeFlush, ServeShutdown, Taken
  <2> QED
    BY <1>11, <2>1 DEF ServeFlush, ServeShutdown, Taken, Sync, history, bounds
<1>12. ASSUME WorkerFails PROVE TypeOK'
  <2>1. unsynced' \in Seq(Records) /\ tail' \in Tails
    BY <1>12, HeadLaid DEF WorkerFails, Tails
  <2>2. <<>> \in Seq(Request)
    BY EmptySeq
  <2> QED
    BY <1>12, <2>1, <2>2 DEF WorkerFails, history, bounds
<1>13. ASSUME Restart PROVE TypeOK'
  <2>1. disk' \in Seq(Records) /\ tail' \in Tails
    <3>1. CASE unsynced = <<>>
      BY <1>13, <3>1 DEF Restart
    <3>2. CASE unsynced # <<>>
      <4>1. PICK keep \in 0..Len(unsynced) : Survives(keep)
        BY <1>13, <3>2 DEF Restart
      <4>2. SubSeq(unsynced, 1, keep) \in Seq(Records)
        BY <4>1
      <4> QED
        BY <4>1, <4>2, ConcatProperties DEF Survives, Tails
    <3> QED
      BY <3>1, <3>2
  <2>2. queue' \in Seq(Request)
    BY <1>13, EmptySeq DEF Restart
  <2>3. unsynced' \in Seq(Records) /\ accepted' \in Seq(Records)
    BY <1>13, <2>1, EmptySeq DEF Restart
  <2>4. calls' \in 0..MaxCalls /\ restarts' \in 0..MaxRestarts
    BY <1>13 DEF Restart
  <2> QED
    BY <1>13, <2>1, <2>2, <2>3, <2>4 DEF Restart
<1>14. ASSUME Resume \/ Idle PROVE TypeOK'
  BY <1>14 DEF Resume, Idle, vars, requests, file, history, bounds
<1> QED
  BY <1>1, <1>2, <1>4, <1>5, <1>6, <1>7, <1>8, <1>9, <1>10, <1>11, <1>12, <1>13, <1>14
     DEF Next, WorkerStep

(* The state keeps its type.                                               *)
THEOREM TypeCorrect == Spec => []TypeOK
<1>1. Init => TypeOK
  <2>1. <<>> \in Seq(Request) /\ <<>> \in Seq(Records)
    BY EmptySeq
  <2> SUFFICES ASSUME Init PROVE TypeOK
    OBVIOUS
  <2>2. queue \in Seq(Request)
    BY <2>1 DEF Init
  <2>3. disk \in Seq(Records) /\ unsynced \in Seq(Records) /\ accepted \in Seq(Records)
    BY <2>1 DEF Init
  <2>4. issued \in 0..MaxRecords /\ calls \in 0..MaxCalls /\ restarts \in 0..MaxRestarts
    BY RecorderAssumption DEF Init
  <2> QED
    BY <2>2, <2>3, <2>4 DEF Init, TypeOK, Tails
<1> QED
  BY <1>1, TypeStep, PTL DEF Spec

-------------------------------------------------------------------------------
(* What a call of the session adds to the queue.                           *)
LEMMA PutAppends ==
  ASSUME TypeOK, NEW r \in Request, queue' = Append(queue, r)
  PROVE  /\ Len(queue) \in Nat
         /\ Len(queue') = Len(queue) + 1
         /\ \A i \in 1..Len(queue') :
              \/ i \in 1..Len(queue) /\ queue'[i] = queue[i]
              \/ i = Len(queue) + 1 /\ queue'[i] = r
<1>1. Len(queue) \in Nat
  BY DEF TypeOK
<1>2. /\ Len(queue') = Len(queue) + 1
      /\ queue'[Len(queue) + 1] = r
      /\ \A i \in 1..Len(queue) : queue'[i] = queue[i]
  BY AppendProperties DEF TypeOK
<1>3. ASSUME NEW i \in 1..Len(queue')
      PROVE  \/ i \in 1..Len(queue) /\ queue'[i] = queue[i]
             \/ i = Len(queue) + 1 /\ queue'[i] = r
  <2>1. i \in 1..Len(queue) \/ i = Len(queue) + 1
    BY <1>1, <1>2
  <2> QED
    BY <1>2, <2>1
<1> QED
  BY <1>1, <1>2, <1>3

(* What the worker leaves in the queue when it takes a request: nothing if *)
(* the session was waiting for that one.                                   *)
LEMMA TakenKeeps ==
  ASSUME TypeOK, ProtocolInv, NEW call, Taken(call)
  PROVE  /\ OnlyWritesCarry'
         /\ call # "write" => Head(queue).items = <<>>
         /\ call \in {"flush", "shutdown"} => queue' = <<>>
         /\ (UNCHANGED <<closed, session, reply>>) => AwaitedIsLast'
<1>1. queue # <<>> /\ queue' = Tail(queue) /\ Head(queue).op = call
  BY DEF Taken
<1>2. /\ Len(queue) \in Nat \ {0} /\ Len(queue') = Len(queue) - 1 /\ Head(queue) = queue[1]
      /\ \A i \in 1..(Len(queue) - 1) : queue'[i] = queue[i + 1]
  BY <1>1, HeadLaid
<1>3. \A i \in 1..Len(queue') : i + 1 \in 1..Len(queue) /\ queue'[i] = queue[i + 1]
  BY <1>2
<1>4. 1 \in 1..Len(queue) /\ queue[1].op = call
  BY <1>1, <1>2
<1>5. OnlyWritesCarry' /\ (call # "write" => Head(queue).items = <<>>)
  BY <1>2, <1>3, <1>4 DEF ProtocolInv, OnlyWritesCarry
<1>6. \A i \in 1..Len(queue) : queue[i].op \in {"flush", "shutdown"} => i = Len(queue)
  BY DEF ProtocolInv, AwaitedIsLast
<1>7. ASSUME call \in {"flush", "shutdown"} PROVE queue' = <<>>
  <2>1. queue[1].op \in {"flush", "shutdown"}
    BY <1>4, <1>7
  <2>2. 1 = Len(queue)
    BY <1>4, <1>6, <2>1
  <2>3. queue' \in Seq(Request) /\ Len(queue') = 0
    BY <1>1, <1>2, <2>2, HeadLaid
  <2> QED
    BY <2>3, EmptySeq
<1>8. ASSUME UNCHANGED <<closed, session, reply>> PROVE AwaitedIsLast'
  <2>1. \A i \in 1..Len(queue') : queue'[i].op \in {"flush", "shutdown"} => i = Len(queue')
    BY <1>2, <1>3, <1>6
  <2>2. \A i \in 1..Len(queue) :
          queue[i].op \in {"flush", "shutdown"} =>
            closed \/ (session = queue[i].op /\ reply = "none")
    BY DEF ProtocolInv, AwaitedIsLast
  <2>3. \A i \in 1..Len(queue') :
          queue'[i].op \in {"flush", "shutdown"} =>
            closed \/ (session = queue'[i].op /\ reply = "none")
    BY <1>3, <2>2
  <2> QED
    BY <1>8, <2>1, <2>3 DEF AwaitedIsLast
<1> QED
  BY <1>5, <1>7, <1>8

(* The session never has two requests outstanding, nor hands one to a      *)
(* worker that is gone.                                                    *)
LEMMA ProtocolStep == ASSUME TypeOK, ProtocolInv, [Next]_vars PROVE ProtocolInv'
<1> USE DEF ProtocolInv, WriterAtNewline, Unspoiled, OnlyWritesCarry, GoneMeansClosed,
            AwaitedIsLast
<1>1. CASE UNCHANGED vars
  BY <1>1 DEF vars
<1>2. ASSUME SessionRuns
      PROVE  \A i \in 1..Len(queue) : queue[i].op \notin {"flush", "shutdown"}
  BY <1>2 DEF SessionRuns
<1>3. ASSUME NEW n \in 1..MaxBatch, Record(n) PROVE ProtocolInv'
  <2> DEFINE batch == [i \in 1..n |-> issued + i]
             r == [op |-> "write", items |-> batch]
  <2>1. batch \in Seq(Records)
    BY <1>3, RecorderAssumption DEF Record, Records, TypeOK
  <2> HIDE DEF batch
  <2>2. r \in Request /\ r.op = "write" /\ queue' = Append(queue, r)
    BY <1>3, <2>1 DEF Record, Put, Request, batch
  <2> HIDE DEF r
  <2>3. \A i \in 1..Len(queue') :
          \/ i \in 1..Len(queue) /\ queue'[i] = queue[i]
          \/ queue'[i] = r
    BY <2>2, PutAppends
  <2>4. \A i \in 1..Len(queue') : queue'[i].op \notin {"flush", "shutdown"}
    BY <1>2, <1>3, <2>2, <2>3 DEF Record
  <2>5. OnlyWritesCarry' /\ AwaitedIsLast'
    BY <2>2, <2>3, <2>4
  <2> QED
    BY <1>3, <2>5 DEF Record, SessionRuns, EnsureWorker, file, client
<1>4. ASSUME NEW call \in {"flush", "shutdown"}, Call(call) PROVE ProtocolInv'
  <2> DEFINE r == [op |-> call, items |-> <<>>]
  <2>1. r \in Request /\ r.op = call /\ r.items = <<>> /\ queue' = Append(queue, r)
    BY <1>4, EmptySeq DEF Call, Put, Request
  <2> HIDE DEF r
  <2>2. \A i \in 1..Len(queue') :
          \/ i \in 1..Len(queue) /\ queue'[i] = queue[i]
          \/ i = Len(queue') /\ queue'[i] = r
    BY <2>1, PutAppends
  <2>3. \A i \in 1..Len(queue') :
          queue'[i].op \in {"flush", "shutdown"} => i = Len(queue') /\ queue'[i].op = call
    BY <1>2, <1>4, <2>1, <2>2 DEF Call
  <2>4. OnlyWritesCarry'
    BY <2>1, <2>2
  <2>5. AwaitedIsLast'
    BY <1>4, <2>3 DEF Call
  <2> QED
    BY <1>4, <2>4, <2>5 DEF Call, SessionRuns, EnsureWorker, file
<1>5. ASSUME CallReturns PROVE ProtocolInv'
  BY <1>5 DEF CallReturns, file
<1>6. ASSUME Timeout PROVE ProtocolInv'
  BY <1>6 DEF Timeout, file
<1>7. ASSUME CancelFlush PROVE ProtocolInv'
  <2>1. /\ Len(queue') = Len(queue)
        /\ \A i \in 1..Len(queue) :
             \/ queue[i].op # "flush" /\ queue'[i] = queue[i]
             \/ queue[i].op = "flush" /\ queue'[i] = [op |-> "orphan", items |-> <<>>]
    BY <1>7 DEF CancelFlush, TypeOK
  <2>2. OnlyWritesCarry'
    BY <2>1
  <2>3. \A i \in 1..Len(queue') :
          queue'[i].op \in {"flush", "shutdown"} => queue[i].op = "shutdown" /\ queue'[i] = queue[i]
    BY <2>1
  <2>4. \A i \in 1..Len(queue) : queue[i].op = "shutdown" => i = Len(queue) /\ closed
    BY <1>7 DEF CancelFlush
  <2>5. AwaitedIsLast'
    BY <1>7, <2>1, <2>3, <2>4 DEF CancelFlush
  <2> QED
    BY <1>7, <2>2, <2>5 DEF CancelFlush, file
<1>8. ASSUME WorkerStarts \/ WorkerWakes \/ WorkerSleeps PROVE ProtocolInv'
  BY <1>8 DEF WorkerStarts, WorkerWakes, WorkerSleeps, file, client
<1>9. ASSUME WriteBatch PROVE ProtocolInv'
  <2>1. OnlyWritesCarry' /\ AwaitedIsLast'
    BY <1>9, TakenKeeps DEF WriteBatch, client
  <2> QED
    BY <1>9, <2>1 DEF WriteBatch, Taken, client
<1>10. ASSUME ServeFlush \/ ServeShutdown PROVE ProtocolInv'
  <2>1. OnlyWritesCarry' /\ AwaitedIsLast'
    BY <1>10, TakenKeeps DEF ServeFlush, ServeShutdown
  <2>2. worker' = "stopped" => closed' \/ (session' = "shutdown" /\ reply' = "ok")
    BY <1>10, HeadLaid DEF ServeFlush, ServeShutdown, Taken
  <2> QED
    BY <1>10, <2>1, <2>2 DEF ServeFlush, ServeShutdown, Taken, Sync
<1>11. ASSUME WorkerFails PROVE ProtocolInv'
  BY <1>11 DEF WorkerFails
<1>12. ASSUME Restart PROVE ProtocolInv'
  BY <1>12 DEF Restart
<1>13. ASSUME Resume \/ Idle PROVE ProtocolInv'
  BY <1>13 DEF Resume, Idle, vars, requests, file
<1> QED
  BY <1>1, <1>3, <1>4, <1>5, <1>6, <1>7, <1>8, <1>9, <1>10, <1>11, <1>12, <1>13
     DEF Next, WorkerStep, Flush, Shutdown

-------------------------------------------------------------------------------
(* Growing and reaching records that have been accepted.                   *)
LEMMA StartsWithLonger ==
  ASSUME NEW s \in Seq(Records), NEW t \in Seq(Records), NEW u \in Seq(Records), StartsWith(t, s)
  PROVE  StartsWith(t \o u, s)
<1>1. Len(t \o u) = Len(t) + Len(u) /\ \A i \in 1..Len(t) : (t \o u)[i] = t[i]
  BY ConcatProperties
<1> QED
  BY <1>1 DEF StartsWith

LEMMA StartsWithMore ==
  ASSUME NEW s \in Seq(Records), NEW t \in Seq(Records), NEW u \in Seq(Records),
         StartsWith(t, s), Len(s) + Len(u) <= Len(t),
         \A j \in 1..Len(u) : t[Len(s) + j] = u[j]
  PROVE  StartsWith(t, s \o u)
<1>1. Len(s) \in Nat /\ Len(u) \in Nat
  OBVIOUS
<1>2. /\ Len(s \o u) = Len(s) + Len(u)
      /\ \A i \in 1..(Len(s) + Len(u)) : (s \o u)[i] = IF i <= Len(s) THEN s[i] ELSE u[i - Len(s)]
  BY ConcatProperties
<1>3. ASSUME NEW i \in 1..(Len(s) + Len(u)) PROVE t[i] = (s \o u)[i]
  <2>1. CASE i <= Len(s)
    BY <1>1, <1>2, <2>1 DEF StartsWith
  <2>2. CASE i > Len(s)
    <3>1. i - Len(s) \in 1..Len(u) /\ Len(s) + (i - Len(s)) = i
      BY <1>1, <2>2
    <3> QED
      BY <1>1, <1>2, <2>2, <3>1
  <2> QED
    BY <1>1, <2>1, <2>2
<1> QED
  BY <1>2, <1>3 DEF StartsWith

(* What is in the file and the handle is no longer than what is accepted.  *)
LEMMA WrittenLength ==
  ASSUME TypeOK, Written
  PROVE  /\ Len(disk) \in Nat /\ Len(unsynced) \in Nat /\ Len(accepted) \in Nat
         /\ disk \o unsynced \in Seq(Records)
         /\ Len(disk \o unsynced) = Len(disk) + Len(unsynced)
         /\ Len(disk) + Len(unsynced) <= Len(accepted)
BY ConcatProperties DEF TypeOK, Written, StartsWith

(* A restart keeps what is on disk and some of the records that were being *)
(* written: a beginning of what was accepted.                              *)
LEMMA RestartKeeps ==
  ASSUME TypeOK, Written, Restart
  PROVE  /\ Len(disk') \in Len(disk)..Len(accepted)
         /\ disk' = SubSeq(accepted, 1, Len(disk'))
<1>1. /\ Len(disk) \in Nat /\ Len(unsynced) \in Nat /\ Len(accepted) \in Nat
      /\ Len(disk) + Len(unsynced) <= Len(accepted)
  BY WrittenLength
<1>2. /\ \A i \in 1..Len(disk) : accepted[i] = disk[i]
      /\ \A i \in 1..Len(unsynced) : accepted[Len(disk) + i] = unsynced[i]
  <2>1. /\ Len(disk \o unsynced) = Len(disk) + Len(unsynced)
        /\ \A i \in 1..(Len(disk) + Len(unsynced)) :
             (disk \o unsynced)[i] = IF i <= Len(disk) THEN disk[i] ELSE unsynced[i - Len(disk)]
    BY ConcatProperties DEF TypeOK
  <2>2. \A i \in 1..(Len(disk) + Len(unsynced)) : accepted[i] = (disk \o unsynced)[i]
    BY <2>1 DEF Written, StartsWith
  <2>3. ASSUME NEW i \in 1..Len(disk) PROVE accepted[i] = disk[i]
    BY <1>1, <2>1, <2>2
  <2>4. ASSUME NEW i \in 1..Len(unsynced) PROVE accepted[Len(disk) + i] = unsynced[i]
    <3>1. /\ Len(disk) + i \in 1..(Len(disk) + Len(unsynced)) /\ ~(Len(disk) + i <= Len(disk))
          /\ (Len(disk) + i) - Len(disk) = i
      BY <1>1
    <3> QED
      BY <2>1, <2>2, <3>1
  <2> QED
    BY <2>3, <2>4
<1>3. PICK keep \in 0..Len(unsynced) : disk' = disk \o SubSeq(unsynced, 1, keep)
  <2>1. CASE unsynced = <<>>
    <3>1. SubSeq(unsynced, 1, 0) = <<>> /\ disk \o <<>> = disk
      BY SubSeqEmpty, ConcatEmptySeq DEF TypeOK
    <3>2. disk' = disk /\ 0 \in 0..Len(unsynced)
      BY <1>1, <2>1 DEF Restart
    <3> QED
      BY <3>1, <3>2
  <2>2. CASE unsynced # <<>>
    BY <2>2 DEF Restart, Survives
  <2> QED
    BY <2>1, <2>2
<1> DEFINE part == SubSeq(unsynced, 1, keep)
<1>4. /\ part \in Seq(Records) /\ Len(part) = keep
      /\ \A i \in 1..keep : part[i] = unsynced[i]
  BY <1>1 DEF TypeOK
<1> HIDE DEF part
<1>5. /\ disk' \in Seq(Records) /\ Len(disk') = Len(disk) + keep
      /\ \A i \in 1..(Len(disk) + keep) :
           disk'[i] = IF i <= Len(disk) THEN disk[i] ELSE part[i - Len(disk)]
  BY <1>3, <1>4, ConcatProperties DEF TypeOK, part
<1>6. ASSUME NEW i \in 1..(Len(disk) + keep) PROVE disk'[i] = accepted[i]
  <2>1. CASE i <= Len(disk)
    BY <1>1, <1>2, <1>5, <2>1
  <2>2. CASE i > Len(disk)
    <3>1. i - Len(disk) \in 1..keep /\ Len(disk) + (i - Len(disk)) = i
      BY <1>1, <2>2
    <3> QED
      BY <1>1, <1>2, <1>4, <1>5, <2>2, <3>1
  <2> QED
    BY <1>1, <2>1, <2>2
<1>7. Len(disk') \in Len(disk)..Len(accepted)
  BY <1>1, <1>5
<1> DEFINE kept == SubSeq(accepted, 1, Len(disk'))
<1>8. /\ kept \in Seq(Records) /\ Len(kept) = Len(disk')
      /\ \A i \in 1..Len(disk') : kept[i] = accepted[i]
  BY <1>1, <1>7 DEF TypeOK
<1> HIDE DEF kept
<1>9. disk' = kept
  BY <1>5, <1>6, <1>8, SeqEqual
<1> QED
  BY <1>7, <1>9 DEF kept

-------------------------------------------------------------------------------
(* No step loses, repeats or reorders a record on its way to the file.     *)
LEMMA AccountStep ==
  ASSUME TypeOK, ProtocolInv, AccountInv, [Next]_vars
  PROVE  AccountInv'
<1> USE DEF AccountInv
<1>1. TypeOK' /\ ProtocolInv'
  BY TypeStep, ProtocolStep
<1>2. /\ Len(disk) \in Nat /\ Len(unsynced) \in Nat /\ Len(accepted) \in Nat
      /\ disk \o unsynced \in Seq(Records)
      /\ Len(disk \o unsynced) = Len(disk) + Len(unsynced)
      /\ Len(disk) + Len(unsynced) <= Len(accepted)
  BY WrittenLength
<1>3. CASE UNCHANGED vars
  BY <1>3 DEF vars, AllAccounted, WriterAlive, Written, OkMeansSynced, AckedOnDisk
<1>4. ASSUME NEW r \in Request, queue' = Append(queue, r), accepted' = accepted \o r.items,
             SessionRuns, EnsureWorker, UNCHANGED <<disk, unsynced>>
      PROVE  AllAccounted' /\ Written'
  <2>1. r.items \in Seq(Records)
    BY DEF Request
  <2>2. WriterAlive
    BY <1>4 DEF ProtocolInv, GoneMeansClosed, SessionRuns, WriterAlive, TypeOK
  <2>3. LaidOut(queue', Len(disk) + Len(unsynced), accepted')
    BY <1>4, <2>2, LaidOutAppend DEF AllAccounted, TypeOK
  <2>4. StartsWith(accepted', disk \o unsynced)
    BY <1>2, <1>4, <2>1, StartsWithLonger DEF Written, TypeOK
  <2> QED
    BY <1>4, <2>3, <2>4 DEF AllAccounted, Written
<1>5. ASSUME NEW n \in 1..MaxBatch, Record(n) PROVE AccountInv'
  <2> DEFINE batch == [i \in 1..n |-> issued + i]
             r == [op |-> "write", items |-> batch]
  <2>1. batch \in Seq(Records)
    BY <1>5, RecorderAssumption DEF Record, Records, TypeOK
  <2> HIDE DEF batch
  <2>2. r \in Request /\ queue' = Append(queue, r) /\ accepted' = accepted \o r.items
    BY <1>5, <2>1 DEF Record, Put, Request, batch
  <2> HIDE DEF r
  <2>3. AllAccounted' /\ Written'
    BY <1>4, <1>5, <2>2 DEF Record, file
  <2> QED
    BY <1>5, <2>3 DEF Record, SessionRuns, OkMeansSynced, AckedOnDisk, file, client
<1>6. ASSUME NEW call \in {"flush", "shutdown"}, Call(call) PROVE AccountInv'
  <2> DEFINE r == [op |-> call, items |-> <<>>]
  <2>1. r \in Request /\ r.items = <<>> /\ queue' = Append(queue, r)
    BY <1>6, EmptySeq DEF Call, Put, Request
  <2> HIDE DEF r
  <2>2. accepted' = accepted \o r.items
    BY <1>6, <2>1, ConcatEmptySeq DEF Call, history, TypeOK
  <2>3. AllAccounted' /\ Written'
    BY <1>4, <1>6, <2>1, <2>2 DEF Call, file
  <2> QED
    BY <1>6, <2>3 DEF Call, OkMeansSynced, AckedOnDisk, file, history
<1>7. ASSUME CallReturns PROVE AccountInv'
  BY <1>2, <1>7 DEF CallReturns, AllAccounted, WriterAlive, Written, OkMeansSynced, AckedOnDisk,
                       file
<1>8. ASSUME Timeout PROVE AccountInv'
  BY <1>8 DEF Timeout, AllAccounted, WriterAlive, Written, OkMeansSynced, AckedOnDisk, file, history
<1>9. ASSUME CancelFlush PROVE AccountInv'
  <2>1. queue' \in Seq(Request) /\ Len(queue') = Len(queue)
    BY <1>1, <1>9 DEF CancelFlush, TypeOK
  <2>2. \A i \in 1..Len(queue) : queue'[i].items = queue[i].items
    <3>1. \A i \in 1..Len(queue) :
            \/ queue'[i] = queue[i]
            \/ queue[i].op = "flush" /\ queue'[i] = [op |-> "orphan", items |-> <<>>]
      BY <1>9 DEF CancelFlush, TypeOK
    <3> QED
      BY <3>1 DEF ProtocolInv, OnlyWritesCarry
  <2>3. LaidOut(queue, Len(disk) + Len(unsynced), accepted)
        => LaidOut(queue', Len(disk) + Len(unsynced), accepted)
    BY <2>1, <2>2, LaidOutSame DEF TypeOK
  <2> QED
    BY <1>9, <2>3 DEF CancelFlush, AllAccounted, WriterAlive, Written, OkMeansSynced, AckedOnDisk,
                      file, history
<1>10. ASSUME WorkerStarts \/ WorkerWakes \/ WorkerSleeps PROVE AccountInv'
  BY <1>10 DEF WorkerStarts, WorkerWakes, WorkerSleeps, AllAccounted, WriterAlive, Written,
               OkMeansSynced, AckedOnDisk, file, client, history
<1> DEFINE base == Len(disk) + Len(unsynced)
           batch == Head(queue).items
<1>11. ASSUME worker = "draining", queue # <<>>
       PROVE  /\ LaidOut(Tail(queue), base + Len(batch), accepted)
              /\ unsynced \o batch \in Seq(Records)
              /\ Len(unsynced \o batch) = Len(unsynced) + Len(batch)
              /\ Len(batch) \in Nat
              /\ StartsWith(accepted, disk \o (unsynced \o batch))
  <2>1. batch \in Seq(Records) /\ LaidOut(queue, base, accepted)
    BY <1>11, HeadLaid DEF AllAccounted, WriterAlive
  <2> HIDE DEF base
  <2>2. /\ LaidOut(Tail(queue), base + Len(batch), accepted)
        /\ base + Len(batch) <= Len(accepted)
        /\ \A j \in 1..Len(batch) : accepted[base + j] = batch[j]
    BY <1>11, <2>1, LaidOutTail DEF TypeOK
  <2>3. base = Len(disk \o unsynced)
    BY <1>2 DEF base
  <2> HIDE DEF batch
  <2>4. StartsWith(accepted, (disk \o unsynced) \o batch)
    BY <1>2, <2>1, <2>2, <2>3, StartsWithMore DEF Written, TypeOK
  <2>5. (disk \o unsynced) \o batch = disk \o (unsynced \o batch)
    <3>1. disk \in Seq(Records) /\ unsynced \in Seq(Records)
      BY DEF TypeOK
    <3>2. \A s, t, u \in Seq(Records) : (s \o t) \o u = s \o (t \o u)
      BY ConcatAssociative
    <3> QED
      BY <2>1, <3>1, <3>2, Zenon
  <2>6. /\ unsynced \o batch \in Seq(Records) /\ Len(batch) \in Nat
        /\ Len(unsynced \o batch) = Len(unsynced) + Len(batch)
    BY <2>1, ConcatProperties DEF TypeOK
  <2> QED
    BY <2>2, <2>4, <2>5, <2>6
<1>12. ASSUME WriteBatch PROVE AccountInv'
  <2> HIDE DEF batch, base
  <2>1. worker = "draining" /\ queue # <<>> /\ queue' = Tail(queue) /\ unsynced' = unsynced \o batch
    BY <1>12 DEF WriteBatch, Taken, batch
  <2> disk' = disk
    BY <1>12 DEF WriteBatch
  <2> Len(unsynced') = Len(unsynced) + Len(batch) /\ Len(batch) \in Nat
    BY <1>11, <2>1
  <2>2. Len(disk') + Len(unsynced') = base + Len(batch)
    BY <1>2 DEF base
  <2>3. AllAccounted' /\ Written'
    BY <1>11, <1>12, <2>1, <2>2 DEF WriteBatch, history, AllAccounted, Written
  <2> QED
    BY <1>12, <2>3 DEF WriteBatch, OkMeansSynced, AckedOnDisk, client, history
<1>13. ASSUME NEW call \in {"flush", "orphan", "shutdown"}, Taken(call), Sync,
              UNCHANGED <<session, history>>,
              WriterAlive' => WriterAlive,
              call = "orphan" => UNCHANGED reply
       PROVE  AccountInv'
  <2> HIDE DEF batch, base
  <2>1. worker = "draining" /\ queue # <<>> /\ queue' = Tail(queue) /\ batch = <<>>
    BY <1>13, TakenKeeps DEF Taken, batch
  <2>2. disk' = disk \o unsynced /\ unsynced' = <<>> /\ Len(disk') = base
    BY <1>2, <1>13 DEF Sync, base
  <2>3. Len(disk') + Len(unsynced') = base /\ disk' \o unsynced' = disk \o unsynced
    BY <1>2, <2>2, ConcatEmptySeq DEF base
  <2>4. LaidOut(queue', base, accepted)
    BY <1>2, <1>11, <2>1 DEF base
  <2>5. AllAccounted' /\ Written'
    BY <1>13, <2>3, <2>4 DEF history, AllAccounted, Written
  <2>6. AckedOnDisk'
    BY <1>2, <1>13, <2>2 DEF AckedOnDisk, history, base, TypeOK
  <2>7. CASE call = "orphan"
    BY <1>2, <1>13, <2>2, <2>5, <2>6, <2>7 DEF OkMeansSynced, history, base
  <2>8. CASE call \in {"flush", "shutdown"}
    <3>1. queue' = <<>>
      BY <1>13, <2>8, TakenKeeps
    <3>2. base = Len(accepted)
      BY <2>4, <3>1, LaidOutEmpty DEF TypeOK
    <3> QED
      BY <1>13, <2>2, <2>5, <2>6, <3>2 DEF OkMeansSynced, history
  <2> QED
    BY <2>7, <2>8
<1>14. ASSUME ServeFlush \/ ServeShutdown PROVE AccountInv'
  BY <1>13, <1>14 DEF ServeFlush, ServeShutdown, WriterAlive
<1>15. ASSUME WorkerFails PROVE AccountInv'
  <2>1. Written'
    <3>1. CASE worker = "scheduled"
      BY <1>15, <3>1 DEF WorkerFails, Written, history
    <3>2. CASE worker # "scheduled"
      BY <1>11, <1>15, <3>2 DEF WorkerFails, Written, history
    <3> QED
      BY <3>1, <3>2
  <2>2. AllAccounted' /\ AckedOnDisk'
    BY <1>15 DEF WorkerFails, AllAccounted, WriterAlive, AckedOnDisk, history
  <2>3. OkMeansSynced'
    BY <1>15 DEF WorkerFails, OkMeansSynced, history
  <2> QED
    BY <2>1, <2>2, <2>3
<1>16. ASSUME Restart PROVE AccountInv'
  <2>1. disk' \in Seq(Records) /\ Len(disk') \in Nat /\ Len(disk) <= Len(disk')
    BY <1>1, <1>2, <1>16, RestartKeeps DEF TypeOK
  <2>2. disk' \o <<>> = disk' /\ Len(disk') + Len(<<>>) = Len(disk')
    BY <2>1, ConcatEmptySeq
  <2>3. StartsWith(disk', disk')
    BY <2>1 DEF StartsWith
  <2>4. LaidOut(<<>>, Len(disk'), disk')
    BY <2>1, LaidOutEmpty
  <2>5. /\ queue' = <<>> /\ unsynced' = <<>> /\ accepted' = disk'
          /\ session' = "down" /\ acked' = acked
    BY <1>16 DEF Restart
  <2>6. AllAccounted' /\ Written'
    BY <2>2, <2>3, <2>4, <2>5 DEF AllAccounted, Written
  <2>7. OkMeansSynced' /\ AckedOnDisk'
    BY <1>2, <2>1, <2>5 DEF OkMeansSynced, AckedOnDisk, TypeOK
  <2> QED
    BY <2>6, <2>7
<1>17. ASSUME Resume \/ Idle PROVE AccountInv'
  BY <1>17, <1>3 DEF Resume, Idle, AllAccounted, WriterAlive, Written, OkMeansSynced, AckedOnDisk,
                     requests, file, history
<1> QED
  BY <1>3, <1>5, <1>6, <1>7, <1>8, <1>9, <1>10, <1>12, <1>14, <1>15, <1>16, <1>17
     DEF Next, WorkerStep, Flush, Shutdown

(* The queue, the file and the session's records always fit together.      *)
THEOREM RecordsAccounted == Spec => [](ProtocolInv /\ AccountInv)
<1>1. Init => ProtocolInv
  BY DEF Init, ProtocolInv, WriterAtNewline, Unspoiled, OnlyWritesCarry, GoneMeansClosed,
         AwaitedIsLast
<1>2. Init => AccountInv
  <2> SUFFICES ASSUME Init PROVE AccountInv
    OBVIOUS
  <2>1. <<>> \in Seq(Records) /\ Len(<<>>) = 0 /\ <<>> \o <<>> = <<>>
    BY EmptySeq, ConcatEmptySeq
  <2>2. LaidOut(<<>>, 0, <<>>)
    BY <2>1, LaidOutEmpty
  <2>3. /\ queue = <<>> /\ disk = <<>> /\ unsynced = <<>> /\ accepted = <<>>
          /\ Len(disk) + Len(unsynced) = 0
    BY <2>1 DEF Init
  <2>4. AllAccounted
    BY <2>2, <2>3 DEF AllAccounted
  <2>5. Written
    BY <2>1, <2>3 DEF Written, StartsWith
  <2> QED
    BY <2>1, <2>4, <2>5 DEF Init, AccountInv, OkMeansSynced, AckedOnDisk
<1> QED
  BY <1>1, <1>2, ProtocolStep, AccountStep, TypeCorrect, PTL DEF Spec

(* The file is a prefix of what the session believes persisted, whatever   *)
(* fails, times out, is cancelled or restarts.                             *)
THEOREM FileKept == Spec => []FileIsPrefix
<1>1. ASSUME TypeOK, ProtocolInv, AccountInv PROVE FileIsPrefix
  <2> DEFINE w == disk \o unsynced
  <2>1. /\ w \in Seq(Records) /\ Len(w) \in Nat /\ Len(w) <= Len(accepted)
        /\ \A i \in 1..Len(w) : accepted[i] = w[i]
    BY <1>1, WrittenLength DEF AccountInv, Written, StartsWith
  <2> HIDE DEF w
  <2>2. /\ SubSeq(accepted, 1, Len(w)) \in Seq(Records)
        /\ Len(SubSeq(accepted, 1, Len(w))) = Len(w)
        /\ \A i \in 1..Len(w) : SubSeq(accepted, 1, Len(w))[i] = accepted[i]
    BY <1>1, <2>1 DEF TypeOK
  <2>3. SubSeq(w, 1, Len(w)) = w
    BY <2>1, SubSeqFull
  <2>4. w = SubSeq(accepted, 1, Len(w))
    BY <2>1, <2>2, SeqEqual
  <2> QED
    BY <1>1, <2>1, <2>3, <2>4 DEF FileIsPrefix, IsPrefix, ProtocolInv, Unspoiled, w
<1> QED
  BY <1>1, TypeCorrect, RecordsAccounted, PTL

(* A record that a flush has acknowledged is on disk, and no later step    *)
(* takes it away: not a failing worker, nor a kill between two writes.     *)
THEOREM AckedSurvive ==
  Spec => /\ []AckedOnDisk
          /\ [][\A i \in 1..Len(disk) : i <= Len(disk') /\ disk'[i] = disk[i]]_vars
<1>1. AccountInv => AckedOnDisk
  BY DEF AccountInv
<1>2. ASSUME TypeOK, AccountInv, [Next]_vars
      PROVE  [\A i \in 1..Len(disk) : i <= Len(disk') /\ disk'[i] = disk[i]]_vars
  <2> SUFFICES ASSUME Next PROVE \A i \in 1..Len(disk) : i <= Len(disk') /\ disk'[i] = disk[i]
    BY <1>2
  <2>1. Len(disk) \in Nat /\ Len(unsynced) \in Nat
    BY <1>2 DEF TypeOK
  <2>2. CASE UNCHANGED disk
    BY <2>1, <2>2
  <2>3. ASSUME NEW u \in Seq(Records), disk' = disk \o u
        PROVE  \A i \in 1..Len(disk) : i <= Len(disk') /\ disk'[i] = disk[i]
    BY <1>2, <2>1, <2>3, ConcatProperties DEF TypeOK
  <2>4. CASE Restart
    <3>1. CASE unsynced = <<>>
      BY <2>2, <2>4, <3>1 DEF Restart
    <3>2. CASE unsynced # <<>>
      <4>1. PICK keep \in 0..Len(unsynced) : disk' = disk \o SubSeq(unsynced, 1, keep)
        BY <2>4, <3>2 DEF Restart, Survives
      <4>2. SubSeq(unsynced, 1, keep) \in Seq(Records)
        BY <1>2, <2>1 DEF TypeOK
      <4> QED
        BY <2>3, <4>1, <4>2
    <3> QED
      BY <3>1, <3>2
  <2>5. CASE ServeFlush \/ ServeShutdown
    BY <1>2, <2>3, <2>5 DEF ServeFlush, ServeShutdown, Sync, TypeOK
  <2>6. CASE ~(Restart \/ ServeFlush \/ ServeShutdown)
    <3>1. UNCHANGED disk
      BY <2>6 DEF Next, Record, Flush, Shutdown, Call, CallReturns, Timeout, CancelFlush,
                  WorkerStep, WorkerStarts, WorkerWakes, WriteBatch, WorkerSleeps, WorkerFails,
                  Resume, Idle, vars, file
    <3> QED
      BY <2>2, <3>1
  <2> QED
    BY <2>4, <2>5, <2>6
<1> QED
  BY <1>1, <1>2, TypeCorrect, RecordsAccounted, PTL DEF Spec

-------------------------------------------------------------------------------
(* Each step of the recorder is, seen from DurableLog, an acceptance, a    *)
(* sync, an acknowledgement, a restart or nothing at all.                  *)
LEMMA LogStep ==
  ASSUME TypeOK, ProtocolInv, AccountInv, [Next]_vars
  PROVE  Log!Next \/ UNCHANGED Log!vars
<1>1. /\ Len(disk) \in Nat /\ Len(unsynced) \in Nat /\ Len(accepted) \in Nat
      /\ Len(disk \o unsynced) = Len(disk) + Len(unsynced)
      /\ Len(disk) + Len(unsynced) <= Len(accepted)
  BY WrittenLength DEF AccountInv
<1>2. CASE UNCHANGED vars
  BY <1>2 DEF vars, Log!vars
<1>3. ASSUME NEW n \in 1..MaxBatch, Record(n) PROVE Log!Accept
  <2> DEFINE batch == [i \in 1..n |-> issued + i]
  <2>1. batch \in Seq(Records) /\ Len(batch) = n /\ n \in Nat \ {0}
    BY <1>3, RecorderAssumption DEF Record, Records, TypeOK
  <2>2. accepted' = accepted \o batch /\ UNCHANGED <<disk, acked>>
    BY <1>3 DEF Record, file
  <2> HIDE DEF batch
  <2>3. /\ accepted' \in Seq(Records) /\ Len(accepted') = Len(accepted) + n
        /\ \A i \in 1..Len(accepted) : accepted'[i] = accepted[i]
    BY <1>1, <2>1, <2>2, ConcatProperties DEF TypeOK
  <2> DEFINE old == SubSeq(accepted', 1, Len(accepted))
  <2>4. /\ old \in Seq(Records) /\ Len(old) = Len(accepted)
        /\ \A i \in 1..Len(accepted) : old[i] = accepted[i]
    BY <1>1, <2>1, <2>3
  <2> HIDE DEF old
  <2>5. old = accepted
    BY <2>4, SeqEqual DEF TypeOK
  <2> QED
    BY <1>1, <2>1, <2>2, <2>3, <2>5 DEF Log!Accept, old
<1>4. ASSUME CallReturns PROVE Log!Acknowledge \/ UNCHANGED Log!vars
  BY <1>4 DEF CallReturns, file, Log!Acknowledge, Log!vars, AccountInv, OkMeansSynced
<1>5. ASSUME ServeFlush \/ ServeShutdown PROVE Log!Sync
  BY <1>1, <1>5 DEF ServeFlush, ServeShutdown, Sync, history, Log!Sync
<1>6. ASSUME Restart PROVE Log!Restart
  <2>1. Len(disk') \in Len(disk)..Len(accepted) /\ disk' = SubSeq(accepted, 1, Len(disk'))
    BY <1>6, RestartKeeps DEF AccountInv
  <2> QED
    BY <1>6, <2>1 DEF Restart, Log!Restart
<1>7. ASSUME UNCHANGED <<disk, accepted, acked>> PROVE UNCHANGED Log!vars
  BY <1>7 DEF Log!vars
<1>8. CASE ~(\/ (\E n \in 1..MaxBatch : Record(n))
             \/ CallReturns \/ ServeFlush \/ ServeShutdown \/ Restart)
  BY <1>2, <1>7, <1>8 DEF Next, Flush, Shutdown, Call, Timeout, CancelFlush, WorkerStep,
     WorkerStarts, WorkerWakes, WriteBatch, WorkerSleeps, WorkerFails, Resume, Idle, file, history
<1> QED
  BY <1>2, <1>3, <1>4, <1>5, <1>6, <1>8 DEF Log!Next

(* The recorder keeps what DurableLog promises the session.                *)
THEOREM ImplementsLog == Spec => LogSpec
<1>1. Init => Log!Init
  BY EmptySeq DEF Init, Log!Init
<1> QED
  BY <1>1, LogStep, TypeCorrect, RecordsAccounted, PTL DEF Spec, LogSpec, Log!Spec
====================================================================================================
