---------------------------- MODULE TuiBridgeProofs ----------------------------
(***************************************************************************)
(* Proofs about TuiBridge, for any number of threads, prompts, approval    *)
(* requests and restarts: what the client is told agrees with what the     *)
(* bridge does, prompts get their outcome, sessions count their turns and  *)
(* are left closed, and the events follow TurnProtocol.                    *)
(***************************************************************************)
EXTENDS TuiBridge, DataInduction, FiniteSetTheorems, SequenceTheorems, TLAPS

-------------------------------------------------------------------------------
(* What a step's events make of the view.  Only the first one matters: the *)
(* code sends session.status and session.hydrated after it, which change   *)
(* nothing.                                                                *)

(* FoldLeft over the events of a step, all but the first of which See      *)
(* passes over.                                                            *)
LEMMA FirstSeen ==
  ASSUME NEW w, NEW es, NEW n \in Nat, DOMAIN es = 1..n,
         \A x : \A i \in 2..n : See(x, es[i]) = x
  PROVE  FoldLeft(See, w, es) = IF n = 0 THEN w ELSE See(w, es[1])
<1> DEFINE D == DOMAIN es
           G(it) == [z \in SUBSET D |->
                       IF z = {} THEN w ELSE See(it[z \ {Max(z)}], es[Max(z)])]
           it == CHOOSE i : i = G(i)
           f == [z \in SUBSET D |-> IF 1 \in z THEN See(w, es[1]) ELSE w]
<1>1. FoldLeft(See, w, es) = it[D]
  BY Zenon DEF FoldLeft, MapThenFoldSet
<1>2. f = G(f)
  <2> SUFFICES ASSUME NEW z \in SUBSET D PROVE f[z] = G(f)[z]
    OBVIOUS
  <2>1. CASE z = {}
    BY <2>1
  <2>2. CASE z # {}
    <3> DEFINE m == Max(z)
    <3>1. m \in z /\ \A i \in z : i <= m
      BY <2>2, MaxOfPositions
    <3>2. G(f)[z] = See(f[z \ {m}], es[m])
      BY <2>2
    <3> HIDE DEF m
    <3>3. CASE m = 1
      <4>1. z = {1}
        BY <3>1, <3>3
      <4> QED
        BY <4>1, <3>2, <3>3
    <3>4. CASE m # 1
      <4>1. m \in 2..n /\ (1 \in z \ {m} <=> 1 \in z)
        BY <3>1, <3>4
      <4>2. See(f[z \ {m}], es[m]) = f[z \ {m}]
        BY <4>1
      <4> QED
        BY <4>1, <4>2, <3>2
    <3> QED
      BY <3>3, <3>4
  <2> QED
    BY <2>1, <2>2
<1>3. it = G(it)
  BY <1>2
<1>4. \A z \in SUBSET D : it[z] = IF z = {} THEN w ELSE See(it[z \ {Max(z)}], es[Max(z)])
  BY <1>3
<1> HIDE DEF it
<1>5. ASSUME NEW k \in 1..n PROVE it[1..k] = See(it[1..(k - 1)], es[k])
  <2>1. 1..k \in SUBSET D /\ k \in 1..k /\ 1..k \subseteq 1..n
    OBVIOUS
  <2>2. Max(1..k) \in 1..k /\ \A i \in 1..k : i <= Max(1..k)
    BY <2>1, MaxOfPositions
  <2>3. Max(1..k) = k
    BY <2>2
  <2>4. (1..k) \ {k} = 1..(k - 1)
    OBVIOUS
  <2> QED
    BY <1>4, <2>1, <2>3, <2>4
<1>6. it[1..0] = w
  BY <1>4
<1>7. ASSUME n # 0 PROVE it[1..n] = it[1..1]
  <2> DEFINE T == {k \in 1..n : it[1..k] # it[1..1]}
  <2>1. SUFFICES ASSUME T # {} PROVE FALSE
    BY <1>7
  <2>2. PICK m \in T : \A k \in T : m <= k
    <3>1. T \subseteq Nat
      OBVIOUS
    <3> HIDE DEF T
    <3> QED
      BY <2>1, <3>1, Least
  <2>3. m \in 2..n /\ it[1..m] # it[1..1]
    <3>1. m \in 1..n /\ it[1..m] # it[1..1]
      OBVIOUS
    <3>2. m # 1
      BY <3>1
    <3> QED
      BY <3>1, <3>2
  <2>4. it[1..m] = See(it[1..(m - 1)], es[m])
    BY <1>5, <2>3
  <2>5. it[1..m] = it[1..(m - 1)]
    BY <2>3, <2>4
  <2>6. m - 1 \in 1..n /\ m - 1 < m
    BY <2>3
  <2> QED
    BY <2>2, <2>3, <2>5, <2>6
<1>8. ASSUME n # 0 PROVE it[1..1] = See(w, es[1])
  <2>1. 1 \in 1..n /\ 1..(1 - 1) = 1..0
    BY <1>8
  <2> QED
    BY <1>5, <1>6, <2>1
<1>9. it[D] = it[1..n]
  OBVIOUS
<1> HIDE DEF D
<1>10. CASE n = 0
  BY <1>1, <1>6, <1>9, <1>10
<1>11. CASE n # 0
  BY <1>1, <1>7, <1>8, <1>9, <1>11
<1> QED
  BY <1>10, <1>11

(* What a step without events does to the view.                            *)
LEMMA SilentEffect ==
  ASSUME Silent, owed \in BOOLEAN
  PROVE  out' = <<>> /\ view' = view /\ owed' = owed
<1> DEFINE es == <<>>
<1>1. DOMAIN es = 1..0 /\ Emit(es)
  BY DEF Silent
<1> HIDE DEF es, See
<1>2. FoldLeft(See, view, es) = view
  <2>1. \A x : \A i \in 2..0 : See(x, es[i]) = x
    OBVIOUS
  <2>2. FoldLeft(See, view, es) = IF 0 = 0 THEN view ELSE See(view, es[1])
    BY <1>1, <2>1, FirstSeen
  <2> QED
    BY <2>2
<1>3. /\ out' = es
      /\ view' = FoldLeft(See, view, es)
      /\ owed' = (owed /\ ~\E i \in DOMAIN es : Terminal(es[i]))
  BY <1>1, Zenon DEF Emit
<1>4. ~\E i \in DOMAIN es : Terminal(es[i])
  BY <1>1
<1> QED
  BY <1>2, <1>3, <1>4 DEF es

(* ... one with one event that matters, and perhaps reports after it.      *)
Report(e) == e.type \in {"session.status", "session.hydrated"}

LEMMA ReportSeen ==
  ASSUME NEW x, NEW e, Report(e)
  PROVE  See(x, e) = x /\ ~Terminal(e)
<1>1. e.type # "thread.started" /\ e.type # "turn.started" /\ ~Terminal(e)
  BY DEF Report, Terminal
<1> QED
  BY <1>1, Zenon DEF See

LEMMA EmitEffect ==
  ASSUME NEW es, NEW n \in Nat \ {0}, DOMAIN es = 1..n, \A i \in 2..n : Report(es[i]), Emit(es)
  PROVE  out' = es /\ view' = See(view, es[1]) /\ owed' = (owed /\ ~Terminal(es[1]))
<1>1. \A x : \A i \in 2..n : See(x, es[i]) = x
  BY ReportSeen
<1> HIDE DEF See
<1>2. FoldLeft(See, view, es) = See(view, es[1])
  BY <1>1, FirstSeen
<1>3. (\E i \in DOMAIN es : Terminal(es[i])) <=> Terminal(es[1])
  BY ReportSeen
<1> QED
  BY <1>2, <1>3 DEF Emit

LEMMA EmitOne ==
  ASSUME NEW e, Emit(<<e>>)
  PROVE  out' = <<e>> /\ view' = See(view, e) /\ owed' = (owed /\ ~Terminal(e))
<1> DEFINE es == <<e>>
<1>1. DOMAIN es = 1..1 /\ es[1] = e /\ Emit(es)
  OBVIOUS
<1>2. \A i \in 2..1 : Report(es[i])
  OBVIOUS
<1> HIDE DEF es, See
<1>3. out' = es /\ view' = See(view, es[1]) /\ owed' = (owed /\ ~Terminal(es[1]))
  BY <1>1, <1>2, EmitEffect
<1> QED
  BY <1>1, <1>3 DEF es

-------------------------------------------------------------------------------
(* What a record adds to a rollout.                                        *)

CountOf(records, kind) == Cardinality({i \in DOMAIN records : records[i].kind = kind})

LEMMA CountAppend ==
  ASSUME NEW records \in Seq(Record), NEW r \in Record, NEW kind
  PROVE  /\ CountOf(records, kind) \in Nat
         /\ CountOf(Append(records, r), kind)
              = CountOf(records, kind) + (IF r.kind = kind THEN 1 ELSE 0)
<1> DEFINE old == {i \in DOMAIN records : records[i].kind = kind}
           more == Append(records, r)
           new == {i \in DOMAIN more : more[i].kind = kind}
           n == Len(records)
<1>1. n \in Nat /\ DOMAIN records = 1..n
  OBVIOUS
<1>2. DOMAIN more = 1..(n + 1) /\ more[n + 1] = r /\ \A i \in 1..n : more[i] = records[i]
  OBVIOUS
<1>3. IsFiniteSet(old) /\ Cardinality(old) \in Nat
  <2>1. IsFiniteSet(1..n)
    BY <1>1, FS_Interval
  <2>2. old \subseteq 1..n
    BY <1>1
  <2> HIDE DEF old
  <2> QED
    BY <2>1, <2>2, FS_Subset, FS_CardinalityType
<1> HIDE DEF n, more
<1>4. new = old \union (IF r.kind = kind THEN {n + 1} ELSE {})
  BY <1>1, <1>2
<1>5. n + 1 \notin old
  BY <1>1
<1> HIDE DEF old, new
<1>6. Cardinality(new) = Cardinality(old) + (IF r.kind = kind THEN 1 ELSE 0)
  <2>1. CASE r.kind = kind
    <3>1. new = old \union {n + 1}
      BY <1>4, <2>1
    <3> QED
      BY <1>3, <1>5, <2>1, <3>1, FS_AddElement
  <2>2. CASE r.kind # kind
    BY <1>3, <1>4, <2>2
  <2> QED
    BY <2>1, <2>2
<1> QED
  BY <1>3, <1>6 DEF CountOf, old, new, more

Ledgers == [Threads -> Seq(Record)]

(* Counting the records of a rollout gives numbers.                        *)
LEMMA Counts ==
  ASSUME ledger \in Ledgers, NEW t \in Threads
  PROVE  TurnsIn(ledger[t]) \in Nat /\ InputsIn(ledger[t]) \in Nat /\ Len(ledger[t]) \in Nat
<1>1. ledger[t] \in Seq(Record) /\ [kind |-> "turn", turns |-> 0] \in Record
  BY DEF Ledgers, Record
<1>2. CountOf(ledger[t], "turn") \in Nat /\ CountOf(ledger[t], "items") \in Nat
  BY <1>1, CountAppend
<1> QED
  BY <1>1, <1>2 DEF CountOf, TurnsIn, InputsIn

(* One record more at the end of one rollout; the others stay.             *)
LEMMA RecordedEffect ==
  ASSUME ledger \in Ledgers, NEW t \in Threads, NEW kind \in {"items", "turn", "closed"},
         NEW n \in Nat, ledger' = Recorded(t, kind, n)
  PROVE  /\ ledger' \in Ledgers
         /\ \A u \in Threads : u # t => ledger'[u] = ledger[u]
         /\ TurnsIn(ledger'[t]) = TurnsIn(ledger[t]) + (IF kind = "turn" THEN 1 ELSE 0)
         /\ InputsIn(ledger'[t]) = InputsIn(ledger[t]) + (IF kind = "items" THEN 1 ELSE 0)
         /\ EndsClosed(ledger'[t]) <=> kind = "closed"
<1> DEFINE r == [kind |-> kind, turns |-> n]
<1>1. r \in Record /\ r.kind = kind
  BY DEF Record
<1>2. ledger[t] \in Seq(Record)
  BY DEF Ledgers
<1>3. ledger'[t] = Append(ledger[t], r) /\ \A u \in Threads : u # t => ledger'[u] = ledger[u]
  BY DEF Recorded, Ledgers
<1>4. ledger' = [ledger EXCEPT ![t] = Append(ledger[t], r)]
  BY DEF Recorded
<1> HIDE DEF r
<1>5. Append(ledger[t], r) \in Seq(Record)
  BY <1>1, <1>2
<1>6. ledger' \in Ledgers
  BY <1>4, <1>5 DEF Ledgers
<1>7. /\ CountOf(ledger'[t], "turn")
           = CountOf(ledger[t], "turn") + (IF kind = "turn" THEN 1 ELSE 0)
      /\ CountOf(ledger'[t], "items")
           = CountOf(ledger[t], "items") + (IF kind = "items" THEN 1 ELSE 0)
  BY <1>1, <1>2, <1>3, CountAppend
<1>8. Last(ledger'[t]) = r
  BY <1>1, <1>2, <1>3, AppendProperties DEF Last
<1> QED
  BY <1>1, <1>3, <1>6, <1>7, <1>8 DEF CountOf, TurnsIn, InputsIn, EndsClosed

(* A session.closed counts neither as a turn nor as a prompt.              *)
LEMMA ClosedEffect ==
  ASSUME ledger \in Ledgers, NEW s \in Session,
         ledger' = Recorded(s.thread, "closed", s.turns)
  PROVE  /\ ledger' \in Ledgers
         /\ \A u \in Threads : InputsIn(ledger'[u]) = InputsIn(ledger[u])
         /\ \A u \in Threads : TurnsIn(ledger'[u]) = TurnsIn(ledger[u])
         /\ \A u \in Threads : u # s.thread => ledger'[u] = ledger[u]
         /\ EndsClosed(ledger'[s.thread])
<1>1. s.thread \in Threads /\ s.turns \in Nat
  BY DEF Session
<1>2. /\ ledger' \in Ledgers
      /\ \A u \in Threads : u # s.thread => ledger'[u] = ledger[u]
      /\ TurnsIn(ledger'[s.thread]) = TurnsIn(ledger[s.thread]) + 0
      /\ InputsIn(ledger'[s.thread]) = InputsIn(ledger[s.thread]) + 0
      /\ EndsClosed(ledger'[s.thread])
  BY <1>1, RecordedEffect
<1>3. TurnsIn(ledger[s.thread]) \in Nat /\ InputsIn(ledger[s.thread]) \in Nat
  BY <1>1, Counts
<1>4. ASSUME NEW u \in Threads
      PROVE  /\ TurnsIn(ledger'[u]) = TurnsIn(ledger[u])
             /\ InputsIn(ledger'[u]) = InputsIn(ledger[u])
  <2>1. CASE u = s.thread
    BY <1>2, <1>3, <2>1
  <2>2. CASE u # s.thread
    BY <1>2, <2>2
  <2> QED
    BY <2>1, <2>2
<1> QED
  BY <1>2, <1>4

(* The Session object made for a thread: its turns are those on disk.      *)
LEMMA RestoredEffect ==
  ASSUME ledger \in Ledgers, NEW t \in Threads
  PROVE  /\ Restored(t) \in Session
         /\ Restored(t).thread = t
         /\ Restored(t).turns = TurnsIn(ledger[t])
         /\ ~Restored(t).touched
         /\ Restored(t).base = Len(ledger[t])
  BY Counts DEF Restored, Session

-------------------------------------------------------------------------------
(* The task, the turn and its numbers.                                     *)

InTurn == task \in {"running", "asking", "flushing"}

Waiting == IF task = "created" THEN 1 ELSE 0

(* TypeOK without what is emitted, in parts.                               *)
LoopTypes ==
  /\ loop \in {"reading", "resolving", "closing", "draining", "exiting", "exited", "down",
               "oneshot"}
  /\ goal \in 0..MaxThreads
  /\ made \in 0..MaxThreads
  /\ restarts \in 0..MaxRestarts

SessionTypes == session \in Session /\ first \in Session /\ ledger \in Ledgers

TaskTypes ==
  /\ task \in {"none", "created", "running", "asking", "flushing", "unstarted"}
  /\ request \in 0..MaxRequests
  /\ answer \in Decisions \union {"none"}
  /\ requests \in 0..MaxRequests

FlagTypes == switched \in BOOLEAN /\ cancelled \in BOOLEAN

NumberTypes ==
  /\ adapter \in [thread : Threads, counter : 0..MaxInputs, current : 0..MaxInputs]
  /\ turnId \in 0..MaxInputs
  /\ inputs \in 0..MaxInputs

CoreTypes == LoopTypes /\ SessionTypes /\ TaskTypes /\ FlagTypes /\ NumberTypes

(* No turn runs while the bridge moves to another session or is gone, and  *)
(* a move has a thread to go to.                                           *)
Moves ==
  /\ loop \in {"resolving", "closing"} => goal \in Threads
  /\ loop \in {"resolving", "closing", "exiting", "exited", "down"} => ~Live

(* The running turn is the last one the adapter has numbered; it has left  *)
(* its mark on the session.                                                *)
TurnNumbered ==
  /\ InTurn => /\ turnId = adapter.counter
               /\ adapter.current = adapter.counter
               /\ adapter.counter # 0
               /\ session.touched
  /\ ~InTurn => turnId = 0
  /\ adapter.current <= adapter.counter
  /\ adapter.thread = session.thread

(* Every turn, numbered or recorded, had its prompt; one may still wait.   *)
PromptsCounted ==
  /\ adapter.counter + Waiting <= inputs
  /\ \A t \in Threads : InputsIn(ledger[t]) + Waiting <= inputs

CoreInv == CoreTypes /\ Moves /\ Answerable /\ TurnNumbered /\ PromptsCounted

(* A bridge that is not up has no turn and no prompt.                      *)
LEMMA CoreInit == Init => CoreInv
<1> SUFFICES ASSUME Init PROVE CoreInv
  OBVIOUS
<1> USE BridgeAssumption
<1>1. ledger \in Ledgers /\ 1 \in Threads /\ \A t \in Threads : ledger[t] = <<>>
  BY DEF Init, Threads, Ledgers
<1>2. session \in Session /\ session.thread = 1
  BY <1>1, RestoredEffect DEF Init
<1>3. \A t \in Threads : InputsIn(ledger[t]) = 0
  <2> SUFFICES ASSUME NEW t \in Threads PROVE InputsIn(ledger[t]) = 0
    OBVIOUS
  <2>1. {i \in DOMAIN ledger[t] : ledger[t][i].kind = "items"} = {}
    BY <1>1
  <2> QED
    BY <2>1, FS_EmptySet DEF InputsIn
<1>4. LoopTypes
  BY DEF Init, LoopTypes
<1>5. SessionTypes
  BY <1>1, <1>2 DEF Init, SessionTypes
<1>6. TaskTypes
  BY DEF Init, TaskTypes
<1>7. NumberTypes
  BY <1>1 DEF Init, NumberTypes, NewAdapter
<1>8. FlagTypes
  BY DEF Init, FlagTypes
<1> QED
  BY <1>1, <1>2, <1>3, <1>4, <1>5, <1>6, <1>7, <1>8
     DEF Init, CoreInv, CoreTypes, Moves, Answerable, TurnNumbered, PromptsCounted, NewAdapter,
         Waiting, InTurn, Live

(* activate_session keeps all of it, for whichever thread ...              *)
LEMMA ActivateCore ==
  ASSUME CoreInv, ~Live, NEW t \in Threads, NEW left \in Session, NEW hydrate,
         Activate(t, left, hydrate), UNCHANGED <<ledger, turnVars, inputs, restarts>>
  PROVE  CoreInv'
<1> USE BridgeAssumption DEF CoreInv, CoreTypes, LoopTypes, SessionTypes, TaskTypes, FlagTypes,
                             NumberTypes, Moves, Answerable, TurnNumbered, PromptsCounted,
                             Waiting, InTurn, Live, Up, sessions, approvals, turnVars
<1>a. \A u \in Threads : InputsIn(ledger[u]) \in Nat
  BY Counts
<1>b. Restored(t) \in Session /\ Restored(t).thread = t
  BY RestoredEffect
<1>1. LoopTypes' /\ SessionTypes' /\ TaskTypes' /\ NumberTypes'
  BY <1>a, <1>b DEF Activate, Take, NoRequest, NewAdapter, Threads
<1>2. FlagTypes'
  BY <1>a, <1>b DEF Activate, Take, NoRequest, NewAdapter, Threads
<1>3. Moves' /\ Answerable' /\ TurnNumbered' /\ PromptsCounted'
  BY <1>a, <1>b DEF Activate, Take, NoRequest, NewAdapter, Threads
<1> QED
  BY <1>1, <1>2, <1>3

(* ... and so does each way of starting a switch: at once, by closing the  *)
(* session left first, or not at all.                                      *)
LEMMA SwitchCore ==
  ASSUME CoreInv, ~Live, NEW t \in Threads, SwitchTo(t),
         UNCHANGED <<turnVars, inputs, restarts>>
  PROVE  CoreInv'
<1>1. CASE Activate(t, session, Hydrate(t)) /\ UNCHANGED ledger
  BY <1>1, ActivateCore DEF CoreInv, CoreTypes, SessionTypes
<1>2. CASE RecordClosed(session) /\ loop' = "closing" /\ goal' = t
           /\ UNCHANGED <<sessions, approvals, adapter>>
  <2> USE BridgeAssumption DEF CoreInv, CoreTypes, LoopTypes, SessionTypes, TaskTypes, FlagTypes,
                             NumberTypes, Moves, Answerable, TurnNumbered, PromptsCounted,
                             Waiting, InTurn, Live, Up, sessions, approvals, turnVars
  <2>b. \A u \in Threads : InputsIn(ledger[u]) \in Nat
    BY Counts
  <2>c. ledger' \in Ledgers /\ \A u \in Threads : InputsIn(ledger'[u]) = InputsIn(ledger[u])
    <3>1. /\ ledger \in Ledgers /\ session \in Session
          /\ ledger' = Recorded(session.thread, "closed", session.turns)
      BY <1>2 DEF RecordClosed
    <3> QED
      BY ONLY <3>1, ClosedEffect
  <2>1. LoopTypes' /\ SessionTypes' /\ TaskTypes' /\ NumberTypes'
    BY <1>2, <2>b, <2>c DEF Threads
  <2>2. FlagTypes'
    BY <1>2, <2>b, <2>c DEF Threads
  <2>3. Moves' /\ Answerable' /\ TurnNumbered' /\ PromptsCounted'
    BY <1>2, <2>b, <2>c DEF Threads
  <2> QED
    BY <2>1, <2>2, <2>3
<1>3. CASE Refuse /\ UNCHANGED <<sessions, ledger, approvals, adapter>>
  <2> USE BridgeAssumption DEF CoreInv, CoreTypes, LoopTypes, SessionTypes, TaskTypes, FlagTypes,
                             NumberTypes, Moves, Answerable, TurnNumbered, PromptsCounted,
                             Waiting, InTurn, Live, Up, sessions, approvals, turnVars
  <2>a. \A u \in Threads : InputsIn(ledger[u]) \in Nat
    BY Counts
  <2>1. LoopTypes' /\ SessionTypes' /\ TaskTypes' /\ NumberTypes'
    BY <1>3, <2>a DEF Refuse
  <2>2. FlagTypes'
    BY <1>3, <2>a DEF Refuse
  <2>3. Moves' /\ Answerable' /\ TurnNumbered' /\ PromptsCounted'
    BY <1>3, <2>a DEF Refuse
  <2> QED
    BY <2>1, <2>2, <2>3
<1> QED
  BY <1>1, <1>2, <1>3 DEF SwitchTo

(* Every action keeps it.                                                  *)
LEMMA CoreStep == CoreInv /\ [Next]_vars => CoreInv'
<1> SUFFICES ASSUME CoreInv, [Next]_vars PROVE CoreInv'
  OBVIOUS
<1> USE BridgeAssumption DEF CoreInv, CoreTypes, LoopTypes, SessionTypes, TaskTypes, FlagTypes,
                             NumberTypes, Moves, Answerable, TurnNumbered, PromptsCounted,
                             Waiting, InTurn, Live, Up, sessions, approvals, turnVars
<1>a. \A t \in Threads : InputsIn(ledger[t]) \in Nat
  BY Counts
<1>b. session \in Session /\ first \in Session /\ session.thread \in Threads
  BY DEF Session
<1>1. ASSUME NEW t \in Threads, LaunchTui(t) PROVE CoreInv'
  <2>1. LoopTypes' /\ SessionTypes' /\ TaskTypes' /\ NumberTypes'
    BY <1>1, RestoredEffect DEF LaunchTui, Begin, NoRequest, NewAdapter, Threads
  <2>2. FlagTypes'
    BY <1>1, RestoredEffect DEF LaunchTui, Begin, NoRequest, NewAdapter, Threads
  <2>3. Moves' /\ Answerable' /\ TurnNumbered' /\ PromptsCounted'
    BY <1>1, RestoredEffect, <1>a DEF LaunchTui, Begin, NoRequest, NewAdapter, Threads
  <2> QED
    BY <2>1, <2>2, <2>3
<1>2. ASSUME NEW t \in Threads, LaunchOneShot(t) PROVE CoreInv'
  <2>1. LoopTypes' /\ SessionTypes' /\ TaskTypes' /\ NumberTypes'
    BY <1>2, RestoredEffect DEF LaunchOneShot, Begin, NoRequest, NewAdapter, Threads
  <2>2. FlagTypes'
    BY <1>2, RestoredEffect DEF LaunchOneShot, Begin, NoRequest, NewAdapter, Threads
  <2>3. Moves' /\ Answerable' /\ TurnNumbered' /\ PromptsCounted'
    BY <1>2, RestoredEffect, <1>a DEF LaunchOneShot, Begin, NoRequest, NewAdapter, Threads
  <2> QED
    BY <2>1, <2>2, <2>3
<1>3. CASE Crash
  <2>1. LoopTypes' /\ SessionTypes' /\ TaskTypes' /\ NumberTypes'
    BY <1>3 DEF Crash, Idle, NoRequest
  <2>2. FlagTypes'
    BY <1>3 DEF Crash, Idle, NoRequest
  <2>3. Moves' /\ Answerable' /\ TurnNumbered' /\ PromptsCounted'
    BY <1>3, <1>a DEF Crash, Idle, NoRequest
  <2> QED
    BY <2>1, <2>2, <2>3
<1>4. CASE RecorderFails
  <2>1. LoopTypes' /\ SessionTypes' /\ TaskTypes' /\ NumberTypes'
    BY <1>4 DEF RecorderFails, Session
  <2>2. FlagTypes'
    BY <1>4 DEF RecorderFails, Session
  <2>3. Moves' /\ Answerable' /\ TurnNumbered' /\ PromptsCounted'
    BY <1>4, <1>a DEF RecorderFails, Session
  <2> QED
    BY <2>1, <2>2, <2>3
<1>5. CASE StartTurn
  <2>1. LoopTypes' /\ SessionTypes' /\ TaskTypes'
    BY <1>5, RecordedEffect DEF StartTurn, Step, TurnOnly, Started, Session
  <2>2. FlagTypes'
    BY <1>5 DEF StartTurn, Step, TurnOnly, Started
  <2>3. NumberTypes'
    <3>1. task = "created" /\ adapter.counter \in Nat /\ adapter.counter + 1 <= inputs
      BY <1>5 DEF StartTurn, Step
    <3>2. adapter.counter + 1 \in 0..MaxInputs
      BY <3>1
    <3> QED
      BY <1>5, <3>2 DEF StartTurn, Started, TurnOnly
  <2>4. Moves' /\ Answerable' /\ TurnNumbered'
    BY <1>5 DEF StartTurn, Step, TurnOnly, Started, Session
  <2>5. PromptsCounted'
    BY <1>a, <1>5, RecordedEffect DEF StartTurn, Step, TurnOnly, Started, Session
  <2> QED
    BY <2>1, <2>2, <2>3, <2>4, <2>5
<1>6. CASE TurnFails
  <2>0. /\ session' \in Session /\ session'.thread = session.thread
        /\ session'.touched = session.touched
    BY <1>6 DEF TurnFails, Session
  <2>1. LoopTypes' /\ SessionTypes' /\ TaskTypes' /\ NumberTypes'
    BY <1>6, <2>0 DEF TurnFails, Step, TurnOnly, Idle
  <2>2. FlagTypes'
    BY <1>6 DEF TurnFails, Step, TurnOnly, Idle
  <2>3. Moves' /\ Answerable' /\ TurnNumbered' /\ PromptsCounted'
    BY <1>6, <2>0, <1>a DEF TurnFails, Step, TurnOnly, Idle
  <2> QED
    BY <2>1, <2>2, <2>3
<1>7. CASE Answered
  <2>1. LoopTypes' /\ SessionTypes' /\ TaskTypes' /\ NumberTypes'
    BY <1>7, RecordedEffect DEF Answered, Step, TurnOnly, EndTurn, NoRequest, Session
  <2>2. FlagTypes'
    BY <1>7, RecordedEffect DEF Answered, Step, TurnOnly, EndTurn, NoRequest, Session
  <2>3. Moves' /\ Answerable' /\ TurnNumbered' /\ PromptsCounted'
    BY <1>7, RecordedEffect, <1>a DEF Answered, Step, TurnOnly, EndTurn, NoRequest, Session
  <2> QED
    BY <2>1, <2>2, <2>3
<1>8. CASE Finish
  <2>1. LoopTypes' /\ SessionTypes' /\ TaskTypes' /\ NumberTypes'
    BY <1>8, RecordedEffect DEF Finish, Step, TurnOnly, EndTurn, Session
  <2>2. FlagTypes'
    BY <1>8, RecordedEffect DEF Finish, Step, TurnOnly, EndTurn, Session
  <2>3. Moves' /\ Answerable' /\ TurnNumbered' /\ PromptsCounted'
    BY <1>8, RecordedEffect, <1>a DEF Finish, Step, TurnOnly, EndTurn, Session
  <2> QED
    BY <2>1, <2>2, <2>3
<1>9. CASE Complete
  <2>1. LoopTypes' /\ SessionTypes' /\ TaskTypes' /\ NumberTypes'
    BY <1>9 DEF Complete, Step, TurnOnly, Idle
  <2>2. FlagTypes'
    BY <1>9 DEF Complete, Step, TurnOnly, Idle
  <2>3. Moves' /\ Answerable' /\ TurnNumbered' /\ PromptsCounted'
    BY <1>9, <1>a DEF Complete, Step, TurnOnly, Idle
  <2> QED
    BY <2>1, <2>2, <2>3
<1>10. CASE Interrupted
  <2>1. LoopTypes' /\ SessionTypes' /\ TaskTypes' /\ NumberTypes'
    BY <1>10 DEF Interrupted, TurnOnly, Idle, NoRequest
  <2>2. FlagTypes'
    BY <1>10 DEF Interrupted, TurnOnly, Idle, NoRequest
  <2>3. Moves' /\ Answerable' /\ TurnNumbered' /\ PromptsCounted'
    BY <1>10, <1>a DEF Interrupted, TurnOnly, Idle, NoRequest
  <2> QED
    BY <2>1, <2>2, <2>3
<1>11. CASE NeverStarts
  <2>1. LoopTypes' /\ SessionTypes' /\ TaskTypes' /\ NumberTypes'
    BY <1>11 DEF NeverStarts, TurnOnly
  <2>2. FlagTypes'
    BY <1>11 DEF NeverStarts, TurnOnly
  <2>3. Moves' /\ Answerable' /\ TurnNumbered' /\ PromptsCounted'
    BY <1>11, <1>a DEF NeverStarts, TurnOnly
  <2> QED
    BY <2>1, <2>2, <2>3
<1>12. CASE Ask
  BY <1>12 DEF Ask, Step, TurnOnly
<1>13. CASE UserInput
  <2>1. LoopTypes' /\ SessionTypes' /\ TaskTypes' /\ NumberTypes'
    BY <1>13 DEF UserInput, Reading
  <2>2. FlagTypes'
    BY <1>13 DEF UserInput, Reading
  <2>3. Moves' /\ Answerable' /\ TurnNumbered' /\ PromptsCounted'
    BY <1>13, <1>a DEF UserInput, Reading
  <2> QED
    BY <2>1, <2>2, <2>3
<1>14. CASE Slash
  BY <1>14 DEF Slash, Reading, QuietCommand
<1>15. CASE SlashNew
  <2>1. CASE Live /\ UNCHANGED <<loop, goal, sessions, ledger, approvals, adapter>>
    BY <1>15, <2>1 DEF SlashNew, Reading
  <2>2. CASE ~Live /\ CreateNew
    <3>1. made + 1 \in Threads /\ SwitchTo(made + 1)
      BY <2>2 DEF CreateNew, Threads
    <3>2. UNCHANGED <<turnVars, inputs, restarts>>
      BY <1>15 DEF SlashNew
    <3> QED
      BY <2>2, <3>1, <3>2, SwitchCore
  <2> QED
    BY <1>15, <2>1, <2>2 DEF SlashNew
<1>16. ASSUME NEW r \in 1..MaxRequests, NEW d \in Decisions, Respond(r, d) PROVE CoreInv'
  BY <1>16 DEF Respond, Reading
<1>17. ASSUME NEW t \in Threads, Resume(t) PROVE CoreInv'
  BY <1>17 DEF Resume, Reading, Refuse, Threads
<1>18. CASE New
  <2>1. CASE Live /\ Refuse /\ UNCHANGED <<sessions, ledger, approvals, adapter>>
    BY <1>18, <2>1 DEF New, Reading, Refuse
  <2>2. CASE ~Live /\ CreateNew
    <3>1. made + 1 \in Threads /\ SwitchTo(made + 1)
      BY <2>2 DEF CreateNew, Threads
    <3>2. UNCHANGED <<turnVars, inputs, restarts>>
      BY <1>18 DEF New
    <3> QED
      BY <2>2, <3>1, <3>2, SwitchCore
  <2> QED
    BY <1>18, <2>1, <2>2 DEF New
<1>19. CASE Interrupt
  BY <1>19 DEF Interrupt, Reading
<1>20. CASE Resolved
  <2>1. goal \in Threads /\ ~Live /\ UNCHANGED <<turnVars, inputs, restarts>>
    BY <1>20 DEF Resolved
  <2>2. CASE Refuse /\ UNCHANGED <<sessions, ledger, approvals, adapter>>
    BY <1>20, <2>1, <2>2 DEF Refuse
  <2>3. CASE SwitchTo(goal)
    BY <2>1, <2>3, SwitchCore
  <2> QED
    BY <1>20, <2>2, <2>3 DEF Resolved
<1>21. CASE Closed
  <2>1. goal \in Threads /\ ~Live
    BY <1>21 DEF Closed
  <2>2. [session EXCEPT !.closed = TRUE] \in Session
    BY <1>b DEF Session
  <2> QED
    BY <1>21, <2>1, <2>2, ActivateCore DEF Closed
<1>22. CASE CloseFails
  <2>1. LoopTypes' /\ TaskTypes' /\ NumberTypes'
    BY <1>22 DEF CloseFails, Refuse
  <2>2. SessionTypes'
    BY <1>22 DEF CloseFails, Refuse, Session
  <2>3. FlagTypes'
    BY <1>22 DEF CloseFails, Refuse
  <2>4. Moves' /\ Answerable' /\ TurnNumbered' /\ PromptsCounted'
    BY <1>22, <1>a DEF CloseFails, Refuse, Session
  <2> QED
    BY <2>1, <2>2, <2>3, <2>4
<1>23. CASE EndOfInput
  BY <1>23 DEF EndOfInput, Reading
<1>24. CASE Leave
  <2>a. Own \in Session
    BY <1>b DEF Own
  <2>b. \/ UNCHANGED ledger
        \/ RecordClosed(Own)
    BY <1>24 DEF Leave
  <2>c. ledger' \in Ledgers /\ \A u \in Threads : InputsIn(ledger'[u]) = InputsIn(ledger[u])
    <3>1. CASE UNCHANGED ledger
      BY <3>1
    <3>2. CASE RecordClosed(Own)
      <4>1. /\ ledger \in Ledgers /\ Own \in Session
            /\ ledger' = Recorded(Own.thread, "closed", Own.turns)
        BY <2>a, <3>2 DEF RecordClosed
      <4> QED
        BY ONLY <4>1, ClosedEffect
    <3> QED
      BY <2>b, <3>1, <3>2
  <2>1. LoopTypes' /\ SessionTypes' /\ TaskTypes' /\ NumberTypes'
    BY <1>24, <1>a, <2>c DEF Leave
  <2>2. FlagTypes'
    BY <1>24, <1>a, <2>c DEF Leave
  <2>3. Moves' /\ Answerable' /\ TurnNumbered' /\ PromptsCounted'
    BY <1>24, <1>a, <2>c DEF Leave
  <2> QED
    BY <2>1, <2>2, <2>3
<1>25. CASE Exit
  BY <1>25 DEF Exit, QuietCommand
<1>26. CASE UNCHANGED vars
  BY <1>26 DEF vars
<1> QED
  BY <1>1, <1>2, <1>3, <1>4, <1>5, <1>6, <1>7, <1>8, <1>9, <1>10, <1>11, <1>12, <1>13, <1>14,
     <1>15, <1>16, <1>17, <1>18, <1>19, <1>20, <1>21, <1>22, <1>23, <1>24, <1>25, <1>26
     DEF Next, Turn, Command

-------------------------------------------------------------------------------
(* The client's view of the bridge.                                        *)

View == [thread : Threads, open : 0..MaxInputs, last : 0..MaxInputs]

(* What the client makes of thread.started ...                             *)
LEMMA Announced ==
  ASSUME NEW v, NEW t
  PROVE  /\ See(v, Event("thread.started", t)) = [thread |-> t, open |-> 0, last |-> 0]
         /\ ~Terminal(Event("thread.started", t))
  BY Zenon DEF See, Event, Terminal

(* ... of turn.started ...                                                 *)
LEMMA OpenedSeen ==
  ASSUME NEW v \in View, NEW k \in 0..MaxInputs, NEW e, e = TurnEvent("turn.started", k)
  PROVE  /\ See(v, e) \in View /\ ~Terminal(e)
         /\ See(v, e).thread = v.thread /\ See(v, e).open = k /\ See(v, e).last = k
<1>1. e.type = "turn.started" /\ e.turn = k
  BY DEF TurnEvent
<1>2. ~Terminal(e)
  BY <1>1 DEF Terminal
<1>3. See(v, e) = [v EXCEPT !.open = k, !.last = k]
  BY <1>1, Zenon DEF See
<1> QED
  BY <1>2, <1>3 DEF View

(* ... and of the turn's last event: it closes the turn it names only.     *)
LEMMA Ended ==
  ASSUME NEW v \in View, NEW k, NEW type \in {"turn.completed", "turn.failed"},
         NEW e, e = TurnEvent(type, k)
  PROVE  /\ See(v, e) \in View /\ Terminal(e)
         /\ See(v, e).thread = v.thread /\ See(v, e).last = v.last
         /\ See(v, e).open = IF k = v.open THEN 0 ELSE v.open
<1>1. e.type = type /\ e.turn = k
  BY DEF TurnEvent
<1>2. Terminal(e) /\ e.type # "thread.started" /\ e.type # "turn.started"
  BY <1>1 DEF Terminal
<1>3. CASE k = v.open
  <2>1. See(v, e) = [v EXCEPT !.open = 0]
    BY <1>1, <1>2, <1>3, Zenon DEF See
  <2> QED
    BY <1>2, <1>3, <2>1, BridgeAssumption DEF View
<1>4. CASE k # v.open
  <2>1. See(v, e) = v
    BY <1>1, <1>2, <1>4, Zenon DEF See
  <2> QED
    BY <1>2, <1>4, <2>1
<1> QED
  BY <1>3, <1>4

(* Events that only answer the client.                                     *)
Answer(e) ==
  e.type \in {"session.status", "session.error", "session.listed", "slash.blocked",
              "slash.unknown", "approval.requested"}

LEMMA AnswerSeen ==
  ASSUME NEW v, NEW e, Answer(e)
  PROVE  See(v, e) = v /\ ~Terminal(e)
<1>1. e.type # "thread.started" /\ e.type # "turn.started" /\ ~Terminal(e)
  BY DEF Answer, Terminal
<1> QED
  BY <1>1, Zenon DEF See

(* The client follows the bridge's thread and its turns.                   *)
Follows ==
  /\ view \in View
  /\ owed \in BOOLEAN
  /\ view.thread = session.thread
  /\ view.last = adapter.counter
  /\ Up => view.open = turnId

(* What a step has emitted is well-formed and attributed.                  *)
Fits(e, v) ==
  /\ e.thread \in Threads
  /\ e.turn \in 0..MaxInputs
  /\ e.type # "thread.started" => e.thread = v.thread
  /\ e.type = "approval.requested" => e.turn = v.open

AllFit == \A i \in DOMAIN out : Fits(out[i], view)

ViewInv == Follows /\ AllFit /\ OutcomeReported

(* ... and the step is one that TurnProtocol allows.                       *)
ProtocolStep == [Protocol!Next]_(Protocol!vars)

(* A step that says nothing, or only answers.                              *)
LEMMA QuietStep ==
  ASSUME Silent \/ (\E e : Answer(e) /\ Emit(<<e>>) /\ Fits(e, view')), owed \in BOOLEAN
  PROVE  view' = view /\ owed' = owed /\ AllFit'
<1>1. CASE Silent
  <2>1. out' = <<>> /\ view' = view /\ owed' = owed
    BY <1>1, SilentEffect
  <2> QED
    BY <2>1 DEF AllFit
<1>2. CASE \E e : Answer(e) /\ Emit(<<e>>) /\ Fits(e, view')
  <2>1. PICK e : Answer(e) /\ Emit(<<e>>) /\ Fits(e, view')
    BY <1>2
  <2>2. See(view, e) = view /\ ~Terminal(e)
    BY <2>1, AnswerSeen
  <2>3. out' = <<e>> /\ view' = See(view, e) /\ owed' = (owed /\ ~Terminal(e))
    BY <2>1, EmitOne
  <2>4. AllFit'
    BY <2>1, <2>3 DEF AllFit
  <2> QED
    BY <2>2, <2>3, <2>4
<1> QED
  BY <1>1, <1>2

(* ... keeps the view true, and is at most the bridge's going down.        *)
LEMMA QuietKeeps ==
  ASSUME ViewInv, Silent \/ (\E e : Answer(e) /\ Emit(<<e>>) /\ Fits(e, view')),
         session'.thread = session.thread, adapter'.counter = adapter.counter,
         turnId' = turnId, Up' => Up, ~Live' /\ owed => task' = "unstarted"
  PROVE  ViewInv' /\ ProtocolStep
<1>1. view' = view /\ owed' = owed /\ AllFit'
  BY QuietStep DEF ViewInv, Follows
<1>2. ViewInv'
  BY <1>1 DEF ViewInv, Follows, OutcomeReported
<1>3. CASE Up' <=> Up
  BY <1>1, <1>2, <1>3 DEF ProtocolStep, Protocol!vars
<1>4. CASE Up /\ ~Up'
  BY <1>1, <1>2, <1>4 DEF ProtocolStep, Protocol!Next, Protocol!Stop
<1> QED
  BY <1>3, <1>4

(* The turn's last event closes it.                                        *)
LEMMA EndKeeps ==
  ASSUME CoreInv, ViewInv, NEW k \in 1..MaxInputs, NEW type \in {"turn.completed", "turn.failed"},
         NEW es, NEW n \in Nat \ {0}, DOMAIN es = 1..n, es[1] = TurnEvent(type, k),
         \A i \in 2..n : Report(es[i]) /\ es[i].thread = session.thread /\ es[i].turn = 0,
         Emit(es), Idle, Up, InTurn => k = turnId, loop' = loop,
         session'.thread = session.thread, adapter'.counter = adapter.counter
  PROVE  ViewInv' /\ ProtocolStep
<1> DEFINE e == es[1]
<1>1. view \in View /\ view.thread = session.thread /\ view.last = adapter.counter
  BY DEF ViewInv, Follows
<1>2. out' = es /\ view' = See(view, e) /\ owed' = (owed /\ ~Terminal(e))
  BY EmitEffect
<1>3. /\ view' \in View /\ Terminal(e)
      /\ view'.thread = view.thread /\ view'.last = view.last
      /\ view'.open = IF k = view.open THEN 0 ELSE view.open
  BY <1>1, <1>2, Ended
<1>4. view'.open = 0
  BY <1>3 DEF ViewInv, Follows, CoreInv, TurnNumbered
<1>5. owed' = FALSE
  BY <1>2, <1>3
<1>6. Follows'
  BY <1>1, <1>3, <1>4, <1>5 DEF Follows, Idle
<1>7. session.thread \in Threads
  BY DEF CoreInv, CoreTypes, SessionTypes, Session
<1>8. e.thread = session.thread /\ e.turn = k /\ e.type = type
  BY DEF TurnEvent, CoreInv, TurnNumbered
<1>9. Fits(e, view')
  BY <1>1, <1>3, <1>7, <1>8 DEF Fits
<1>10. ASSUME NEW i \in 2..n PROVE Fits(es[i], view')
  <2>1. es[i].type # "approval.requested"
    BY DEF Report
  <2> QED
    BY <1>1, <1>3, <1>7, <2>1, BridgeAssumption DEF Fits
<1>11. AllFit'
  BY <1>2, <1>9, <1>10 DEF AllFit
<1>12. ViewInv'
  BY <1>5, <1>6, <1>11 DEF ViewInv, OutcomeReported
<1>13. Up' <=> Up
  BY DEF Up
<1>14. CASE view.open = 0
  BY <1>3, <1>4, <1>12, <1>13, <1>14 DEF ProtocolStep, Protocol!vars
<1>15. CASE view.open # 0
  BY <1>3, <1>4, <1>12, <1>13, <1>15 DEF ProtocolStep, Protocol!Next, Protocol!End
<1> QED
  BY <1>14, <1>15

(* A fresh adapter announces its thread.                                   *)
LEMMA ActivateKeeps ==
  ASSUME CoreInv, ViewInv, Up, ~Live, NEW t \in Threads, NEW left,
         Activate(t, left, Hydrate(t)), UNCHANGED turnVars
  PROVE  ViewInv' /\ ProtocolStep
<1> DEFINE e == Event("thread.started", t)
           es == <<e, Event("session.status", t)>> \o Hydrate(t)
           n == Len(es)
<1>1. InputsIn(ledger[t]) \in 0..MaxInputs
  <2>1. InputsIn(ledger[t]) \in Nat
    BY Counts DEF CoreInv, CoreTypes, SessionTypes
  <2>2. Waiting \in {0, 1} /\ inputs \in 0..MaxInputs /\ InputsIn(ledger[t]) + Waiting <= inputs
    BY DEF CoreInv, CoreTypes, NumberTypes, PromptsCounted, Waiting
  <2> QED
    BY <2>1, <2>2, BridgeAssumption
<1>2. /\ DOMAIN es = 1..n /\ n \in Nat \ {0} /\ es[1] = e
      /\ \A i \in 2..n : Report(es[i]) /\ es[i].thread = t /\ es[i].turn \in 0..MaxInputs
  <2>1. CASE ~Found(t)
    <3>1. es = <<e, Event("session.status", t)>> /\ n = 2
      BY <2>1 DEF Hydrate
    <3> QED
      BY <3>1, BridgeAssumption DEF Event, Report
  <2>2. CASE Found(t)
    <3> DEFINE h == [type |-> "session.hydrated", thread |-> t, turn |-> InputsIn(ledger[t])]
    <3>1. Hydrate(t) = <<h>>
      BY <2>2 DEF Hydrate
    <3> HIDE DEF h
    <3>2. n = 3 /\ es[1] = e /\ es[2] = Event("session.status", t) /\ es[3] = h
      BY <3>1
    <3>3. DOMAIN es = 1..3
      BY <3>1
    <3>4. Report(es[2]) /\ es[2].thread = t /\ es[2].turn = 0
      BY <3>2 DEF Event, Report
    <3>5. Report(es[3]) /\ es[3].thread = t /\ es[3].turn = InputsIn(ledger[t])
      BY <3>2 DEF h, Report
    <3> HIDE DEF es, n
    <3> QED
      BY <1>1, <3>2, <3>3, <3>4, <3>5, BridgeAssumption
  <2> QED
    BY <2>1, <2>2
<1>3. Emit(es)
  BY DEF Activate
<1> HIDE DEF es, n, e
<1>4. out' = es /\ view' = See(view, e) /\ owed' = (owed /\ ~Terminal(e))
  BY <1>2, <1>3, EmitEffect
<1>5. view' = [thread |-> t, open |-> 0, last |-> 0] /\ ~Terminal(e)
  BY <1>4, Announced DEF e
<1>6. session'.thread = t /\ adapter'.counter = 0 /\ turnId' = 0
  <2>1. session' = Restored(t) /\ adapter' = NewAdapter(t) /\ turnId' = turnId
    BY DEF Activate, Take, turnVars
  <2> QED
    BY <2>1 DEF Restored, NewAdapter, CoreInv, TurnNumbered, InTurn, Live
<1>7. owed' = owed
  BY <1>4, <1>5 DEF ViewInv, Follows
<1>8. Follows'
  BY <1>5, <1>6, <1>7, BridgeAssumption DEF Follows, View, ViewInv
<1>9. Fits(e, view')
  <2>1. e.type = "thread.started" /\ e.thread = t /\ e.turn = 0
    BY DEF e, Event
  <2> QED
    BY <2>1, BridgeAssumption DEF Fits
<1>10. ASSUME NEW i \in 2..n PROVE Fits(es[i], view')
  <2>1. es[i].type # "approval.requested"
    BY <1>2 DEF Report
  <2> QED
    <3>1. es[i].thread = t /\ es[i].turn \in 0..MaxInputs /\ view'.thread = t
      BY <1>2, <1>5
    <3> QED
      BY <2>1, <3>1 DEF Fits
<1>11. AllFit'
  BY <1>2, <1>4, <1>9, <1>10 DEF AllFit
<1>12. ViewInv'
  BY <1>7, <1>8, <1>11 DEF ViewInv, OutcomeReported, turnVars, Live
<1>13. Up' <=> Up
  BY DEF Up, Activate, Take
<1>14. view.open = 0
  BY DEF ViewInv, Follows, CoreInv, TurnNumbered, InTurn, Live
<1> QED
  BY <1>5, <1>12, <1>13, <1>14 DEF ProtocolStep, Protocol!Next, Protocol!Announce

(* An event that answers the client names the thread it is shown.          *)
LEMMA AnswerFits ==
  ASSUME CoreInv, ViewInv, NEW e, Answer(e), e.type # "approval.requested",
         e.thread = session.thread, e.turn = 0
  PROVE  Fits(e, view)
<1>1. session.thread \in Threads
  BY DEF CoreInv, CoreTypes, SessionTypes, Session
<1>2. e.turn \in 0..MaxInputs
  BY BridgeAssumption
<1> QED
  BY <1>1, <1>2 DEF Fits, ViewInv, Follows

(* A command that only answers, or does nothing the client can see.        *)
LEMMA SameTurnKeeps ==
  ASSUME CoreInv, ViewInv, Up' => Up, UNCHANGED <<adapter, turnVars>>,
         session'.thread = session.thread,
         \/ Silent
         \/ \E e : /\ Answer(e) /\ e.type # "approval.requested"
                   /\ e.thread = session.thread /\ e.turn = 0
                   /\ Emit(<<e>>)
  PROVE  ViewInv' /\ ProtocolStep
<1>1. Silent \/ (\E e : Answer(e) /\ Emit(<<e>>) /\ Fits(e, view'))
  <2>1. CASE Silent
    BY <2>1
  <2>2. ASSUME NEW e, Answer(e), e.type # "approval.requested", e.thread = session.thread,
               e.turn = 0, Emit(<<e>>)
        PROVE  Fits(e, view')
    <3>1. Fits(e, view)
      BY <2>2, AnswerFits
    <3>2. view' = view
      BY <2>2, AnswerSeen, EmitOne
    <3> QED
      BY <3>1, <3>2
  <2> QED
    BY <2>1, <2>2
<1>2. ~Live' /\ owed => task' = "unstarted"
  BY DEF ViewInv, OutcomeReported, turnVars, Live
<1> QED
  BY <1>1, <1>2, QuietKeeps DEF turnVars

(* What an event of the bridge itself carries.                             *)
LEMMA EventFields ==
  ASSUME NEW type, NEW t
  PROVE  /\ Event(type, t).type = type
         /\ Event(type, t).thread = t
         /\ Event(type, t).turn = 0
  BY DEF Event

(* An error ends a command.                                                *)
LEMMA RefuseKeeps ==
  ASSUME CoreInv, ViewInv, Up, Refuse, session'.thread = session.thread,
         UNCHANGED <<adapter, turnVars>>
  PROVE  ViewInv' /\ ProtocolStep
<1> DEFINE e == Event("session.error", session.thread)
<1>1. e.type = "session.error" /\ e.thread = session.thread /\ e.turn = 0
  BY EventFields
<1>2. Emit(<<e>>)
  BY DEF Refuse
<1> HIDE DEF e
<1>3. Answer(e)
  BY <1>1 DEF Answer
<1> QED
  BY <1>1, <1>2, <1>3, SameTurnKeeps

(* A switch announces the thread it leads to, waits, or is refused.        *)
LEMMA SwitchKeeps ==
  ASSUME CoreInv, ViewInv, Up, ~Live, NEW t \in Threads, SwitchTo(t), UNCHANGED turnVars
  PROVE  ViewInv' /\ ProtocolStep
<1>1. CASE Activate(t, session, Hydrate(t))
  BY <1>1, ActivateKeeps
<1>2. CASE Silent /\ UNCHANGED <<sessions, approvals, adapter>>
  BY <1>2, SameTurnKeeps DEF sessions
<1>3. CASE Refuse /\ UNCHANGED <<sessions, ledger, approvals, adapter>>
  BY <1>3, RefuseKeeps DEF sessions
<1> QED
  BY <1>1, <1>2, <1>3 DEF SwitchTo

(* A failed turn is closed under its own number, or under the number it    *)
(* would have had when it never started.                                   *)
LEMMA FailKeeps ==
  ASSUME CoreInv, ViewInv, Live, Emit(<<TurnEvent("turn.failed", FailureId)>>), Idle,
         UNCHANGED <<loop, adapter>>, session'.thread = session.thread
  PROVE  ViewInv' /\ ProtocolStep
<1> DEFINE k == FailureId
           es == <<TurnEvent("turn.failed", k)>>
<1>1. k \in 1..MaxInputs
  <2>1. /\ adapter.counter \in 0..MaxInputs /\ adapter.current \in 0..MaxInputs
        /\ inputs \in 0..MaxInputs
        /\ adapter.counter + Waiting <= inputs
    BY DEF CoreInv, CoreTypes, NumberTypes, PromptsCounted
  <2>2. CASE adapter.current # 0
    BY <2>1, <2>2 DEF FailureId
  <2>3. CASE adapter.current = 0
    <3>1. Waiting = 1
      BY <2>3 DEF CoreInv, TurnNumbered, InTurn, Live, Waiting
    <3>2. k = adapter.counter + 1
      BY <2>3 DEF FailureId
    <3> HIDE DEF k
    <3> QED
      BY <2>1, <3>1, <3>2, BridgeAssumption
  <2> QED
    BY <2>2, <2>3
<1>2. InTurn => k = turnId
  BY DEF CoreInv, TurnNumbered, FailureId
<1>3. Up
  BY DEF CoreInv, Moves, Up
<1> HIDE DEF k
<1>4. DOMAIN es = 1..1 /\ es[1] = TurnEvent("turn.failed", k) /\ Emit(es)
  BY DEF k
<1>5. \A i \in 2..1 : Report(es[i]) /\ es[i].thread = session.thread /\ es[i].turn = 0
  OBVIOUS
<1>6. loop' = loop /\ session'.thread = session.thread /\ adapter'.counter = adapter.counter
      /\ 1 \in Nat \ {0}
  OBVIOUS
<1> HIDE DEF es
<1> QED
  BY <1>1, <1>2, <1>3, <1>4, <1>5, <1>6, EndKeeps

(* The bridge begins with its thread announced and no turn.                *)
LEMMA ViewInit == Init => ViewInv /\ Protocol!Init
<1> SUFFICES ASSUME Init PROVE ViewInv /\ Protocol!Init
  OBVIOUS
<1>1. 1 \in Threads /\ 0 \in 0..MaxInputs
  BY BridgeAssumption DEF Threads
<1>2. session.thread = 1 /\ adapter.counter = 0 /\ turnId = 0
  BY DEF Init, Restored, NewAdapter
<1>3. view = [thread |-> 1, open |-> 0, last |-> 0] /\ owed = FALSE /\ Up
  BY DEF Init, Up
<1>4. out = <<Event("thread.started", 1)>>
  BY DEF Init
<1>5. Fits(Event("thread.started", 1), view)
  BY <1>1 DEF Fits, Event
<1>6. AllFit
  BY <1>4, <1>5 DEF AllFit
<1>7. view \in View
  BY <1>1, <1>3 DEF View
<1> QED
  BY <1>1, <1>2, <1>3, <1>6, <1>7 DEF ViewInv, Follows, OutcomeReported, Protocol!Init

(* A launch announces its thread; the one-shot's prompt is owed an answer. *)
LEMMA LaunchKeeps ==
  ASSUME ViewInv, ~Up, loop' \in {"reading", "oneshot"}, CoreInv, NEW t \in Threads, Begin(t),
         turnId' = turnId, owed' = FALSE \/ (owed' = TRUE /\ task' = "created")
  PROVE  ViewInv' /\ ProtocolStep
<1>1. 0 \in 0..MaxInputs
  BY BridgeAssumption
<1>2. session'.thread = t /\ adapter'.counter = 0
  BY DEF Begin, Restored, NewAdapter
<1>3. view' = [thread |-> t, open |-> 0, last |-> 0] /\ Up'
  BY DEF Begin, Up
<1>4. turnId' = 0
  BY DEF CoreInv, TurnNumbered, Moves, InTurn, Live, Up, CoreTypes, LoopTypes
<1>5. out' = <<Event("thread.started", t)>>
  BY DEF Begin
<1>6. Fits(Event("thread.started", t), view')
  BY <1>1 DEF Fits, Event
<1>7. AllFit'
  BY <1>5, <1>6 DEF AllFit
<1>8. view' \in View
  BY <1>1, <1>3 DEF View
<1>9. ViewInv'
  BY <1>2, <1>3, <1>4, <1>7, <1>8 DEF ViewInv, Follows, OutcomeReported, Live
<1> QED
  BY <1>3, <1>9 DEF ProtocolStep, Protocol!Next, Protocol!Relaunch, Protocol!Init

(* Every action keeps the view true, and is a step of TurnProtocol.        *)
LEMMA ViewStep == CoreInv /\ ViewInv /\ [Next]_vars => ViewInv' /\ ProtocolStep
<1> SUFFICES ASSUME CoreInv, ViewInv, [Next]_vars PROVE ViewInv' /\ ProtocolStep
  OBVIOUS
<1>1. ASSUME NEW t \in Threads, LaunchTui(t) PROVE ViewInv' /\ ProtocolStep
  BY <1>1, LaunchKeeps DEF LaunchTui, turnVars
<1>2. ASSUME NEW t \in Threads, LaunchOneShot(t) PROVE ViewInv' /\ ProtocolStep
  BY <1>2, LaunchKeeps DEF LaunchOneShot
<1>3. CASE Crash
  <2>1. Up /\ ~Up' /\ view' = view /\ owed' = FALSE /\ out' = <<>>
    BY <1>3 DEF Crash, Up
  <2>2. UNCHANGED <<session, adapter>>
    BY <1>3 DEF Crash, sessions
  <2>3. AllFit'
    BY <2>1 DEF AllFit
  <2>4. ViewInv'
    BY <2>1, <2>2, <2>3 DEF ViewInv, Follows, OutcomeReported
  <2> QED
    BY <2>1, <2>4 DEF ProtocolStep, Protocol!Next, Protocol!Stop
<1>4. CASE RecorderFails
  <2>1. session'.thread = session.thread
    BY <1>4 DEF RecorderFails, CoreInv, CoreTypes, SessionTypes, Session
  <2> QED
    BY <1>4, <2>1, SameTurnKeeps DEF RecorderFails, Up
<1>5. CASE StartTurn
  <2> DEFINE k == adapter.counter + 1
             e == TurnEvent("turn.started", k)
  <2>1. task = "created" /\ Emit(<<e>>) /\ turnId' = k /\ adapter'.counter = k
    BY <1>5 DEF StartTurn, Started, Step, CoreInv, CoreTypes, NumberTypes
  <2>2. k \in 1..MaxInputs
    BY <2>1, BridgeAssumption
       DEF CoreInv, CoreTypes, NumberTypes, PromptsCounted, Waiting
  <2>3. e.type = "turn.started" /\ e.thread = session.thread /\ e.turn = k
    BY DEF TurnEvent, CoreInv, TurnNumbered
  <2>4. session'.thread = session.thread /\ session.thread \in Threads /\ loop' = loop
        /\ task' = "running"
    BY <1>5 DEF StartTurn, TurnOnly, CoreInv, CoreTypes, SessionTypes, Session
  <2>5. view.open = 0 /\ Up
    BY <2>1 DEF ViewInv, Follows, CoreInv, TurnNumbered, InTurn, Moves, Live, Up
  <2>6. view \in View /\ view.thread = session.thread /\ view.last = adapter.counter
        /\ owed \in BOOLEAN
    BY DEF ViewInv, Follows
  <2>7. out' = <<e>> /\ view' = See(view, e) /\ owed' = (owed /\ ~Terminal(e))
    BY <2>1, EmitOne
  <2>8. /\ view' \in View /\ ~Terminal(e)
        /\ view'.thread = view.thread /\ view'.open = k /\ view'.last = k
    BY <2>2, <2>6, <2>7, OpenedSeen
  <2> HIDE DEF e, k
  <2>9. Fits(e, view')
    BY <2>2, <2>3, <2>4, <2>6, <2>8 DEF Fits
  <2>10. AllFit'
    BY <2>7, <2>9 DEF AllFit
  <2>11. ViewInv'
    BY <2>1, <2>4, <2>6, <2>7, <2>8, <2>10 DEF ViewInv, Follows, OutcomeReported, Live
  <2>12. Up' = Up
    BY <2>4 DEF Up
  <2> QED
    BY <2>5, <2>6, <2>8, <2>11, <2>12 DEF k, ProtocolStep, Protocol!Next, Protocol!Begin
<1>6. CASE TurnFails
  <2>1. session'.thread = session.thread
    BY <1>6 DEF TurnFails, CoreInv, CoreTypes, SessionTypes, Session
  <2>2. Live /\ Emit(<<TurnEvent("turn.failed", FailureId)>>) /\ Idle
        /\ UNCHANGED <<loop, adapter>>
    BY <1>6 DEF TurnFails, Step, Live, TurnOnly
  <2> QED
    BY <2>1, <2>2, FailKeeps
<1>7. CASE Answered
  <2>1. session'.thread = session.thread
    BY <1>7 DEF Answered, EndTurn, CoreInv, CoreTypes, SessionTypes, Session
  <2>2. Live' /\ UNCHANGED <<loop, turnId, adapter>> /\ Silent
    BY <1>7 DEF Answered, EndTurn, TurnOnly, Live
  <2> QED
    BY <2>1, <2>2, QuietKeeps DEF Up
<1>8. CASE Finish
  <2>1. session'.thread = session.thread
    BY <1>8 DEF Finish, EndTurn, CoreInv, CoreTypes, SessionTypes, Session
  <2>2. Live' /\ UNCHANGED <<loop, turnId, adapter>> /\ Silent
    BY <1>8 DEF Finish, EndTurn, TurnOnly, Live
  <2> QED
    BY <2>1, <2>2, QuietKeeps DEF Up
<1>9. CASE Complete
  <2> DEFINE k == adapter.current
             more == IF loop = "oneshot" THEN <<>> ELSE <<Status(session)>>
             es == <<TurnEvent("turn.completed", k)>> \o more
             n == Len(es)
  <2>1. task = "flushing" /\ Emit(es) /\ Idle /\ UNCHANGED <<loop, session>>
        /\ adapter'.counter = adapter.counter
    BY <1>9 DEF Complete, Step, TurnOnly, CoreInv, CoreTypes, NumberTypes
  <2>2. k \in 1..MaxInputs /\ k = turnId /\ Up
    BY <2>1, BridgeAssumption
       DEF CoreInv, CoreTypes, NumberTypes, TurnNumbered, InTurn, Moves, Live, Up
  <2>3. /\ DOMAIN es = 1..n /\ n \in Nat \ {0} /\ es[1] = TurnEvent("turn.completed", k)
        /\ \A i \in 2..n : Report(es[i]) /\ es[i].thread = session.thread /\ es[i].turn = 0
    <3>1. CASE loop = "oneshot"
      <4> DEFINE c == TurnEvent("turn.completed", k)
      <4>1. es = <<c>>
        BY <3>1
      <4> HIDE DEF c, more, es
      <4>2. n = 1 /\ es[1] = c /\ DOMAIN es = 1..1
        BY <4>1
      <4> HIDE DEF n
      <4> QED
        BY <4>2 DEF c
    <3>2. CASE loop # "oneshot"
      <4> DEFINE s == Status(session)
      <4>1. more = <<s>>
        BY <3>2
      <4> HIDE DEF s, more
      <4>2. n = 2 /\ es[1] = TurnEvent("turn.completed", k) /\ es[2] = s
        BY <4>1
      <4>3. DOMAIN es = 1..2
        BY <4>1
      <4>4. Report(Status(session)) /\ Status(session).thread = session.thread
            /\ Status(session).turn = 0
        BY DEF Status, Report, Event
      <4> HIDE DEF es, n
      <4> QED
        BY <4>2, <4>3, <4>4 DEF s
    <3> QED
      BY <3>1, <3>2
  <2> HIDE DEF k, es, n, more
  <2> QED
    BY <2>1, <2>2, <2>3, EndKeeps
<1>10. CASE Interrupted
  BY <1>10, FailKeeps DEF Interrupted, Live, TurnOnly
<1>11. CASE NeverStarts
  BY <1>11, QuietKeeps DEF NeverStarts, TurnOnly, Up
<1>12. CASE Ask
  <2> DEFINE e == TurnEvent("approval.requested", turnId)
  <2>1. e.type = "approval.requested" /\ e.thread = session.thread /\ e.turn = turnId
    BY DEF TurnEvent, CoreInv, TurnNumbered
  <2>2. Emit(<<e>>) /\ Live' /\ UNCHANGED <<loop, turnId, adapter, session>> /\ Live
    BY <1>12 DEF Ask, TurnOnly, Live, Step
  <2> HIDE DEF e
  <2>3. Answer(e)
    BY <2>1 DEF Answer
  <2>4. view' = view
    BY <2>2, <2>3, AnswerSeen, EmitOne
  <2>5. session.thread \in Threads /\ turnId \in 0..MaxInputs
    BY DEF CoreInv, CoreTypes, SessionTypes, Session, NumberTypes
  <2>6. view.thread = session.thread /\ view.open = turnId
    BY <2>2 DEF ViewInv, Follows, CoreInv, Moves, Live, Up
  <2>7. Fits(e, view')
    BY <2>1, <2>4, <2>5, <2>6 DEF Fits
  <2> QED
    BY <2>2, <2>3, <2>7, QuietKeeps DEF Up
<1>13. CASE UserInput
  <2>1. /\ Up /\ Up' /\ view' = view /\ out' = <<>> /\ owed' = TRUE /\ task' = "created"
        /\ UNCHANGED <<session, adapter, turnId>>
    BY <1>13 DEF UserInput, Reading, Up, sessions
  <2>2. ViewInv'
    BY <2>1 DEF ViewInv, Follows, AllFit, OutcomeReported, Live
  <2> QED
    BY <2>1, <2>2 DEF ProtocolStep, Protocol!vars
<1>14. CASE Slash
  <2> DEFINE listed == [type |-> "session.listed", thread |-> session.thread, turn |-> 0,
                        sessions |-> Listing]
  <2>1. PICK e : /\ e \in {Status(session), Event("slash.blocked", session.thread), listed,
                           Event("slash.unknown", session.thread)}
                 /\ Emit(<<e>>)
    BY <1>14 DEF Slash
  <2>2. Answer(e) /\ e.type # "approval.requested" /\ e.thread = session.thread /\ e.turn = 0
    BY <2>1 DEF Answer, Status, Event
  <2>3. UNCHANGED <<loop, session, adapter, turnVars>>
    BY <1>14 DEF Slash, QuietCommand, sessions
  <2> QED
    BY <2>1, <2>2, <2>3, SameTurnKeeps DEF Up
<1>15. CASE SlashNew
  <2>1. Up /\ UNCHANGED turnVars
    BY <1>15 DEF SlashNew, Reading, Up
  <2>2. CASE /\ Emit(<<Event("slash.blocked", session.thread)>>)
             /\ UNCHANGED <<loop, goal, sessions, ledger, approvals, adapter>>
    <3> DEFINE e == Event("slash.blocked", session.thread)
    <3>1. Answer(e) /\ e.type # "approval.requested" /\ e.thread = session.thread /\ e.turn = 0
      BY DEF Answer, Event
    <3> HIDE DEF e
    <3> QED
      BY <2>1, <2>2, <3>1, SameTurnKeeps DEF sessions, Up, e
  <2>3. CASE ~Live /\ CreateNew
    <3>1. made + 1 \in Threads /\ SwitchTo(made + 1)
      BY <2>3, BridgeAssumption DEF CreateNew, Threads, CoreInv, CoreTypes, LoopTypes
    <3> QED
      BY <2>1, <2>3, <3>1, SwitchKeeps
  <2> QED
    BY <1>15, <2>2, <2>3 DEF SlashNew
<1>16. ASSUME NEW r \in 1..MaxRequests, NEW d \in Decisions, Respond(r, d)
       PROVE  ViewInv' /\ ProtocolStep
  BY <1>16, SameTurnKeeps DEF Respond, sessions, Up
<1>17. ASSUME NEW t \in Threads, Resume(t) PROVE ViewInv' /\ ProtocolStep
  <2>1. Up /\ Up' /\ UNCHANGED <<session, adapter, turnVars>>
    BY <1>17 DEF Resume, Reading, sessions, Refuse, Up
  <2>2. CASE Refuse
    BY <2>1, <2>2, RefuseKeeps
  <2>3. CASE Silent
    BY <2>1, <2>3, SameTurnKeeps
  <2> QED
    BY <1>17, <2>2, <2>3 DEF Resume
<1>18. CASE New
  <2>1. Up /\ UNCHANGED turnVars
    BY <1>18 DEF New, Reading, Up
  <2>2. CASE Refuse /\ UNCHANGED <<sessions, ledger, approvals, adapter>>
    BY <2>1, <2>2, RefuseKeeps DEF sessions
  <2>3. CASE ~Live /\ CreateNew
    <3>1. made + 1 \in Threads /\ SwitchTo(made + 1)
      BY <2>3, BridgeAssumption DEF CreateNew, Threads, CoreInv, CoreTypes, LoopTypes
    <3> QED
      BY <2>1, <2>3, <3>1, SwitchKeeps
  <2> QED
    BY <1>18, <2>2, <2>3 DEF New
<1>19. CASE Interrupt
  <2>1. UNCHANGED <<loop, session, adapter, turnId, task>> /\ Silent
    BY <1>19 DEF Interrupt, sessions
  <2>2. ~Live' /\ owed => task' = "unstarted"
    BY <2>1 DEF ViewInv, OutcomeReported, Live
  <2> QED
    BY <2>1, <2>2, QuietKeeps DEF Up
<1>20. CASE Resolved
  <2>1. Up /\ ~Live /\ goal \in Threads /\ UNCHANGED turnVars
    BY <1>20 DEF Resolved, Up, CoreInv, Moves
  <2>2. CASE Refuse /\ UNCHANGED <<sessions, ledger, approvals, adapter>>
    BY <2>1, <2>2, RefuseKeeps DEF sessions
  <2>3. CASE SwitchTo(goal)
    BY <2>1, <2>3, SwitchKeeps
  <2> QED
    BY <1>20, <2>2, <2>3 DEF Resolved
<1>21. CASE Closed
  <2>1. Up /\ ~Live /\ goal \in Threads /\ UNCHANGED turnVars
    BY <1>21 DEF Closed, Up, CoreInv, Moves
  <2> QED
    BY <1>21, <2>1, ActivateKeeps DEF Closed
<1>22. CASE CloseFails
  <2>1. Up /\ Refuse /\ UNCHANGED <<adapter, turnVars>>
    BY <1>22 DEF CloseFails, Up
  <2>2. session'.thread = session.thread
    BY <1>22 DEF CloseFails, CoreInv, CoreTypes, SessionTypes, Session
  <2> QED
    BY <2>1, <2>2, RefuseKeeps
<1>23. CASE EndOfInput
  <2>1. UNCHANGED <<session, adapter, turnId, task>> /\ Silent /\ Up
    BY <1>23 DEF EndOfInput, sessions, Reading, Up
  <2>2. ~Live' /\ owed => task' = "unstarted"
    BY <2>1 DEF ViewInv, OutcomeReported, Live
  <2> QED
    BY <2>1, <2>2, QuietKeeps
<1>24. CASE Leave
  BY <1>24, SameTurnKeeps DEF Leave, sessions, Up
<1>25. CASE Exit
  BY <1>25, SameTurnKeeps DEF Exit, QuietCommand, sessions, Up
<1>26. CASE UNCHANGED vars
  BY <1>26 DEF vars, sessions, turnVars, events, ViewInv, Follows, AllFit, OutcomeReported, Up,
               Live, ProtocolStep, Protocol!vars
<1> QED
  BY <1>1, <1>2, <1>3, <1>4, <1>5, <1>6, <1>7, <1>8, <1>9, <1>10, <1>11, <1>12, <1>13, <1>14,
     <1>15, <1>16, <1>17, <1>18, <1>19, <1>20, <1>21, <1>22, <1>23, <1>24, <1>25, <1>26
     DEF Next, Turn, Command
-------------------------------------------------------------------------------
(* The rollouts.                                                           *)

(* The session counts the turns of its rollout.  The turn that ends after  *)
(* the recorder has failed is counted as it ends; no other one starts.     *)
Counted ==
  \/ session.turns = TurnsIn(ledger[session.thread])
  \/ session.dead /\ ~InTurn /\ session.turns = TurnsIn(ledger[session.thread]) + 1

(* A rollout nothing has been added to is as long as when the session was  *)
(* made, until an exit adds its session.closed; one that is being closed   *)
(* ends with it.                                                           *)
LedgerInv ==
  /\ Counted
  /\ loop \notin {"exiting", "exited", "down"} /\ ~session.touched =>
       Len(ledger[session.thread]) = session.base
  /\ loop = "closing" => EndsClosed(ledger[session.thread])

LeftClosed ==
  /\ Up
  /\ session'.thread # session.thread
  /\ Len(ledger[session.thread]) > session.base
  => EndsClosed(ledger'[session.thread])

LEMMA SameLedgerKeeps ==
  ASSUME CoreInv, LedgerInv, ledger' = ledger, session'.thread = session.thread,
         session'.turns = session.turns, session'.touched = session.touched,
         session'.base = session.base, session.dead => session'.dead, InTurn' => InTurn,
         loop' = "closing" => loop = "closing",
         loop \in {"exiting", "exited", "down"} => loop' \in {"exiting", "exited", "down"}
  PROVE  LedgerInv' /\ LeftClosed
  BY DEF LedgerInv, LeftClosed, Counted, Up

(* A new Session object.                                                   *)
LEMMA RestoredKeeps ==
  ASSUME CoreInv, NEW t \in Threads, session' = Restored(t), ledger' = ledger,
         loop' \in {"reading", "oneshot"}
  PROVE  LedgerInv'
<1>1. /\ session'.thread = t /\ session'.turns = TurnsIn(ledger[t])
      /\ session'.base = Len(ledger[t])
  BY RestoredEffect DEF CoreInv, CoreTypes, SessionTypes
<1> QED
  BY <1>1 DEF LedgerInv, Counted

LEMMA MoveKeeps ==
  ASSUME CoreInv, LedgerInv, NEW t \in Threads, NEW left,
         Activate(t, left, Hydrate(t)), ledger' = ledger,
         loop = "closing" \/ (~session.touched /\ loop \in {"reading", "resolving"})
  PROVE  LedgerInv' /\ LeftClosed
<1>1. session' = Restored(t) /\ loop' = "reading"
  BY DEF Activate, Take
<1>2. LedgerInv'
  BY <1>1, RestoredKeeps
<1>3. Len(ledger[session.thread]) \in Nat /\ session.base \in Nat
  BY Counts DEF CoreInv, CoreTypes, SessionTypes, Session
<1>4. LeftClosed
  BY <1>3 DEF LedgerInv, LeftClosed
<1> QED
  BY <1>2, <1>4

LEMMA SwitchLedger ==
  ASSUME CoreInv, LedgerInv, NEW t \in Threads, SwitchTo(t), loop \in {"reading", "resolving"},
         UNCHANGED turnVars
  PROVE  LedgerInv' /\ LeftClosed
<1>1. CASE ~session.touched /\ Activate(t, session, Hydrate(t)) /\ UNCHANGED ledger
  BY <1>1, MoveKeeps
<1>2. CASE session.touched /\ ~session.dead /\ RecordClosed(session) /\ loop' = "closing" /\ UNCHANGED sessions
  <2>1. /\ ledger \in Ledgers /\ session \in Session /\ session.thread \in Threads
        /\ ledger' = Recorded(session.thread, "closed", session.turns)
    BY <1>2 DEF CoreInv, CoreTypes, SessionTypes, Session, RecordClosed
  <2>2. /\ TurnsIn(ledger'[session.thread]) = TurnsIn(ledger[session.thread])
        /\ EndsClosed(ledger'[session.thread])
    BY <2>1, ClosedEffect
  <2> QED
    BY <1>2, <2>2 DEF sessions, LedgerInv, LeftClosed, Counted
<1>3. CASE Refuse /\ UNCHANGED <<sessions, ledger, approvals, adapter>>
  BY <1>3, SameLedgerKeeps DEF Refuse, sessions, turnVars, InTurn
<1> QED
  BY <1>1, <1>2, <1>3 DEF SwitchTo

(* One record in the session's own rollout, in the course of its turn.     *)
LEMMA TurnLedger ==
  ASSUME CoreInv, LedgerInv, Live, ~session.dead \/ InTurn, session' \in Session, session'.thread = session.thread,
         session'.touched, NEW kind \in {"items", "turn"},
         ledger' = Recorded(session.thread, kind, 0), loop' = loop,
         session'.turns = session.turns + (IF kind = "turn" THEN 1 ELSE 0)
  PROVE  LedgerInv' /\ LeftClosed
<1>1. ledger \in Ledgers /\ session.thread \in Threads /\ loop # "closing"
  BY DEF CoreInv, CoreTypes, SessionTypes, Session, Moves
<1>2. TurnsIn(ledger'[session.thread])
        = TurnsIn(ledger[session.thread]) + (IF kind = "turn" THEN 1 ELSE 0)
  BY <1>1, RecordedEffect
<1> QED
  BY <1>1, <1>2 DEF LedgerInv, LeftClosed, Counted

LEMMA LedgerInit == Init => LedgerInv
<1> SUFFICES ASSUME Init PROVE LedgerInv
  OBVIOUS
<1>1. ledger \in Ledgers /\ 1 \in Threads /\ session = Restored(1) /\ loop = "reading"
  BY BridgeAssumption DEF Init, Ledgers, Threads
<1>2. /\ session.thread = 1 /\ session.turns = TurnsIn(ledger[1])
      /\ session.base = Len(ledger[1])
  BY <1>1, RestoredEffect
<1> QED
  BY <1>1, <1>2 DEF LedgerInv, Counted

LEMMA LedgerStep == CoreInv /\ LedgerInv /\ [Next]_vars => LedgerInv' /\ LeftClosed
<1> SUFFICES ASSUME CoreInv, LedgerInv, [Next]_vars PROVE LedgerInv' /\ LeftClosed
  OBVIOUS
<1>s. session \in Session /\ ledger \in Ledgers
  BY DEF CoreInv, CoreTypes, SessionTypes
<1>1. ASSUME NEW t \in Threads, LaunchTui(t) \/ LaunchOneShot(t) PROVE LedgerInv' /\ LeftClosed
  <2>1. session' = Restored(t) /\ ledger' = ledger /\ loop' \in {"reading", "oneshot"} /\ ~Up
    BY <1>1 DEF LaunchTui, LaunchOneShot, Begin
  <2> QED
    BY <2>1, RestoredKeeps DEF LeftClosed
<1>2. CASE RecorderFails
  <2>1. /\ session'.thread = session.thread /\ session'.turns = session.turns
        /\ session'.touched = session.touched /\ session'.base = session.base /\ session'.dead
    BY <1>s, <1>2 DEF RecorderFails, Session
  <2> QED
    BY <1>2, <2>1, SameLedgerKeeps DEF RecorderFails, turnVars, InTurn
<1>3. CASE StartTurn
  <2>0. /\ session' \in Session /\ session'.thread = session.thread /\ session'.touched
        /\ session'.turns = session.turns
    BY <1>s, <1>3 DEF StartTurn, Session
  <2>1. /\ session' \in Session /\ session'.thread = session.thread /\ session'.touched
        /\ session'.turns = session.turns + 0
    <3>1. session.turns \in Nat
      BY <1>s DEF Session
    <3> QED
      BY <2>0, <3>1
  <2>2. Live /\ ~session.dead /\ ledger' = Recorded(session.thread, "items", 0) /\ loop' = loop
    BY <1>3 DEF StartTurn, Step, Live, TurnOnly
  <2> QED
    BY <2>1, <2>2, TurnLedger
<1>4. ASSUME EndTurn, InTurn, loop' = loop PROVE LedgerInv' /\ LeftClosed
  <2>1. /\ session' \in Session /\ session'.thread = session.thread /\ session'.touched
        /\ session'.turns = session.turns + 1
    BY <1>s, <1>4 DEF EndTurn, Session, CoreInv, TurnNumbered
  <2>2. Live /\ ledger' = Recorded(session.thread, "turn", 0)
    BY <1>4 DEF EndTurn, InTurn, Live
  <2> QED
    BY <1>4, <2>1, <2>2, TurnLedger
<1>5. CASE Answered
  <2>1. InTurn /\ loop' = loop
    BY <1>5 DEF Answered, Step, InTurn, TurnOnly
  <2>2. CASE EndTurn
    BY <1>4, <2>1, <2>2
  <2>3. CASE UNCHANGED <<session, ledger>>
    BY <2>1, <2>3, SameLedgerKeeps DEF InTurn
  <2> QED
    BY <1>5, <2>2, <2>3 DEF Answered
<1>6. CASE Finish
  <2>1. InTurn /\ loop' = loop /\ EndTurn
    BY <1>6 DEF Finish, Step, InTurn, TurnOnly
  <2> QED
    BY <1>4, <2>1
<1>7. CASE SlashNew
  <2>1. loop = "reading"
    BY <1>7 DEF SlashNew, Reading
  <2>2. CASE UNCHANGED <<loop, goal, sessions, ledger, approvals, adapter>>
    BY <1>7, <2>2, SameLedgerKeeps DEF SlashNew, sessions, turnVars, InTurn
  <2>3. CASE CreateNew
    <3>1. made + 1 \in Threads /\ SwitchTo(made + 1)
      BY <2>3, BridgeAssumption DEF CreateNew, Threads, CoreInv, CoreTypes, LoopTypes
    <3> QED
      BY <1>7, <2>1, <3>1, SwitchLedger DEF SlashNew
  <2> QED
    BY <1>7, <2>2, <2>3 DEF SlashNew
<1>8. CASE New
  <2>1. loop = "reading"
    BY <1>8 DEF New, Reading
  <2>2. CASE Refuse /\ UNCHANGED <<sessions, ledger, approvals, adapter>>
    BY <1>8, <2>1, <2>2, SameLedgerKeeps DEF New, Refuse, sessions, turnVars, InTurn
  <2>3. CASE CreateNew
    <3>1. made + 1 \in Threads /\ SwitchTo(made + 1)
      BY <2>3, BridgeAssumption DEF CreateNew, Threads, CoreInv, CoreTypes, LoopTypes
    <3> QED
      BY <1>8, <2>1, <3>1, SwitchLedger DEF New
  <2> QED
    BY <1>8, <2>2, <2>3 DEF New
<1>9. CASE Resolved
  <2>1. loop = "resolving" /\ goal \in Threads
    BY <1>9 DEF Resolved, CoreInv, Moves
  <2>2. CASE Refuse /\ UNCHANGED <<sessions, ledger, approvals, adapter>>
    BY <1>9, <2>1, <2>2, SameLedgerKeeps DEF Resolved, Refuse, sessions, turnVars, InTurn
  <2>3. CASE SwitchTo(goal)
    BY <1>9, <2>1, <2>3, SwitchLedger DEF Resolved
  <2> QED
    BY <1>9, <2>2, <2>3 DEF Resolved
<1>10. CASE Closed
  <2>1. loop = "closing" /\ goal \in Threads
    BY <1>10 DEF Closed, CoreInv, Moves
  <2> QED
    BY <1>10, <2>1, MoveKeeps DEF Closed
<1>11. CASE CloseFails
  <2>1. /\ session'.thread = session.thread /\ session'.turns = session.turns
        /\ session'.touched = session.touched /\ session'.base = session.base /\ session'.dead
    BY <1>s, <1>11 DEF CloseFails, Session
  <2> QED
    BY <1>11, <2>1, SameLedgerKeeps DEF CloseFails, Refuse, turnVars, InTurn
<1>12. CASE Leave
  <2>1. UNCHANGED session /\ loop' \in {"exited", "down", "exiting"} /\ Own \in Session
    BY <1>12 DEF Leave, sessions, Own, CoreInv, CoreTypes, SessionTypes
  <2>2. session.thread \in Threads
    BY <1>s DEF Session
  <2>3. TurnsIn(ledger'[session.thread]) = TurnsIn(ledger[session.thread])
    <3>1. CASE UNCHANGED ledger
      BY <3>1
    <3>2. CASE RecordClosed(Own)
      <4>1. ledger' = Recorded(Own.thread, "closed", Own.turns)
        BY <3>2 DEF RecordClosed
      <4> HIDE DEF Own
      <4> QED
        BY <1>s, <2>1, <2>2, <4>1, ClosedEffect
    <3> QED
      BY <1>12, <3>1, <3>2 DEF Leave
  <2> QED
    BY <1>12, <2>1, <2>3 DEF Leave, LedgerInv, LeftClosed, Counted, turnVars, InTurn
<1>16. CASE TurnFails
  <2>1. /\ session'.thread = session.thread /\ session'.touched = session.touched
        /\ session'.base = session.base /\ (session.dead => session'.dead)
    BY <1>s, <1>16 DEF TurnFails, Session
  <2>2. ledger' = ledger /\ loop' = loop /\ ~InTurn'
    BY <1>16 DEF TurnFails, TurnOnly, Idle, InTurn
  <2>3. CASE session' = session
    BY <2>1, <2>2, <2>3, SameLedgerKeeps
  <2>4. CASE Step("running") /\ session.dead /\ session' = [session EXCEPT !.turns = @ + 1]
    <3>1. session.turns = TurnsIn(ledger[session.thread])
      BY <2>4 DEF LedgerInv, Counted, Step, InTurn
    <3>2. session'.turns = session.turns + 1 /\ session'.dead
      BY <1>s, <2>4 DEF Session
    <3>3. TurnsIn(ledger'[session'.thread]) = TurnsIn(ledger[session.thread])
      BY <2>1, <2>2
    <3>4. Counted'
      BY <2>2, <3>1, <3>2, <3>3 DEF Counted
    <3>5. /\ loop' = loop /\ session'.base = session.base
          /\ ledger'[session'.thread] = ledger[session.thread]
      BY <2>1, <2>2
    <3>6. LeftClosed
      BY <2>1 DEF LeftClosed
    <3>7. loop' = "closing" => EndsClosed(ledger'[session'.thread])
      BY <3>5 DEF LedgerInv
    <3>8. loop' \notin {"exiting", "exited", "down"} /\ ~session'.touched =>
            Len(ledger'[session'.thread]) = session'.base
      BY <2>1, <3>5 DEF LedgerInv
    <3> QED
      BY <3>4, <3>6, <3>7, <3>8 DEF LedgerInv
  <2> QED
    BY <1>16, <2>3, <2>4 DEF TurnFails
<1>13. CASE \/ Crash \/ Complete \/ Interrupted \/ NeverStarts \/ Ask
            \/ UserInput \/ Slash \/ Interrupt \/ EndOfInput \/ Exit
            \/ UNCHANGED vars
  <2>1. UNCHANGED <<session, ledger>>
    BY <1>13 DEF Crash, Complete, Interrupted, NeverStarts, Ask, UserInput, Slash,
                 Interrupt, EndOfInput, Exit, QuietCommand, vars, sessions
  <2>2. /\ loop' = "closing" => loop = "closing"
        /\ loop \in {"exiting", "exited", "down"} => loop' \in {"exiting", "exited", "down"}
    BY <1>13 DEF Crash, Complete, Interrupted, NeverStarts, Ask, UserInput, Slash,
                 Interrupt, EndOfInput, Exit, TurnOnly, Reading, vars
  <2>3. InTurn' => InTurn
    BY <1>13 DEF Crash, Complete, Interrupted, NeverStarts, Ask, UserInput, Slash,
                 Interrupt, EndOfInput, Exit, QuietCommand, Idle, Step, vars, turnVars, InTurn
  <2> QED
    BY <2>1, <2>2, <2>3, SameLedgerKeeps
<1>14. ASSUME NEW r \in 1..MaxRequests, NEW d \in Decisions, Respond(r, d)
       PROVE  LedgerInv' /\ LeftClosed
  BY <1>14, SameLedgerKeeps DEF Respond, sessions, turnVars, InTurn
<1>15. ASSUME NEW t \in Threads, Resume(t) PROVE LedgerInv' /\ LeftClosed
  BY <1>15, SameLedgerKeeps DEF Resume, sessions, Refuse, Reading, turnVars, InTurn
<1> QED
  BY <1>1, <1>2, <1>3, <1>5, <1>6, <1>7, <1>8, <1>9, <1>10, <1>11, <1>12, <1>13, <1>14, <1>15,
     <1>16
     DEF Next, Turn, Command

-------------------------------------------------------------------------------
(* Theorems.                                                               *)

BridgeInv == CoreInv /\ ViewInv /\ LedgerInv

(* In every reachable state the task, the turn's numbers, what the client  *)
(* has been told and the rollouts fit together.                            *)
THEOREM BridgeHolds == Spec => []BridgeInv
<1>1. Init => BridgeInv
  BY CoreInit, ViewInit, LedgerInit DEF BridgeInv
<1>2. BridgeInv /\ [Next]_vars => BridgeInv'
  BY CoreStep, ViewStep, LedgerStep DEF BridgeInv
<1> QED
  BY <1>1, <1>2, PTL DEF Spec

(* Every variable keeps its type; events carry threads and turns there     *)
(* are.                                                                    *)
THEOREM TypeCorrect == Spec => []TypeOK
<1>1. BridgeInv => TypeOK
  BY DEF BridgeInv, CoreInv, CoreTypes, LoopTypes, SessionTypes, TaskTypes, FlagTypes,
         NumberTypes, Ledgers, ViewInv, Follows, View, AllFit, Fits, TypeOK
<1> QED
  BY <1>1, BridgeHolds, PTL

(* A waiting turn has its request pending, events name the thread and the  *)
(* turn the client was told of, and an open turn is one that runs.         *)
THEOREM ClientToldTrue == Spec => []ViewTrue
<1>1. BridgeInv => ViewTrue
  BY DEF BridgeInv, CoreInv, TurnNumbered, InTurn, ViewInv, Follows, AllFit, Fits, ViewTrue,
         Attributed, OpenMeansRunning
<1> QED
  BY <1>1, BridgeHolds, PTL

(* A prompt whose task has ended was reported as completed or failed,      *)
(* unless its task was cancelled before it first ran.                      *)
THEOREM PromptsAnswered == Spec => []OutcomeReported
<1>1. BridgeInv => OutcomeReported
  BY DEF BridgeInv, ViewInv
<1> QED
  BY <1>1, BridgeHolds, PTL

(* The turns a session counts are those of its rollout, but for the one    *)
(* that ended after the recorder had failed.                               *)
THEOREM TurnsCounted == Spec => []CountsAgree
<1>1. BridgeInv => CountsAgree
  BY DEF BridgeInv, LedgerInv, Counted, CountsAgree
<1> QED
  BY <1>1, BridgeHolds, PTL

(* A session that was used is left only with session.closed at the end of  *)
(* its rollout.                                                            *)
THEOREM LeftSessionsClosed == Spec => SwitchCloses
<1>1. BridgeInv /\ [Next]_vars => [LeftClosed]_vars
  BY LedgerStep DEF BridgeInv
<1> QED
  BY <1>1, BridgeHolds, PTL DEF Spec, SwitchCloses, LeftClosed

(* The events the bridge sends are a run of TurnProtocol.                  *)
THEOREM ImplementsProtocol == Spec => ProtocolKept
<1>1. Init => Protocol!Init
  BY ViewInit
<1>2. BridgeInv /\ [Next]_vars => [Protocol!Next]_(Protocol!vars)
  BY ViewStep DEF BridgeInv, ProtocolStep
<1> QED
  BY <1>1, <1>2, BridgeHolds, PTL DEF Spec, ProtocolKept, Protocol!Spec
===============================================================================
