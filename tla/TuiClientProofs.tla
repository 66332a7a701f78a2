---------------------------- MODULE TuiClientProofs ----------------------------
(***************************************************************************)
(* Proofs about TuiClient, for any number of threads, prompts, requests,   *)
(* lines and deltas: the client and the bridge with the pipes between them *)
(* are a run of TuiBridge's specification, and what the client shows, asks *)
(* and sends agrees with the bridge.                                       *)
(*                                                                         *)
(* The argument: behind the events that the client has yet to process lies *)
(* a trail of sights, from what it shows now to what the bridge does now;  *)
(* each event is one that its sight allows and leads to the next.          *)
(***************************************************************************)
EXTENDS TuiClient, TuiBridgeProofs

-------------------------------------------------------------------------------
(* Pipes.                                                                  *)

IsSeq(s) == \E S : s \in Seq(S)

LEMMA SeqShape ==
  ASSUME NEW s, IsSeq(s)
  PROVE  Len(s) \in Nat /\ DOMAIN s = 1..Len(s) /\ (s = <<>> <=> Len(s) = 0)
<1>1. PICK S : s \in Seq(S)
  BY DEF IsSeq
<1> QED
  BY <1>1, EmptySeq, LenProperties

LEMMA Pushed ==
  ASSUME NEW s, IsSeq(s), NEW x
  PROVE  /\ IsSeq(Append(s, x)) /\ Len(Append(s, x)) = Len(s) + 1
         /\ Append(s, x)[Len(s) + 1] = x
         /\ \A i \in 1..Len(s) : Append(s, x)[i] = s[i]
<1>1. PICK S : s \in Seq(S)
  BY DEF IsSeq
<1>2. s \in Seq(S \union {x})
  BY <1>1, SeqMonotonic
<1>3. Append(s, x) \in Seq(S \union {x})
  BY <1>2
<1> QED
  BY <1>2, <1>3 DEF IsSeq

LEMMA Taken ==
  ASSUME NEW s, IsSeq(s), s # <<>>
  PROVE  /\ IsSeq(Tail(s)) /\ Len(Tail(s)) = Len(s) - 1 /\ Head(s) = s[1]
         /\ Len(s) \in Nat \ {0}
         /\ \A i \in 1..(Len(s) - 1) : Tail(s)[i] = s[i + 1]
<1>1. PICK S : s \in Seq(S)
  BY DEF IsSeq
<1>2. /\ Tail(s) \in Seq(S)
      /\ Len(Tail(s)) = Len(s)-1
      /\ \A i \in 1 .. Len(Tail(s)) : Tail(s)[i] = s[i+1]
  BY <1>1, HeadTailProperties
<1> QED
  BY <1>1, <1>2, SeqShape DEF IsSeq

(* What a step appends: nothing, one line or two.                          *)
LEMMA Piped ==
  ASSUME NEW s, IsSeq(s), NEW x, NEW y
  PROVE  /\ s \o <<>> = s
         /\ s \o <<x>> = Append(s, x)
         /\ s \o <<x, y>> = Append(Append(s, x), y)
<1>1. PICK S : s \in Seq(S)
  BY DEF IsSeq
<1>2. s \in Seq(S \union {x, y})
  BY <1>1, SeqMonotonic
<1> DEFINE T == S \union {x, y}
<1>3. s \o <<>> = s
  BY <1>1, ConcatEmptySeq
<1>4. s \o <<x>> = Append(s, x)
  <2>1. <<x>> \in Seq(T) /\ Append(s, x) \in Seq(T) /\ s \o <<x>> \in Seq(T)
    BY <1>2
  <2>2. Len(s \o <<x>>) = Len(Append(s, x))
    BY <1>2
  <2>3. \A i \in 1..Len(s \o <<x>>) : (s \o <<x>>)[i] = Append(s, x)[i]
    BY <1>2
  <2> QED
    BY <2>1, <2>2, <2>3, SeqEqual
<1>5. s \o <<x, y>> = Append(Append(s, x), y)
  <2>1. /\ <<x, y>> \in Seq(T) /\ Append(Append(s, x), y) \in Seq(T)
        /\ s \o <<x, y>> \in Seq(T)
    BY <1>2
  <2>2. Len(s \o <<x, y>>) = Len(Append(Append(s, x), y))
    BY <1>2
  <2>3. \A i \in 1..Len(s \o <<x, y>>) : (s \o <<x, y>>)[i] = Append(Append(s, x), y)[i]
    BY <1>2
  <2> QED
    BY <2>1, <2>2, <2>3, SeqEqual
<1> QED
  BY <1>3, <1>4, <1>5

LEMMA Joined ==
  ASSUME NEW x, NEW y, NEW z
  PROVE  <<x>> \o <<y>> = <<x, y>> /\ <<x, y>> \o <<z>> = <<x, y, z>>
<1>0. <<x>> \o <<y>> = <<x, y>>
  <2>1. IsSeq(<<x>>)
    <3>1. <<x>> \in Seq({x})
      OBVIOUS
    <3> QED
      BY <3>1 DEF IsSeq
  <2>2. <<x>> \o <<y>> = Append(<<x>>, y)
    BY <2>1, Piped
  <2>3. Append(<<x>>, y) = <<x, y>>
    <3> DEFINE T == {x, y}
    <3>1. x \in T /\ y \in T
      OBVIOUS
    <3> HIDE DEF T
    <3>2. Append(<<x>>, y) \in Seq(T) /\ <<x, y>> \in Seq(T)
      BY <3>1
    <3>3. Len(Append(<<x>>, y)) = 2 /\ Len(<<x, y>>) = 2
      BY <3>1
    <3>4. \A i \in 1..2 : Append(<<x>>, y)[i] = <<x, y>>[i]
      BY <3>1
    <3> QED
      BY <3>2, <3>3, <3>4, SeqEqual
  <2> QED
    BY <2>2, <2>3, Zenon
<1> DEFINE s == <<x, y>>
<1> DEFINE T == {x, y, z}
<1>1. x \in T /\ y \in T /\ z \in T
  OBVIOUS
<1> HIDE DEF T
<1>2. s \in Seq(T)
  BY <1>1
<1>4. Append(s, z) = <<x, y, z>>
  <2>1. Append(s, z) \in Seq(T) /\ <<x, y, z>> \in Seq(T)
    BY <1>1, <1>2
  <2>2. Len(s) = 2 /\ s[1] = x /\ s[2] = y
    OBVIOUS
  <2>3. Len(<<x, y, z>>) = 3 /\ <<x, y, z>>[1] = x /\ <<x, y, z>>[2] = y /\ <<x, y, z>>[3] = z
    OBVIOUS
  <2>4. Len(Append(s, z)) = 3
    BY <1>1, <1>2, <2>2
  <2>5. \A i \in 1..3 : Append(s, z)[i] = <<x, y, z>>[i]
    BY <1>1, <1>2, <2>2, <2>3
  <2> QED
    BY <2>1, <2>3, <2>4, <2>5, SeqEqual
<1>5. IsSeq(s)
  BY <1>2 DEF IsSeq
<1> HIDE DEF s
<1>3. s \o <<z>> = Append(s, z)
  BY <1>5, Piped
<1> QED
  BY <1>0, <1>3, <1>4 DEF s

-------------------------------------------------------------------------------
(* Sights: what a client that has read so far can tell of the bridge.      *)

(* Thread, open and last turn, whether that one failed, whether the thread *)
(* has shown no turn yet, the request the turn waits for, the last request *)
(* made, and the number of deltas.                                         *)
Sight ==
  {v \in [thread : Threads \union {0}, open : 0..MaxInputs, last : 0..MaxInputs,
          failed : BOOLEAN, fresh : BOOLEAN, ask : 0..MaxRequests, asked : 0..MaxRequests,
          seen : 0..MaxDeltas] :
     /\ v.open \in {0, v.last}
     /\ v.failed => v.open = 0
     /\ v.fresh => v.last = 0
     /\ v.thread = 0 => v.fresh
     /\ v.ask <= v.asked
     /\ v.ask # 0 => v.open # 0}

Types == {"thread.started", "session.hydrated", "session.listed", "turn.started", "item.updated",
          "approval.requested", "turn.completed", "turn.failed"}

(* The events the bridge may send next.                                    *)
Legal(v, e) ==
  /\ e.type \in Types
  /\ IF e.type = "thread.started" THEN e.thread \in Threads \ {v.thread} /\ v.open = 0
     ELSE e.thread = v.thread /\ v.thread # 0
  /\ e.type = "session.hydrated" => v.fresh /\ e.turn \in 0..MaxInputs
  /\ e.type = "session.listed" => {s.thread : s \in e.sessions} \subseteq Threads
  /\ e.type = "turn.started" =>
       /\ v.open = 0
       /\ e.turn = v.last + 1
       /\ e.turn <= MaxInputs
       /\ e.prompt \in Prompts
  /\ e.type = "item.updated" => e.turn = v.open /\ v.open # 0 /\ v.seen < MaxDeltas
  /\ e.type = "approval.requested" =>
       e.turn = v.open /\ v.open # 0 /\ e.request = v.asked + 1 /\ e.request <= MaxRequests
  /\ Terminal(e) =>
       /\ e.turn \in Prompts
       /\ \/ e.turn = v.open
          \/ /\ e.type = "turn.failed"
             /\ v.open = 0
             /\ e.turn = v.last + 1 \/ (e.turn = v.last /\ v.failed)
  /\ e.type = "turn.failed" => e.prompt \in Prompts \union {0}

Closes(v, e) == Terminal(e) /\ e.turn = v.open

Move(v, e) ==
  [thread |-> IF e.type = "thread.started" THEN e.thread ELSE v.thread,
   open |-> IF e.type = "turn.started" THEN e.turn ELSE IF Closes(v, e) THEN 0 ELSE v.open,
   last |-> IF e.type = "thread.started" THEN 0
            ELSE IF e.type = "turn.started" THEN e.turn ELSE v.last,
   failed |-> IF e.type \in {"thread.started", "turn.started"} THEN FALSE
              ELSE IF Closes(v, e) THEN e.type = "turn.failed" ELSE v.failed,
   fresh |-> IF e.type = "thread.started" THEN TRUE
             ELSE v.fresh /\ e.type \notin {"session.hydrated", "turn.started"},
   ask |-> IF e.type = "approval.requested" THEN e.request
           ELSE IF Closes(v, e) THEN 0 ELSE v.ask,
   asked |-> IF e.type = "approval.requested" THEN e.request ELSE v.asked,
   seen |-> IF e.type = "item.updated" THEN v.seen + 1 ELSE v.seen]

Fields(v) ==
  /\ v.thread \in Threads \union {0} /\ v.open \in 0..MaxInputs /\ v.last \in 0..MaxInputs
  /\ v.failed \in BOOLEAN /\ v.fresh \in BOOLEAN
  /\ v.ask \in 0..MaxRequests /\ v.asked \in 0..MaxRequests /\ v.seen \in 0..MaxDeltas
  /\ v.open \in {0, v.last} /\ (v.failed => v.open = 0) /\ (v.fresh => v.last = 0)
  /\ (v.thread = 0 => v.fresh) /\ v.ask <= v.asked /\ (v.ask # 0 => v.open # 0)

LEMMA SightFields ==
  ASSUME NEW v \in Sight
  PROVE  Fields(v)
  BY DEF Sight, Fields

(* What an event makes of a sight, by its kind.                            *)
Moved(v, e, w) ==
  /\ e.type = "thread.started" =>
       /\ w.thread = e.thread /\ w.open = v.open /\ w.last = 0 /\ w.failed = FALSE
       /\ w.fresh = TRUE /\ w.ask = v.ask /\ w.asked = v.asked /\ w.seen = v.seen
  /\ e.type = "session.hydrated" =>
       /\ w.thread = v.thread /\ w.open = v.open /\ w.last = v.last /\ w.failed = v.failed
       /\ w.fresh = FALSE /\ w.ask = v.ask /\ w.asked = v.asked /\ w.seen = v.seen
  /\ e.type = "session.listed" =>
       /\ w.thread = v.thread /\ w.open = v.open /\ w.last = v.last /\ w.failed = v.failed
       /\ (w.fresh <=> v.fresh) /\ w.ask = v.ask /\ w.asked = v.asked /\ w.seen = v.seen
  /\ e.type = "turn.started" =>
       /\ w.thread = v.thread /\ w.open = e.turn /\ w.last = e.turn /\ w.failed = FALSE
       /\ w.fresh = FALSE /\ w.ask = v.ask /\ w.asked = v.asked /\ w.seen = v.seen
  /\ e.type = "item.updated" =>
       /\ w.thread = v.thread /\ w.open = v.open /\ w.last = v.last /\ w.failed = v.failed
       /\ (w.fresh <=> v.fresh) /\ w.ask = v.ask /\ w.asked = v.asked /\ w.seen = v.seen + 1
  /\ e.type = "approval.requested" =>
       /\ w.thread = v.thread /\ w.open = v.open /\ w.last = v.last /\ w.failed = v.failed
       /\ (w.fresh <=> v.fresh) /\ w.ask = e.request /\ w.asked = e.request
       /\ w.seen = v.seen
  /\ Terminal(e) =>
       /\ w.thread = v.thread /\ w.last = v.last /\ (w.fresh <=> v.fresh)
       /\ w.asked = v.asked /\ w.seen = v.seen
       /\ IF e.turn = v.open
          THEN w.open = 0 /\ (w.failed <=> e.type = "turn.failed") /\ w.ask = 0
          ELSE w.open = v.open /\ w.failed = v.failed /\ w.ask = v.ask

LEMMA MoveFields ==
  ASSUME NEW v, NEW e
  PROVE  Moved(v, e, Move(v, e))
<1> USE DEF Moved
<1>1. CASE Terminal(e)
  <2>1. e.type \in {"turn.completed", "turn.failed"}
    BY <1>1 DEF Terminal
  <2> QED
    BY <1>1, <2>1 DEF Move, Closes
<1>2. CASE ~Terminal(e)
  BY <1>2 DEF Move, Closes
<1> QED
  BY <1>1, <1>2

(* An allowed event leads to a sight.                                      *)
LEMMA MoveSound ==
  ASSUME NEW v \in Sight, NEW e, Legal(v, e)
  PROVE  Move(v, e) \in Sight
<1> DEFINE w == Move(v, e)
<1>b. Fields(v)
  BY SightFields
<1>0. /\ w.fresh \in BOOLEAN /\ w.failed \in BOOLEAN
      /\ w = [thread |-> w.thread, open |-> w.open, last |-> w.last, failed |-> w.failed,
              fresh |-> w.fresh, ask |-> w.ask, asked |-> w.asked, seen |-> w.seen]
  BY <1>b DEF Fields, Move
<1>a. Moved(v, e, w)
  BY MoveFields
<1> HIDE DEF w
<1>1. SUFFICES
        /\ w.thread \in Threads \union {0} /\ w.open \in 0..MaxInputs /\ w.last \in 0..MaxInputs
        /\ w.ask \in 0..MaxRequests /\ w.asked \in 0..MaxRequests /\ w.seen \in 0..MaxDeltas
        /\ w.open \in {0, w.last} /\ (w.failed => w.open = 0) /\ (w.fresh => w.last = 0)
        /\ (w.thread = 0 => w.fresh) /\ w.ask <= w.asked /\ (w.ask # 0 => w.open # 0)
  BY <1>0 DEF Sight, w
<1> USE BridgeAssumption, ClientAssumption, <1>a, <1>b DEF Threads, Prompts, Moved, Fields, Legal
<1>2. CASE e.type = "thread.started"
  BY <1>2
<1>3. CASE e.type = "session.hydrated"
  BY <1>3
<1>4. CASE e.type = "session.listed"
  BY <1>4
<1>5. CASE e.type = "turn.started"
  BY <1>5
<1>6. CASE e.type = "item.updated"
  BY <1>6
<1>7. CASE e.type = "approval.requested"
  BY <1>7
<1>8. CASE Terminal(e)
  BY <1>8
<1> QED
  BY <1>2, <1>3, <1>4, <1>5, <1>6, <1>7, <1>8 DEF Legal, Types, Terminal

(* The sights before, between and after events.                            *)
Trail(vs, es) ==
  /\ \A i \in 0..Len(es) : vs[i] \in Sight
  /\ \A i \in 1..Len(es) : Legal(vs[i - 1], es[i]) /\ vs[i] = Move(vs[i - 1], es[i])

(* One more event.                                                         *)
LEMMA TrailGrows ==
  ASSUME NEW es, IsSeq(es), NEW vs, Trail(vs, es), NEW e, Legal(vs[Len(es)], e)
  PROVE  \E ws : /\ Trail(ws, Append(es, e))
                 /\ \A i \in 0..Len(es) : ws[i] = vs[i]
                 /\ ws[Len(es) + 1] = Move(vs[Len(es)], e)
<1> DEFINE n == Len(es)
           m == Move(vs[n], e)
           fs == Append(es, e)
           ws == [i \in 0..(n + 1) |-> IF i <= n THEN vs[i] ELSE m]
<1>1. n \in Nat /\ IsSeq(fs) /\ Len(fs) = n + 1 /\ fs[n + 1] = e
      /\ \A i \in 1..n : fs[i] = es[i]
  BY SeqShape, Pushed
<1>2. vs[n] \in Sight
  BY <1>1 DEF Trail
<1>3. m \in Sight
  BY <1>2, MoveSound
<1> HIDE DEF m, fs
<1>4. (\A i \in 0..n : ws[i] = vs[i]) /\ ws[n + 1] = m
  BY <1>1
<1> HIDE DEF ws
<1>5. ASSUME NEW i \in 0..(n + 1) PROVE ws[i] \in Sight
  <2>1. i \in 0..n \/ i = n + 1
    BY <1>1
  <2> QED
    BY <1>1, <1>3, <1>4, <2>1 DEF Trail
<1>6. ASSUME NEW i \in 1..(n + 1)
      PROVE  Legal(ws[i - 1], fs[i]) /\ ws[i] = Move(ws[i - 1], fs[i])
  <2>1. CASE i \in 1..n
    <3>1. i - 1 \in 0..n /\ i \in 0..n
      BY <1>1, <2>1
    <3>2. Legal(vs[i - 1], es[i]) /\ vs[i] = Move(vs[i - 1], es[i])
      BY <2>1 DEF Trail
    <3> QED
      BY <1>1, <1>4, <2>1, <3>1, <3>2
  <2>2. CASE i = n + 1
    <3>1. i - 1 = n /\ n \in 0..n
      BY <1>1, <2>2
    <3>2. ws[i - 1] = vs[n] /\ fs[i] = e /\ ws[i] = m
      BY <1>1, <1>4, <2>2, <3>1
    <3> QED
      BY <3>2 DEF m
  <2> QED
    BY <1>1, <2>1, <2>2
<1> QED
  BY <1>1, <1>4, <1>5, <1>6 DEF Trail, m, fs

(* One event processed.                                                    *)
LEMMA TrailShrinks ==
  ASSUME NEW es, IsSeq(es), es # <<>>, NEW vs, Trail(vs, es)
  PROVE  \E ws : /\ Trail(ws, Tail(es))
                 /\ \A i \in 0..(Len(es) - 1) : ws[i] = vs[i + 1]
<1> DEFINE n == Len(es)
           ws == [i \in 0..(n - 1) |-> vs[i + 1]]
<1>1. n \in Nat \ {0} /\ Len(Tail(es)) = n - 1 /\ \A i \in 1..(n - 1) : Tail(es)[i] = es[i + 1]
  BY Taken
<1>2. \A i \in 0..(n - 1) : ws[i] = vs[i + 1]
  OBVIOUS
<1> HIDE DEF ws
<1>3. ASSUME NEW i \in 0..(n - 1) PROVE ws[i] \in Sight
  <2>1. i + 1 \in 0..n
    BY <1>1
  <2> QED
    BY <1>2, <2>1 DEF Trail
<1>4. ASSUME NEW i \in 1..(n - 1)
      PROVE  Legal(ws[i - 1], Tail(es)[i]) /\ ws[i] = Move(ws[i - 1], Tail(es)[i])
  <2>1. i + 1 \in 1..n /\ (i + 1) - 1 = i /\ i - 1 \in 0..(n - 1) /\ i \in 0..(n - 1)
        /\ (i - 1) + 1 = i
    BY <1>1
  <2>2. Legal(vs[i], es[i + 1]) /\ vs[i + 1] = Move(vs[i], es[i + 1])
    BY <2>1 DEF Trail
  <2>3. ws[i - 1] = vs[i] /\ ws[i] = vs[i + 1]
    BY <1>2, <2>1
  <2> QED
    BY <1>1, <2>2, <2>3
<1> QED
  BY <1>1, <1>2, <1>3, <1>4 DEF Trail

(* Requests along a trail: their numbers grow, and one that is asked later *)
(* is the same or a new one.                                               *)
LEMMA TrailAsks ==
  ASSUME NEW es, IsSeq(es), NEW vs, Trail(vs, es), NEW i \in 0..Len(es), NEW j \in 0..Len(es),
         i <= j
  PROVE  /\ vs[i].asked <= vs[j].asked
         /\ vs[j].ask = 0 \/ vs[j].ask = vs[i].ask \/ vs[j].ask > vs[i].asked
<1> DEFINE n == Len(es)
           Good(k) == /\ vs[i].asked <= vs[k].asked
                      /\ vs[k].ask = 0 \/ vs[k].ask = vs[i].ask \/ vs[k].ask > vs[i].asked
           S == {k \in 0..n : k >= i => Good(k)}
<1>1. n \in Nat
  BY SeqShape
<1>2. \A k \in 0..n : /\ vs[k].ask \in 0..MaxRequests /\ vs[k].asked \in 0..MaxRequests
  BY DEF Trail, Sight
<1>3. 0 \in S
  BY <1>1, <1>2
<1>4. ASSUME NEW k \in 1..n, k - 1 \in S PROVE k \in S
  <2> SUFFICES ASSUME k >= i PROVE Good(k)
    OBVIOUS
  <2>1. CASE k = i
    BY <1>2, <2>1
  <2>2. CASE k # i
    <3>1. k - 1 >= i /\ k - 1 \in 0..n /\ k \in 0..n
      BY <1>1, <2>2
    <3>2. Good(k - 1)
      BY <1>4, <3>1
    <3>3. Legal(vs[k - 1], es[k]) /\ vs[k] = Move(vs[k - 1], es[k])
      BY DEF Trail
    <3>4. CASE es[k].type = "approval.requested"
      <4>1. es[k].request = vs[k - 1].asked + 1
        BY <3>3, <3>4 DEF Legal
      <4>2. vs[k].ask = es[k].request /\ vs[k].asked = es[k].request
        BY <3>3, <3>4 DEF Move
      <4> QED
        BY <1>1, <1>2, <3>1, <3>2, <4>1, <4>2, BridgeAssumption
    <3>5. CASE es[k].type # "approval.requested"
      <4>1. vs[k].ask \in {0, vs[k - 1].ask} /\ vs[k].asked = vs[k - 1].asked
        BY <3>3, <3>5 DEF Move
      <4> QED
        BY <3>2, <4>1
    <3> QED
      BY <3>4, <3>5
  <2> QED
    BY <2>1, <2>2
<1>5. \A k \in 0..n : k \in S
  <2> HIDE DEF S
  <2> QED
    BY <1>1, <1>3, <1>4, EveryStep
<1> QED
  BY <1>5

(* A turn that is open at the end, and was not started on the way, was     *)
(* open at the start.                                                      *)
LEMMA TrailOpen ==
  ASSUME NEW es, IsSeq(es), NEW vs, Trail(vs, es), vs[Len(es)].open # 0,
         \A i \in 1..Len(es) : es[i].type # "turn.started"
  PROVE  vs[0].open = vs[Len(es)].open /\ vs[0].thread = vs[Len(es)].thread
<1> DEFINE n == Len(es)
           Good(k) == vs[k].open # 0 => vs[0].open = vs[k].open /\ vs[0].thread = vs[k].thread
           S == {k \in 0..n : Good(k)}
<1>1. n \in Nat
  BY SeqShape
<1>2. 0 \in S
  BY <1>1
<1>3. ASSUME NEW k \in 1..n, k - 1 \in S PROVE k \in S
  <2>1. Legal(vs[k - 1], es[k]) /\ vs[k] = Move(vs[k - 1], es[k]) /\ es[k].type # "turn.started"
    BY DEF Trail
  <2>2. Good(k - 1)
    BY <1>3
  <2>3. CASE es[k].type = "thread.started"
    <3>1. vs[k - 1].open = 0 /\ ~Closes(vs[k - 1], es[k])
      BY <2>1, <2>3 DEF Legal, Closes, Terminal
    <3>2. vs[k].open = 0
      BY <2>1, <2>3, <3>1 DEF Move
    <3> QED
      BY <3>2
  <2>4. CASE es[k].type # "thread.started"
    <3>1. vs[k].open \in {0, vs[k - 1].open} /\ vs[k].thread = vs[k - 1].thread
      BY <2>1, <2>4 DEF Move
    <3> QED
      BY <2>2, <3>1
  <2> QED
    BY <2>3, <2>4
<1>4. \A k \in 0..n : k \in S
  <2> HIDE DEF S
  <2> QED
    BY <1>1, <1>2, <1>3, EveryStep
<1> QED
  BY <1>1, <1>4

-------------------------------------------------------------------------------
(* What the hooks hold, against a sight.                                   *)

Asked == [request : 1..MaxRequests, turn : Prompts]

UiState == [thread : Threads \union {0}, turns : Seq(Entry), queue : Seq(Asked),
            slot : Prompts \union {0}, buffer : Seq(Prompts), picking : BOOLEAN,
            offers : SUBSET Threads]

(* A turn is shown open exactly if it is; the last one shows its failure;  *)
(* a thread that has shown no turn has no entries.                         *)
FitEntry(x, b, v) ==
  /\ x.id <= v.last /\ x.id # 0
  /\ x.state = "active" <=> x.id = v.open
  /\ v.failed /\ x.id = v.last => x.state = "failed"
  /\ x.deltas + Len(b) <= v.seen

Fit(u, v) ==
  /\ u.thread = v.thread
  /\ \A i \in DOMAIN u.turns : FitEntry(u.turns[i], u.buffer, v)
  /\ v.open # 0 => \E i \in DOMAIN u.turns : u.turns[i].id = v.open
  /\ v.fresh => u.turns = <<>>
  /\ \A j \in DOMAIN u.buffer : v.open # 0 /\ u.buffer[j] = v.open
  /\ Len(u.buffer) <= v.seen

(* Requests shown are the one that the open turn waits for.                *)
FitQueue(u, v) ==
  \/ u.queue = <<>>
  \/ v.ask # 0 /\ u.queue = <<[request |-> v.ask, turn |-> v.open]>>

(* Entries of turns that have ended stay, but for the errors shown ...     *)
Kept(t, s) ==
  \A i \in DOMAIN s : s[i].state # "active" => i \in DOMAIN t /\ Stays(s[i], t[i])

(* ... and texts are those of the prompts.                                 *)
Told(s) == \A i \in DOMAIN s : s[i].text # 0 => s[i].text = s[i].prompt

(* A sequence changed entry by entry.                                      *)
LEMMA Mapped ==
  ASSUME NEW S, NEW s \in Seq(S), NEW T, NEW t, t = [i \in DOMAIN s |-> t[i]],
         \A i \in DOMAIN s : t[i] \in T
  PROVE  t \in Seq(T) /\ DOMAIN t = DOMAIN s /\ Len(t) = Len(s)
<1>1. DOMAIN s = 1..Len(s) /\ Len(s) \in Nat
  BY LenProperties
<1>2. t \in [1..Len(s) -> T]
  BY <1>1
<1>3. t \in Seq(T)
  BY <1>1, <1>2, SeqDef
<1>4. DOMAIN t = 1..Len(t) /\ Len(t) \in Nat
  BY <1>3, LenProperties
<1> QED
  BY <1>1, <1>2, <1>3, <1>4

(* The deltas buffered for a turn.                                         *)
LEMMA Buffered ==
  ASSUME NEW b \in Seq(Prompts), NEW o, \A j \in DOMAIN b : b[j] = o, NEW k
  PROVE  Pieces(b, k) = IF k = o THEN Len(b) ELSE 0
<1> USE DEF Pieces
<1>1. Len(b) \in Nat /\ DOMAIN b = 1..Len(b)
  BY LenProperties
<1>2. CASE k = o
  <2>1. {j \in DOMAIN b : b[j] = k} = 1..Len(b)
    BY <1>1, <1>2
  <2>2. Cardinality(1..Len(b)) = Len(b)
    BY <1>1, FS_Interval
  <2> QED
    BY <1>2, <2>1, <2>2
<1>3. CASE k # o
  <2>1. {j \in DOMAIN b : b[j] = k} = {}
    BY <1>3
  <2> QED
    BY <1>3, <2>1, FS_EmptySet
<1> QED
  BY <1>2, <1>3

LEMMA EntryDeltas ==
  ASSUME NEW x \in Entry, NEW d \in 0..MaxDeltas, NEW y, y = [x EXCEPT !.deltas = d]
  PROVE  /\ y \in Entry /\ y.id = x.id /\ y.state = x.state /\ y.text = x.text
         /\ y.prompt = x.prompt /\ y.deltas = d
         /\ d = x.deltas => y = x
  BY DEF Entry

(* What a flush changes: deltas of the open turn.                          *)
LEMMA FlushFits ==
  ASSUME NEW u \in UiState, NEW v \in Sight, Fit(u, v), NEW f, f = Flushed(u)
  PROVE  /\ f \in UiState /\ Fit(f, v) /\ f.buffer = <<>>
         /\ f.thread = u.thread /\ f.queue = u.queue /\ f.slot = u.slot
         /\ f.picking = u.picking /\ f.offers = u.offers
         /\ Kept(f.turns, u.turns)
         /\ \A i \in DOMAIN u.turns : u.turns[i].state # "active" =>
              i \in DOMAIN f.turns /\ f.turns[i] = u.turns[i]
         /\ Told(u.turns) => Told(f.turns)
<1> DEFINE t == Extended(u.turns, u.buffer)
           c(i) == Pieces(u.buffer, u.turns[i].id)
<1>1. u.turns \in Seq(Entry) /\ u.buffer \in Seq(Prompts)
  BY DEF UiState
<1>2. Fields(v)
  BY SightFields
<1>3. t = [i \in DOMAIN u.turns |-> [u.turns[i] EXCEPT !.deltas = @ + c(i)]]
  BY DEF Extended
<1>4. Len(u.buffer) \in Nat /\ DOMAIN u.turns = 1..Len(u.turns)
  BY <1>1, LenProperties
<1>5. ASSUME NEW i \in DOMAIN u.turns
      PROVE  /\ t[i] \in Entry
             /\ t[i].id = u.turns[i].id /\ t[i].state = u.turns[i].state
             /\ t[i].text = u.turns[i].text /\ t[i].prompt = u.turns[i].prompt
             /\ t[i].deltas <= v.seen
             /\ u.turns[i].state # "active" => t[i] = u.turns[i]
  <2> DEFINE x == u.turns[i]
  <2>1. x \in Entry
    BY <1>1, <1>4, ElementOfSeq
  <2>2. FitEntry(x, u.buffer, v)
    BY DEF Fit
  <2>3. c(i) = IF x.id = v.open THEN Len(u.buffer) ELSE 0
    <3>1. \A j \in DOMAIN u.buffer : u.buffer[j] = v.open
      BY DEF Fit
    <3> QED
      BY <1>1, <3>1, Buffered
  <2>4. t[i] = [x EXCEPT !.deltas = x.deltas + c(i)]
    BY <1>3
  <2>5. x.deltas \in Nat /\ x.deltas + c(i) \in 0..MaxDeltas /\ x.deltas + c(i) <= v.seen
    BY <1>2, <1>4, <2>1, <2>2, <2>3, ClientAssumption DEF Entry, FitEntry, Fields
  <2>6. x.state # "active" => x.deltas + c(i) = x.deltas
    BY <2>2, <2>3, <2>5 DEF FitEntry
  <2> HIDE DEF x, c, t
  <2>7. /\ t[i] \in Entry /\ t[i].id = x.id /\ t[i].state = x.state /\ t[i].text = x.text
        /\ t[i].prompt = x.prompt /\ t[i].deltas = x.deltas + c(i)
        /\ x.deltas + c(i) = x.deltas => t[i] = x
    BY <2>1, <2>4, <2>5, EntryDeltas
  <2> QED
    BY <2>5, <2>6, <2>7 DEF x
<1>6. t \in Seq(Entry) /\ DOMAIN t = DOMAIN u.turns /\ Len(t) = Len(u.turns)
  <2>1. t = [i \in DOMAIN u.turns |-> t[i]]
    BY <1>3
  <2> HIDE DEF t
  <2>2. \A i \in DOMAIN u.turns : t[i] \in Entry
    BY <1>5
  <2> QED
    BY <1>1, <2>1, <2>2, Mapped
<1>7. f = [u EXCEPT !.turns = t, !.buffer = <<>>]
  BY DEF Flushed
<1> HIDE DEF t
<1>8. /\ f.turns = t /\ f.buffer = <<>>
      /\ f.thread = u.thread /\ f.queue = u.queue /\ f.slot = u.slot
      /\ f.picking = u.picking /\ f.offers = u.offers
      /\ f \in UiState
  <2>1. f.turns = t /\ f.buffer = <<>>
    BY <1>7 DEF UiState
  <2>2. /\ f.thread = u.thread /\ f.queue = u.queue /\ f.slot = u.slot
        /\ f.picking = u.picking /\ f.offers = u.offers
    BY <1>7 DEF UiState
  <2>3. f = [u EXCEPT !.turns = f.turns, !.buffer = f.buffer]
    BY <1>7, <2>1
  <2>4. f.turns \in Seq(Entry) /\ f.buffer \in Seq(Prompts)
    BY <1>6, <2>1
  <2>5. f \in UiState
    BY <2>3, <2>4 DEF UiState
  <2> QED
    BY <2>1, <2>2, <2>5
<1>9. Fit(f, v)
  <2>1. ASSUME NEW i \in DOMAIN t PROVE FitEntry(t[i], <<>>, v)
    <3>1. FitEntry(u.turns[i], u.buffer, v)
      BY <1>6 DEF Fit
    <3>2. t[i].deltas \in Nat /\ Len(<<>>) = 0
      BY <1>5, <1>6 DEF Entry
    <3> QED
      BY <1>2, <1>5, <1>6, <3>1, <3>2 DEF FitEntry, Fields
  <2>2. v.open # 0 => \E i \in DOMAIN t : t[i].id = v.open
    BY <1>5, <1>6 DEF Fit
  <2>3. v.fresh => t = <<>>
    BY <1>1, <1>6, EmptySeq DEF Fit
  <2>4. Len(<<>>) = 0 /\ DOMAIN <<>> = {} /\ v.seen \in Nat /\ u.thread = v.thread
    BY <1>2, ClientAssumption DEF Fields, Fit
  <2> QED
    BY <1>8, <2>1, <2>2, <2>3, <2>4 DEF Fit
<1>a. \A i \in DOMAIN u.turns : u.turns[i].state # "active" => i \in DOMAIN t /\ t[i] = u.turns[i]
  BY <1>5, <1>6
<1>10. Kept(t, u.turns) /\ (Told(u.turns) => Told(t))
  BY <1>5, <1>6 DEF Kept, Told, Stays
<1> QED
  BY <1>8, <1>9, <1>10, <1>a

-------------------------------------------------------------------------------
(* Flattening few blocks.                                                  *)

(* b is a function of the positions 1 to n.                                *)
Spans(b, n) == b = [i \in 1..n |-> b[i]]

LEMMA SpanSeq ==
  ASSUME NEW n \in Nat, NEW b, Spans(b, n)
  PROVE  IsSeq(b) /\ Len(b) = n
<1> DEFINE S == {b[i] : i \in 1..n}
<1>1. b \in [1..n -> S]
  BY DEF Spans
<1>2. b \in Seq(S)
  BY <1>1, SeqDef
<1>3. DOMAIN b = 1..Len(b) /\ Len(b) \in Nat
  BY <1>2, LenProperties
<1>4. 1..n = 1..Len(b)
  BY <1>1, <1>3
<1>5. Len(b) = n
  <2>1. \A m \in Nat : m # 0 => m \in 1..m
    OBVIOUS
  <2>2. n # 0 => n \in 1..Len(b)
    BY <1>4, <2>1
  <2>3. Len(b) # 0 => Len(b) \in 1..n
    BY <1>3, <1>4, <2>1
  <2>4. n # 0 => n <= Len(b)
    BY <2>2
  <2>5. Len(b) # 0 => Len(b) <= n
    BY <2>3
  <2>6. \A k, m \in Nat : (k # 0 => k <= m) /\ (m # 0 => m <= k) => m = k
    OBVIOUS
  <2> QED
    BY <1>3, <2>4, <2>5, <2>6
<1> QED
  BY <1>2, <1>5 DEF IsSeq

LEMMA FlatNone ==
  ASSUME NEW b, Spans(b, 0)
  PROVE  FlattenSeq(b) = <<>>
<1>1. b = <<>>
  BY SpanSeq, SeqShape
<1> QED
  BY <1>1 DEF FlattenSeq

LEMMA FlatSome ==
  ASSUME NEW n \in Nat, NEW b, Spans(b, n)
  PROVE  /\ n = 1 => FlattenSeq(b) = b[1]
         /\ n = 2 => FlattenSeq(b) = b[1] \o b[2]
         /\ n = 3 => FlattenSeq(b) = (b[1] \o b[2]) \o b[3]
<1>1. Len(b) = n
  BY SpanSeq
<1>2. CASE n \notin {1, 2, 3}
  BY <1>2
<1>3. CASE n \in {1, 2, 3}
  <2>1. PICK f : IsFlat(f, b, n) /\ FlattenSeq(b) = f[n]
    <3>1. n \in Nat \ {0}
      BY <1>3
    <3> QED
      BY <1>1, <3>1, FlattenIsFlat
  <2>2. f[1] = b[1]
    <3>1. 1 \in 1..n
      BY <1>3
    <3> QED
      BY <2>1, <3>1 DEF IsFlat
  <2>3. 2 <= n => f[2] = f[1] \o b[2]
    <3> HAVE 2 <= n
    <3>1. 2 \in 1..n /\ 2 # 1 /\ 2 - 1 = 1
      OBVIOUS
    <3> QED
      BY <2>1, <3>1 DEF IsFlat
  <2>4. n = 3 => f[3] = f[2] \o b[3]
    <3> HAVE n = 3
    <3>1. 3 \in 1..n /\ 3 # 1 /\ 3 - 1 = 2
      OBVIOUS
    <3> QED
      BY <2>1, <3>1 DEF IsFlat
  <2>5. CASE n = 1
    BY <2>1, <2>2, <2>5
  <2>6. CASE n = 2
    <3>1. FlattenSeq(b) = f[2] /\ 2 <= n /\ n # 1 /\ n # 3
      BY <2>1, <2>6
    <3> QED
      BY <2>2, <2>3, <3>1, Zenon
  <2>7. CASE n = 3
    <3>1. FlattenSeq(b) = f[3] /\ 2 <= n /\ n # 1 /\ n # 2
      BY <2>1, <2>7
    <3> QED
      BY <2>2, <2>3, <2>4, <2>7, <3>1, Zenon
  <2> QED
    BY <1>3, <2>5, <2>6, <2>7
<1> QED
  BY <1>2, <1>3

(* The end of a turn on a queue of at most one request.                    *)
LEMMA WithoutOne ==
  ASSUME NEW k
  PROVE  /\ Without(<<>>, k) = <<>>
         /\ \A q : Without(<<q>>, k) = IF q.turn = k THEN <<>> ELSE <<q>>
<1>1. Without(<<>>, k) = <<>>
  <2> DEFINE s == <<>>
             b == [i \in DOMAIN s |-> IF s[i].turn = k THEN <<>> ELSE <<s[i]>>]
  <2>1. DOMAIN s = 1..0
    OBVIOUS
  <2>2. Spans(b, 0)
    BY <2>1 DEF Spans
  <2>3. Without(s, k) = FlattenSeq(b)
    BY DEF Without
  <2> HIDE DEF b
  <2> QED
    BY <2>2, <2>3, FlatNone
<1>2. ASSUME NEW q PROVE Without(<<q>>, k) = IF q.turn = k THEN <<>> ELSE <<q>>
  <2> DEFINE s == <<q>>
             b == [i \in DOMAIN s |-> IF s[i].turn = k THEN <<>> ELSE <<s[i]>>]
  <2>1. DOMAIN s = 1..1 /\ s[1] = q
    OBVIOUS
  <2>2. Without(s, k) = FlattenSeq(b)
    BY DEF Without
  <2> HIDE DEF s
  <2>3. Spans(b, 1) /\ b[1] = IF q.turn = k THEN <<>> ELSE <<q>>
    BY <2>1 DEF Spans
  <2> HIDE DEF b
  <2>4. FlattenSeq(b) = b[1]
    BY <2>3, FlatSome
  <2> QED
    BY <2>2, <2>3, <2>4 DEF s
<1> QED
  BY <1>1, <1>2

-------------------------------------------------------------------------------
(* What the hooks make of an event that their sight allows.                *)

Reads(u, v, e, r) ==
  /\ r \in UiState
  /\ Fit(r, Move(v, e))
  /\ r.thread = u.thread => Kept(r.turns, u.turns)
  /\ Told(u.turns) /\ (e.type = "turn.started" => e.prompt = u.slot) => Told(r.turns)
  /\ r.slot = IF e.type = "turn.started" THEN 0 ELSE u.slot
  /\ r.queue = IF e.type = "approval.requested" /\ u.queue = <<>>
               THEN <<[request |-> e.request, turn |-> e.turn]>>
               ELSE IF e.type = "approval.requested" THEN r.queue
               ELSE IF Closes(v, e) THEN <<>> ELSE u.queue

(* A thread without turns fits a sight without an open one.                *)
LEMMA FitEmpty ==
  ASSUME NEW r, NEW w, r.thread = w.thread, r.turns = <<>>, r.buffer = <<>>, w.open = 0,
         w.seen \in Nat
  PROVE  Fit(r, w)
<1>1. DOMAIN <<>> = {} /\ Len(<<>>) = 0
  OBVIOUS
<1> QED
  BY <1>1 DEF Fit

LEMMA ReadThread ==
  ASSUME NEW u \in UiState, NEW v \in Sight, Fit(u, v), FitQueue(u, v), u.buffer = <<>>,
         NEW e, Legal(v, e), e.type = "thread.started", NEW r, r = ThreadStarted(u, e)
  PROVE  Reads(u, v, e, r)
<1> DEFINE w == Move(v, e)
<1>1. Fields(v) /\ Moved(v, e, w) /\ w \in Sight
  BY SightFields, MoveFields, MoveSound
<1>2. /\ e.thread \in Threads /\ e.thread # v.thread /\ v.open = 0
      /\ u.thread = v.thread /\ ~Terminal(e)
  BY DEF Legal, Fit, Terminal
<1>3. u.thread \in {0, e.thread} => u.turns = <<>>
  <2>1. v.thread = 0 => u.turns = <<>>
    BY <1>1 DEF Fields, Fit
  <2> QED
    BY <1>2, <2>1
<1>4. r = [u EXCEPT !.thread = e.thread, !.turns = <<>>]
  BY <1>3 DEF ThreadStarted
<1>5. /\ r \in UiState /\ r.thread = e.thread /\ r.turns = <<>> /\ r.queue = u.queue
      /\ r.slot = u.slot /\ r.buffer = <<>>
  <2>1. r.thread = e.thread /\ r.turns = <<>>
    BY <1>4 DEF UiState
  <2>2. r.queue = u.queue /\ r.slot = u.slot /\ r.buffer = <<>>
    BY <1>4 DEF UiState
  <2>3. r = [u EXCEPT !.thread = r.thread, !.turns = r.turns]
    BY <1>4, <2>1
  <2>4. r.thread \in Threads /\ r.turns \in Seq(Entry)
    BY <1>2, <2>1
  <2>5. r \in UiState
    BY <2>3, <2>4 DEF UiState
  <2> QED
    BY <2>1, <2>2, <2>5
<1> HIDE DEF w
<1>6. w.thread = e.thread /\ w.open = 0 /\ w.seen \in Nat
  BY <1>1, <1>2, ClientAssumption DEF Moved, Fields
<1>7. Fit(r, w)
  BY <1>5, <1>6, FitEmpty
<1>8. Told(r.turns)
  BY <1>5 DEF Told
<1> QED
  BY <1>2, <1>5, <1>7, <1>8 DEF Reads, w, Closes

LEMMA ReadHydrated ==
  ASSUME NEW u \in UiState, NEW v \in Sight, Fit(u, v), FitQueue(u, v), u.buffer = <<>>,
         NEW e, Legal(v, e), e.type = "session.hydrated", NEW r, r = Hydrated(u, e)
  PROVE  Reads(u, v, e, r)
<1> DEFINE w == Move(v, e)
           x(i) == [id |-> -i, state |-> "completed", text |-> 0, deltas |-> 0, error |-> 0,
                    prompt |-> 0]
           t == [i \in 1..e.turn |-> x(i)]
<1>1. Fields(v) /\ Moved(v, e, w) /\ w \in Sight
  BY SightFields, MoveFields, MoveSound
<1>2. /\ e.thread = v.thread /\ v.fresh /\ e.turn \in 0..MaxInputs /\ u.thread = v.thread
      /\ ~Terminal(e) /\ u.turns = <<>> /\ v.open = 0 /\ v.last = 0 /\ e.turn \in Nat
      /\ v.seen \in Nat /\ v.failed \in BOOLEAN
  BY <1>1, BridgeAssumption, ClientAssumption DEF Legal, Fit, Terminal, Fields
<1>3. t \in Seq(Entry) /\ DOMAIN t = 1..e.turn
  <2>1. ASSUME NEW i \in 1..e.turn PROVE x(i) \in Entry
    <3>1. -i \in -MaxInputs..MaxInputs
      BY <1>2, BridgeAssumption
    <3> QED
      BY <3>1, ClientAssumption DEF Entry
  <2>2. t \in [1..e.turn -> Entry]
    BY <2>1
  <2>3. DOMAIN t = 1..e.turn
    OBVIOUS
  <2> HIDE DEF t
  <2>4. t \in Seq(Entry)
    BY <1>2, <2>2, SeqDef
  <2> QED
    BY <2>3, <2>4
<1>4. \A i \in DOMAIN t : t[i].id = -i /\ t[i].state = "completed" /\ t[i].text = 0
                          /\ t[i].deltas = 0
  OBVIOUS
<1>5. r = [u EXCEPT !.thread = e.thread, !.turns = t]
  BY <1>2 DEF Hydrated
<1> HIDE DEF t, x
<1>6. /\ r.thread = u.thread /\ r.turns = t /\ r.queue = u.queue
      /\ r.slot = u.slot /\ r.buffer = <<>>
  BY <1>2, <1>5 DEF UiState
<1>7. r \in UiState
  BY <1>2, <1>3, <1>5 DEF UiState
<1> HIDE DEF w
<1>8. /\ w.thread = v.thread /\ w.open = 0 /\ w.last = 0 /\ w.failed = v.failed
      /\ w.fresh = FALSE /\ w.seen = v.seen
  BY <1>1, <1>2 DEF Moved
<1>9. Fit(r, w)
  <2>1. ASSUME NEW i \in DOMAIN t PROVE FitEntry(t[i], <<>>, w)
    <3>1. i \in 1..e.turn /\ Len(<<>>) = 0
      BY <1>3
    <3> QED
      BY <1>2, <1>4, <1>8, <3>1 DEF FitEntry
  <2>2. Len(<<>>) = 0 /\ DOMAIN <<>> = {}
    OBVIOUS
  <2> QED
    BY <1>2, <1>6, <1>8, <2>1, <2>2 DEF Fit
<1>10. Kept(r.turns, u.turns) /\ Told(r.turns)
  BY <1>2, <1>4, <1>6 DEF Kept, Stays, Told
<1> QED
  BY <1>2, <1>6, <1>7, <1>9, <1>10 DEF Reads, w, Closes

LEMMA ReadListed ==
  ASSUME NEW u \in UiState, NEW v \in Sight, Fit(u, v), FitQueue(u, v), u.buffer = <<>>,
         NEW e, Legal(v, e), e.type = "session.listed", NEW r, r = Listed(u, e)
  PROVE  Reads(u, v, e, r)
<1> DEFINE w == Move(v, e)
           o == {s.thread : s \in e.sessions}
<1>1. Fields(v) /\ Moved(v, e, w)
  BY SightFields, MoveFields
<1>2. o \subseteq Threads /\ ~Terminal(e)
  BY DEF Legal, Terminal
<1>3. r = [u EXCEPT !.picking = TRUE, !.offers = o]
  BY DEF Listed
<1> HIDE DEF o, w
<1>4. /\ r.thread = u.thread /\ r.turns = u.turns /\ r.queue = u.queue
      /\ r.slot = u.slot /\ r.buffer = u.buffer
  BY <1>3 DEF UiState
<1>5. r \in UiState
  BY <1>2, <1>3 DEF UiState
<1>6. /\ w.thread = v.thread /\ w.open = v.open /\ w.last = v.last /\ w.failed = v.failed
      /\ (w.fresh <=> v.fresh) /\ w.seen = v.seen
  BY <1>1 DEF Moved
<1>7. Fit(r, w)
  BY <1>4, <1>6 DEF Fit, FitEntry
<1>8. Kept(r.turns, u.turns) /\ (Told(u.turns) => Told(r.turns))
  BY <1>4 DEF Kept, Stays
<1> QED
  BY <1>2, <1>4, <1>5, <1>7, <1>8 DEF Reads, w, Closes

LEMMA ReadRequest ==
  ASSUME NEW u \in UiState, NEW v \in Sight, Fit(u, v), FitQueue(u, v), u.buffer = <<>>,
         NEW e, Legal(v, e), e.type = "approval.requested", NEW r, r = Requested(u, e)
  PROVE  Reads(u, v, e, r)
<1> DEFINE w == Move(v, e)
           q == [request |-> e.request, turn |-> e.turn]
<1>1. Fields(v) /\ Moved(v, e, w)
  BY SightFields, MoveFields
<1>2. /\ e.turn = v.open /\ v.open # 0 /\ e.request = v.asked + 1 /\ e.request <= MaxRequests
      /\ ~Terminal(e)
  BY DEF Legal, Terminal
<1>3. q \in Asked
  BY <1>1, <1>2, BridgeAssumption DEF Fields, Asked, Prompts
<1>4. u.queue \in Seq(Asked) /\ Append(u.queue, q) \in Seq(Asked)
  BY <1>3 DEF UiState
<1>5. r = u \/ r = [u EXCEPT !.queue = Append(u.queue, q)]
  BY DEF Requested
<1>6. u.queue = <<>> => r = [u EXCEPT !.queue = Append(u.queue, q)]
  BY DEF Requested
<1>7. Append(<<>>, q) = <<q>>
  OBVIOUS
<1> HIDE DEF q, w
<1>8. /\ r.thread = u.thread /\ r.turns = u.turns
      /\ r.slot = u.slot /\ r.buffer = u.buffer /\ r \in UiState
  BY <1>4, <1>5 DEF UiState
<1>9. u.queue = <<>> => r.queue = <<q>>
  BY <1>6, <1>7 DEF UiState
<1>10. /\ w.thread = v.thread /\ w.open = v.open /\ w.last = v.last /\ w.failed = v.failed
       /\ (w.fresh <=> v.fresh) /\ w.seen = v.seen
  BY <1>1 DEF Moved
<1>11. Fit(r, w)
  BY <1>8, <1>10 DEF Fit, FitEntry
<1>12. Kept(r.turns, u.turns) /\ (Told(u.turns) => Told(r.turns))
  BY <1>8 DEF Kept, Stays
<1> QED
  BY <1>8, <1>9, <1>11, <1>12 DEF Reads, w, q

LEMMA ReadTurn ==
  ASSUME NEW u \in UiState, NEW v \in Sight, Fit(u, v), FitQueue(u, v), u.buffer = <<>>,
         NEW e, Legal(v, e), e.type = "turn.started", NEW r, r = TurnStarted(u, e)
  PROVE  Reads(u, v, e, r)
<1> DEFINE w == Move(v, e)
           n == Len(u.turns)
           new == [id |-> e.turn, state |-> "active", text |-> 0, deltas |-> 0,
                   error |-> 0, prompt |-> e.prompt]
           s == Append(u.turns, new)
           t == Titled(s, e.turn, u.slot)
<1>1. Fields(v) /\ Moved(v, e, w)
  BY SightFields, MoveFields
<1>2. /\ v.open = 0 /\ e.turn = v.last + 1 /\ e.turn <= MaxInputs /\ e.prompt \in Prompts
      /\ ~Terminal(e) /\ e.turn \in Nat \ {0} /\ v.last \in Nat /\ v.seen \in Nat
  BY <1>1, BridgeAssumption, ClientAssumption DEF Legal, Terminal, Fields
<1>3. u.turns \in Seq(Entry) /\ n \in Nat /\ DOMAIN u.turns = 1..n
  BY LenProperties DEF UiState
<1>4. \A i \in 1..n : u.turns[i] \in Entry /\ FitEntry(u.turns[i], <<>>, v)
  BY <1>3, ElementOfSeq DEF Fit
<1>5. ASSUME NEW i \in 1..n
      PROVE  u.turns[i].id # e.turn /\ u.turns[i].id <= v.last /\ u.turns[i].state # "active"
  BY <1>2, <1>4, BridgeAssumption DEF Entry, FitEntry
<1>6. new \in Entry
  BY <1>2, BridgeAssumption, ClientAssumption DEF Entry, Prompts
<1>7. /\ s \in Seq(Entry) /\ DOMAIN s = 1..(n + 1) /\ s[n + 1] = new
      /\ \A i \in 1..n : s[i] = u.turns[i]
  BY <1>3, <1>6
<1>8. r = [u EXCEPT !.turns = t, !.slot = 0]
  BY <1>3, <1>5 DEF TurnStarted
<1>9. t = [i \in DOMAIN s |-> IF u.slot # 0 /\ s[i].id = e.turn
                              THEN [s[i] EXCEPT !.text = u.slot] ELSE s[i]]
  BY DEF Titled
<1>10. new.id = e.turn /\ new.state = "active" /\ new.text = 0 /\ new.deltas = 0
       /\ new.prompt = e.prompt
  OBVIOUS
<1> HIDE DEF w, n, new, s, t
<1>11. \A i \in 1..n : i \in DOMAIN s /\ t[i] = u.turns[i]
  BY <1>3, <1>5, <1>7, <1>9
<1>12. u.slot \in Prompts \union {0}
  BY DEF UiState
<1>13. /\ t[n + 1] \in Entry /\ t[n + 1].id = e.turn /\ t[n + 1].state = "active"
       /\ t[n + 1].deltas = 0 /\ t[n + 1].prompt = e.prompt /\ t[n + 1].text = u.slot
  <2>1. n + 1 \in DOMAIN s
    BY <1>3, <1>7
  <2>2. CASE u.slot = 0
    <3>1. t[n + 1] = new
      BY <1>7, <1>9, <2>1, <2>2
    <3> QED
      BY <1>6, <1>10, <2>2, <3>1
  <2>3. CASE u.slot # 0
    <3>1. t[n + 1] = [new EXCEPT !.text = u.slot]
      BY <1>7, <1>9, <1>10, <2>1, <2>3
    <3> QED
      BY <1>6, <1>10, <1>12, <3>1 DEF Entry
  <2> QED
    BY <2>2, <2>3
<1>14. t \in Seq(Entry) /\ DOMAIN t = 1..(n + 1)
  <2>1. t = [i \in DOMAIN s |-> t[i]]
    BY <1>9
  <2>2. \A i \in DOMAIN s : t[i] \in Entry
    <3>1. \A i \in 1..(n + 1) : i \in 1..n \/ i = n + 1
      BY <1>3
    <3> QED
      BY <1>4, <1>7, <1>11, <1>13, <3>1
  <2> QED
    BY <1>7, <2>1, <2>2, Mapped
<1>15. r.turns = t /\ r.slot = 0 /\ r.thread = u.thread /\ r.queue = u.queue
       /\ r.buffer = <<>>
  BY <1>8 DEF UiState
<1>16. r \in UiState
  <2>1. r = [u EXCEPT !.turns = r.turns, !.slot = r.slot]
    BY <1>8, <1>15
  <2>2. r.turns \in Seq(Entry) /\ r.slot \in Prompts \union {0}
    BY <1>14, <1>15
  <2> QED
    BY <2>1, <2>2 DEF UiState
<1>17. /\ w.thread = v.thread /\ w.open = e.turn /\ w.last = e.turn /\ w.failed = FALSE
       /\ w.fresh = FALSE /\ w.seen = v.seen
  BY <1>1 DEF Moved
<1>18. Fit(r, w)
  <2>1. ASSUME NEW i \in DOMAIN t PROVE FitEntry(t[i], <<>>, w)
    <3>1. Len(<<>>) = 0
      OBVIOUS
    <3>2. CASE i \in 1..n
      <4>1. /\ t[i] = u.turns[i] /\ FitEntry(t[i], <<>>, v) /\ t[i].id <= v.last
            /\ t[i].state # "active" /\ t[i].id \in Int /\ t[i].id # e.turn
        BY <1>4, <1>5, <1>11, <3>2, BridgeAssumption DEF Entry
      <4> QED
        BY <1>2, <1>17, <3>1, <4>1 DEF FitEntry
    <3>3. CASE i = n + 1
      BY <1>2, <1>13, <1>17, <3>1, <3>3 DEF FitEntry
    <3> QED
      BY <1>3, <1>14, <3>2, <3>3
  <2>2. \E i \in DOMAIN t : t[i].id = w.open
    <3>1. n + 1 \in DOMAIN t
      BY <1>3, <1>14
    <3> QED
      BY <1>13, <1>17, <3>1
  <2>3. Len(<<>>) = 0 /\ DOMAIN <<>> = {} /\ u.thread = v.thread
    BY DEF Fit
  <2> QED
    BY <1>2, <1>15, <1>17, <2>1, <2>2, <2>3 DEF Fit
<1>19. Kept(t, u.turns)
  <2>1. \A i \in 1..n : i \in DOMAIN t
    BY <1>3, <1>14
  <2> QED
    BY <1>3, <1>11, <2>1 DEF Kept, Stays
<1>20. ASSUME Told(u.turns), e.prompt = u.slot PROVE Told(t)
  <2>1. \A i \in DOMAIN t : i \in 1..n \/ i = n + 1
    BY <1>3, <1>14
  <2> QED
    BY <1>3, <1>11, <1>13, <1>20, <2>1 DEF Told
<1> QED
  BY <1>2, <1>15, <1>16, <1>18, <1>19, <1>20 DEF Reads, w, Closes

LEMMA ReadEnd ==
  ASSUME NEW u \in UiState, NEW v \in Sight, Fit(u, v), FitQueue(u, v), u.buffer = <<>>,
         NEW e, Legal(v, e), Terminal(e), NEW r, r = TurnEnded(u, e)
  PROVE  Reads(u, v, e, r)
<1> DEFINE w == Move(v, e)
           t == Closing(u.turns, e)
           q == Without(u.queue, e.turn)
<1>1. Fields(v) /\ Moved(v, e, w)
  BY SightFields, MoveFields
<1>2. /\ e.type \in {"turn.completed", "turn.failed"} /\ e.turn \in Prompts /\ e.turn # 0
      /\ e.turn = v.open \/ (e.type = "turn.failed" /\ v.open = 0
                             /\ (e.turn = v.last + 1 \/ (e.turn = v.last /\ v.failed)))
  BY DEF Legal, Terminal, Prompts
<1>3. u.turns \in Seq(Entry) /\ DOMAIN u.turns = 1..Len(u.turns)
  BY LenProperties DEF UiState
<1>4. \A i \in DOMAIN u.turns : u.turns[i] \in Entry /\ FitEntry(u.turns[i], <<>>, v)
  BY <1>3, ElementOfSeq DEF Fit
<1>5. r = [u EXCEPT !.turns = t, !.queue = q]
  BY DEF TurnEnded
<1>6. t = [i \in DOMAIN u.turns |->
            IF u.turns[i].id # e.turn THEN u.turns[i]
            ELSE IF e.type = "turn.completed"
                 THEN [u.turns[i] EXCEPT !.state = "completed", !.deltas = 0, !.error = 0]
                 ELSE [u.turns[i] EXCEPT !.state = "failed", !.error = e.prompt]]
  BY DEF Closing
<1>7. q = IF e.turn = v.open THEN <<>> ELSE u.queue
  <2>1. CASE u.queue = <<>>
    BY <2>1, WithoutOne
  <2>2. CASE u.queue # <<>>
    <3>1. v.ask # 0 /\ u.queue = <<[request |-> v.ask, turn |-> v.open]>>
      BY <2>2 DEF FitQueue
    <3>2. e.turn = v.open
      BY <1>1, <1>2, <3>1 DEF Fields
    <3>3. Without(<<[request |-> v.ask, turn |-> v.open]>>, e.turn) = <<>>
      BY <3>2, WithoutOne
    <3> QED
      BY <3>1, <3>2, <3>3
  <2> QED
    BY <2>1, <2>2
<1> HIDE DEF w, t, q
<1>8. ASSUME NEW i \in DOMAIN u.turns
      PROVE  /\ t[i] \in Entry /\ t[i].id = u.turns[i].id /\ t[i].text = u.turns[i].text
             /\ t[i].prompt = u.turns[i].prompt /\ t[i].deltas <= v.seen
             /\ t[i].state # "active"
             /\ t[i].id = e.turn /\ e.type = "turn.failed" => t[i].state = "failed"
             /\ t[i].id # e.turn => t[i] = u.turns[i]
             /\ u.turns[i].state # "active" => Stays(u.turns[i], t[i])
  <2> DEFINE x == u.turns[i]
  <2>1. x \in Entry /\ FitEntry(x, <<>>, v) /\ Len(<<>>) = 0
    BY <1>4
  <2>2. v.seen \in Nat /\ x.deltas \in Nat /\ x.id \in Int /\ x.deltas <= v.seen
    BY <1>1, <2>1, BridgeAssumption, ClientAssumption DEF Fields, Entry, FitEntry
  <2>3. CASE x.id # e.turn
    <3>1. t[i] = x
      BY <1>6, <2>3
    <3>2. x.state # "active"
      BY <1>2, <2>1, <2>3 DEF FitEntry
    <3> QED
      BY <2>1, <2>2, <2>3, <3>1, <3>2 DEF Stays
  <2>4. CASE x.id = e.turn /\ e.type = "turn.completed"
    <3>1. t[i] = [x EXCEPT !.state = "completed", !.deltas = 0, !.error = 0]
      BY <1>6, <2>4
    <3>2. x.state = "active"
      BY <1>2, <2>1, <2>4 DEF FitEntry
    <3> HIDE DEF x
    <3>3. t[i].state = "completed" /\ t[i].deltas = 0
      BY <2>1, <3>1 DEF Entry
    <3>4. t[i].id = x.id /\ t[i].text = x.text /\ t[i].prompt = x.prompt
      BY <2>1, <3>1 DEF Entry
    <3>5. t[i] \in Entry
      <4>1. t[i] = [id |-> x.id, state |-> "completed", text |-> x.text, deltas |-> 0,
                    error |-> 0, prompt |-> x.prompt]
        BY <2>1, <3>1 DEF Entry
      <4> QED
        BY <2>1, <4>1, ClientAssumption DEF Entry
    <3> QED
      BY <2>2, <2>4, <3>2, <3>3, <3>4, <3>5 DEF x
  <2>5. CASE x.id = e.turn /\ e.type = "turn.failed"
    <3>1. t[i] = [x EXCEPT !.state = "failed", !.error = e.prompt]
      BY <1>6, <2>5
    <3>2. x.state # "active" => x.state = "failed"
      BY <1>1, <1>2, <2>1, <2>2, <2>5, BridgeAssumption DEF FitEntry, Fields
    <3>4. e.prompt \in Prompts \union {0}
      BY <2>5 DEF Legal
    <3> HIDE DEF x
    <3>3. /\ t[i] \in Entry /\ t[i].state = "failed" /\ t[i].deltas = x.deltas
          /\ t[i].id = x.id /\ t[i].text = x.text /\ t[i].prompt = x.prompt
          /\ t[i].error = e.prompt
      BY <2>1, <3>1, <3>4 DEF Entry
    <3>5. x.state = "failed" => Stays(x, t[i])
      <4> SUFFICES ASSUME x.state = "failed" PROVE t[i] = [x EXCEPT !.error = t[i].error]
        BY DEF Stays
      <4> QED
        BY <2>1, <3>1, <3>3 DEF Entry
    <3> QED
      BY <2>2, <2>5, <3>2, <3>3, <3>5 DEF x
  <2> QED
    BY <1>2, <2>3, <2>4, <2>5
<1>9. t \in Seq(Entry) /\ DOMAIN t = DOMAIN u.turns /\ Len(t) = Len(u.turns)
  <2>1. t = [i \in DOMAIN u.turns |-> t[i]]
    BY <1>6
  <2>2. \A i \in DOMAIN u.turns : t[i] \in Entry
    BY <1>8
  <2> DEFINE s == u.turns
  <2>3. s \in Seq(Entry) /\ t = [i \in DOMAIN s |-> t[i]] /\ \A i \in DOMAIN s : t[i] \in Entry
    BY <1>3, <2>1, <2>2
  <2> HIDE DEF s
  <2>4. t \in Seq(Entry) /\ DOMAIN t = DOMAIN s /\ Len(t) = Len(s)
    BY <2>3, Mapped
  <2> QED
    BY <2>4 DEF s
<1>10. r.turns = t /\ r.queue = q /\ r.thread = u.thread /\ r.slot = u.slot /\ r.buffer = <<>>
  BY <1>5 DEF UiState
<1>11. r \in UiState
  <2>1. r = [u EXCEPT !.turns = r.turns, !.queue = r.queue]
    BY <1>5, <1>10
  <2>2. r.turns \in Seq(Entry) /\ r.queue \in Seq(Asked)
    BY <1>7, <1>9, <1>10 DEF UiState
  <2> QED
    BY <2>1, <2>2 DEF UiState
<1>12. /\ w.thread = v.thread /\ w.last = v.last /\ (w.fresh <=> v.fresh) /\ w.seen = v.seen
       /\ IF e.turn = v.open THEN w.open = 0 /\ (w.failed <=> e.type = "turn.failed")
          ELSE w.open = v.open /\ w.failed = v.failed
  BY <1>1 DEF Moved
<1>13. w.open = 0
  BY <1>2, <1>12
<1>14. Fit(r, w)
  <2>1. ASSUME NEW i \in DOMAIN t PROVE FitEntry(t[i], <<>>, w)
    <3>1. FitEntry(u.turns[i], <<>>, v) /\ Len(<<>>) = 0 /\ t[i].deltas \in Nat
      BY <1>4, <1>8, <1>9, ClientAssumption DEF Entry
    <3>2. w.failed /\ t[i].id = w.last => t[i].state = "failed"
      <4>1. CASE e.turn = v.open
        BY <1>1, <1>2, <1>8, <1>9, <1>12, <4>1 DEF Fields
      <4>2. CASE e.turn # v.open
        <5>1. w.failed = v.failed /\ e.type = "turn.failed"
          BY <1>2, <1>12, <4>2
        <5> QED
          BY <1>8, <1>9, <1>12, <3>1, <5>1 DEF FitEntry
      <4> QED
        BY <4>1, <4>2
    <3> QED
      BY <1>8, <1>9, <1>12, <1>13, <3>1, <3>2 DEF FitEntry
  <2>2. w.fresh => t = <<>>
    BY <1>3, <1>9, <1>12, EmptySeq DEF Fit
  <2>3. Len(<<>>) = 0 /\ DOMAIN <<>> = {} /\ u.thread = v.thread /\ w.seen \in Nat
    BY <1>1, <1>12, ClientAssumption DEF Fit, Fields
  <2> QED
    BY <1>10, <1>12, <1>13, <2>1, <2>2, <2>3 DEF Fit
<1>15. Kept(t, u.turns) /\ (Told(u.turns) => Told(t))
  BY <1>8, <1>9 DEF Kept, Stays, Told
<1> QED
  BY <1>2, <1>7, <1>10, <1>11, <1>14, <1>15 DEF Reads, w, Closes

(* A piece of text is kept for later ...                                   *)
LEMMA ReadItem ==
  ASSUME NEW u \in UiState, NEW v \in Sight, Fit(u, v), FitQueue(u, v), NEW e, Legal(v, e),
         e.type = "item.updated", NEW r, r = [u EXCEPT !.buffer = Append(@, e.turn)]
  PROVE  Reads(u, v, e, r)
<1> DEFINE w == Move(v, e)
           b == Append(u.buffer, e.turn)
<1>1. Fields(v) /\ Moved(v, e, w)
  BY SightFields, MoveFields
<1>2. /\ e.turn = v.open /\ v.open # 0 /\ v.seen < MaxDeltas /\ ~Terminal(e)
      /\ e.turn \in Prompts /\ v.seen \in Nat
  BY <1>1, BridgeAssumption, ClientAssumption DEF Legal, Terminal, Fields, Prompts
<1>3. u.buffer \in Seq(Prompts) /\ Len(u.buffer) \in Nat
  BY LenProperties DEF UiState
<1>4. /\ b \in Seq(Prompts) /\ Len(b) = Len(u.buffer) + 1
      /\ \A j \in DOMAIN b : (j \in DOMAIN u.buffer /\ b[j] = u.buffer[j]) \/ b[j] = e.turn
  BY <1>2, <1>3
<1>5. r = [u EXCEPT !.buffer = b]
  OBVIOUS
<1> HIDE DEF w, b
<1>6. /\ r.thread = u.thread /\ r.turns = u.turns /\ r.queue = u.queue /\ r.slot = u.slot
      /\ r.buffer = b /\ r \in UiState
  BY <1>4, <1>5 DEF UiState
<1>7. /\ w.thread = v.thread /\ w.open = v.open /\ w.last = v.last /\ w.failed = v.failed
      /\ (w.fresh <=> v.fresh) /\ w.seen = v.seen + 1
  BY <1>1, <1>2 DEF Moved
<1>8. Fit(r, w)
  <2>1. ASSUME NEW i \in DOMAIN u.turns PROVE FitEntry(u.turns[i], b, w)
    <3>1. u.turns[i] \in Entry
      BY LenProperties, ElementOfSeq DEF UiState
    <3>2. u.turns[i].deltas \in Nat
      BY <3>1, ClientAssumption DEF Entry
    <3>3. FitEntry(u.turns[i], u.buffer, v)
      BY DEF Fit
    <3> QED
      BY <1>2, <1>3, <1>4, <1>7, <3>2, <3>3 DEF FitEntry
  <2>2. \A j \in DOMAIN b : b[j] = w.open
    BY <1>2, <1>4, <1>7 DEF Fit
  <2>3. Len(b) <= w.seen
    BY <1>2, <1>3, <1>4, <1>7 DEF Fit
  <2> QED
    BY <1>2, <1>6, <1>7, <2>1, <2>2, <2>3 DEF Fit
<1>9. Kept(r.turns, u.turns) /\ (Told(u.turns) => Told(r.turns))
  BY <1>6 DEF Kept, Stays
<1> QED
  BY <1>2, <1>6, <1>8, <1>9 DEF Reads, w, Closes

(* ... and any other event is taken after a flush.                         *)
LEMMA ReadAny ==
  ASSUME NEW u \in UiState, NEW v \in Sight, Fit(u, v), FitQueue(u, v), NEW e, Legal(v, e),
         NEW r, r = IF e.type = "item.updated" THEN [u EXCEPT !.buffer = Append(@, e.turn)]
                    ELSE Reduced(Flushed(u), e)
  PROVE  Reads(u, v, e, r)
<1>1. CASE e.type = "item.updated"
  BY <1>1, ReadItem
<1>2. CASE e.type # "item.updated"
  <2> DEFINE f == Flushed(u)
  <2>1. /\ f \in UiState /\ Fit(f, v) /\ f.buffer = <<>>
        /\ f.thread = u.thread /\ f.queue = u.queue /\ f.slot = u.slot
        /\ \A i \in DOMAIN u.turns : u.turns[i].state # "active" =>
             i \in DOMAIN f.turns /\ f.turns[i] = u.turns[i]
        /\ Kept(f.turns, u.turns)
        /\ Told(u.turns) => Told(f.turns)
    BY FlushFits
  <2>2. FitQueue(f, v)
    BY <2>1 DEF FitQueue
  <2>3. r = Reduced(f, e)
    BY <1>2
  <2> HIDE DEF f
  <2>4. Reads(f, v, e, r)
    <3>1. CASE e.type = "thread.started"
      <4>1. r = ThreadStarted(f, e)
        BY <2>3, <3>1 DEF Reduced, Terminal
      <4> QED
        BY <2>1, <2>2, <3>1, <4>1, ReadThread
    <3>2. CASE e.type = "turn.started"
      <4>1. r = TurnStarted(f, e)
        BY <2>3, <3>2 DEF Reduced, Terminal
      <4> QED
        BY <2>1, <2>2, <3>2, <4>1, ReadTurn
    <3>3. CASE Terminal(e)
      <4>1. r = TurnEnded(f, e)
        BY <2>3, <3>3 DEF Reduced, Terminal
      <4> QED
        BY <2>1, <2>2, <3>3, <4>1, ReadEnd
    <3>4. CASE e.type = "approval.requested"
      <4>1. r = Requested(f, e)
        BY <2>3, <3>4 DEF Reduced, Terminal
      <4> QED
        BY <2>1, <2>2, <3>4, <4>1, ReadRequest
    <3>5. CASE e.type = "session.hydrated"
      <4>1. r = Hydrated(f, e)
        BY <2>3, <3>5 DEF Reduced, Terminal
      <4> QED
        BY <2>1, <2>2, <3>5, <4>1, ReadHydrated
    <3>6. CASE e.type = "session.listed"
      <4>1. r = Listed(f, e)
        BY <2>3, <3>6 DEF Reduced, Terminal
      <4> QED
        BY <2>1, <2>2, <3>6, <4>1, ReadListed
    <3> QED
      BY <1>2, <3>1, <3>2, <3>3, <3>4, <3>5, <3>6 DEF Legal, Types, Terminal
  <2>5. Kept(r.turns, f.turns) => Kept(r.turns, u.turns)
    BY <2>1 DEF Kept
  <2> QED
    BY <2>1, <2>4, <2>5 DEF Reads
<1> QED
  BY <1>1, <1>2

(* The requests shown still fit.                                           *)
LEMMA ReadQueue ==
  ASSUME NEW u, NEW v \in Sight, FitQueue(u, v), NEW e, Legal(v, e), NEW r, Reads(u, v, e, r),
         e.type = "approval.requested" => u.queue = <<>>
  PROVE  FitQueue(r, Move(v, e))
<1> DEFINE w == Move(v, e)
<1>1. Fields(v) /\ Moved(v, e, w)
  BY SightFields, MoveFields
<1> HIDE DEF w
<1>2. CASE e.type = "approval.requested"
  <2>1. w.ask = e.request /\ w.open = v.open /\ e.turn = v.open /\ e.request = v.asked + 1
    BY <1>1, <1>2 DEF Moved, Legal
  <2>2. r.queue = <<[request |-> w.ask, turn |-> w.open]>> /\ w.ask # 0
    BY <1>1, <1>2, <2>1, BridgeAssumption DEF Reads, Fields
  <2> QED
    BY <2>2 DEF FitQueue, w
<1>3. CASE e.type # "approval.requested" /\ Closes(v, e)
  <2>1. r.queue = <<>>
    BY <1>3 DEF Reads
  <2> QED
    BY <2>1 DEF FitQueue
<1>4. CASE e.type # "approval.requested" /\ ~Closes(v, e)
  <2>1. r.queue = u.queue
    BY <1>4 DEF Reads
  <2>2. w.ask = v.ask
    BY <1>4 DEF w, Move
  <2>3. v.open # 0 => w.open = v.open
    BY <1>4 DEF w, Move, Legal
  <2>4. v.ask # 0 => v.open # 0
    BY <1>1 DEF Fields
  <2> QED
    BY <2>1, <2>2, <2>3, <2>4 DEF FitQueue, w
<1> QED
  BY <1>2, <1>3, <1>4

-------------------------------------------------------------------------------
(* The bridge in the composed system.                                      *)

Handlers == [disabled : BOOLEAN, busy : BOOLEAN, picking : BOOLEAN, offers : SUBSET Threads,
             request : 0..MaxRequests]

ClientTypes ==
  /\ IsSeq(cmds) /\ IsSeq(evts)
  /\ ui \in UiState
  /\ shown \in Handlers
  /\ running \in Prompts \union {0}
  /\ early \in BOOLEAN
  /\ typed \in 0..MaxInputs /\ sends \in 0..MaxSends /\ streamed \in 0..MaxDeltas
  /\ Len(cmds) <= sends

(* What the client may have written.                                       *)
LineFits(c, n) ==
  /\ c.do \in {"prompt", "new", "list", "resume", "respond", "interrupt"}
  /\ c.do = "prompt" => c.arg \in 1..n
  /\ c.do = "resume" => c.arg \in Threads
  /\ c.do = "respond" => c.arg \in 1..MaxRequests /\ c.how \in Decisions

LineTypes == \A j \in 1..Len(cmds) : LineFits(cmds[j], typed)

(* The bridge does not stop, and moves to other threads than its own.      *)
Misc ==
  /\ loop \in {"reading", "resolving", "closing"}
  /\ session.thread <= made
  /\ loop # "reading" => goal # session.thread
  /\ task = "created" => running # 0

(* A line that the bridge takes up is a command it knows.                  *)
LEMMA ObeyedNext ==
  ASSUME NEW c, LineFits(c, typed), typed \in 0..MaxInputs, Obeyed(c)
  PROVE  Command
<1>1. CASE c.do = "prompt" /\ UserInput
  BY <1>1 DEF Command
<1>2. CASE c.do = "new" /\ SlashNew
  BY <1>2 DEF Command
<1>3. CASE c.do = "list" /\ Slash
  BY <1>3 DEF Command
<1>4. CASE c.do = "resume" /\ Resume(c.arg)
  BY <1>4 DEF Command, LineFits
<1>5. CASE c.do = "respond" /\ Respond(c.arg, c.how)
  BY <1>5 DEF Command, LineFits
<1>6. CASE c.do = "interrupt" /\ Interrupt
  BY <1>6 DEF Command
<1> QED
  BY <1>1, <1>2, <1>3, <1>4, <1>5, <1>6 DEF Obeyed

(* Steps of the system are steps of the bridge, or leave it alone.         *)
LEMMA SystemStep ==
  ASSUME ClientTypes, LineTypes, [SystemNext]_<<vars, clientVars>>
  PROVE  [Next]_vars
<1>1. CASE UNCHANGED <<vars, clientVars>>
  BY <1>1
<1>2. CASE Receive \/ FlushDeltas \/ Install \/ Expire
  BY <1>2 DEF Receive, FlushDeltas, Install, Expire, Local, BridgeIdle
<1>3. CASE Keys
  BY <1>3 DEF Keys, Submit, SubmitSlash, PressInterrupt, Decide, Pick, Dismiss, Send, Local,
              BridgeIdle
<1>4. CASE ReadLine
  <2>1. CASE Obeyed(Head(cmds))
    <3>1. Head(cmds) = cmds[1] /\ 1 \in 1..Len(cmds)
      BY <1>4, Taken DEF ReadLine, ClientTypes
    <3>2. LineFits(Head(cmds), typed) /\ typed \in 0..MaxInputs
      BY <3>1 DEF LineTypes, ClientTypes
    <3>3. Command
      BY <2>1, <3>2, ObeyedNext
    <3> QED
      BY <3>3 DEF Next
  <2>2. CASE ~Obeyed(Head(cmds))
    BY <1>4, <2>2 DEF ReadLine, BridgeIdle
  <2> QED
    BY <2>1, <2>2
<1>5. CASE Stream
  BY <1>5 DEF Stream, BridgeIdle
<1>6. CASE BridgeTurn \/ BridgeCancelled
  BY <1>6 DEF BridgeTurn, BridgeCancelled, Act, Delivered, Turn, Next
<1>7. CASE BridgeSwitch \/ Act(Ask) \/ Act(RecorderFails)
  BY <1>7 DEF BridgeSwitch, Act, Next
<1> QED
  BY <1>1, <1>2, <1>3, <1>4, <1>5, <1>6, <1>7 DEF SystemNext

LEMMA BridgeKept ==
  ASSUME BridgeInv, ClientTypes, LineTypes, [SystemNext]_<<vars, clientVars>>
  PROVE  BridgeInv'
  BY SystemStep, CoreStep, ViewStep, LedgerStep DEF BridgeInv

(* What the bridge's own invariant says here.                              *)
LEMMA BridgeFacts ==
  ASSUME BridgeInv, Misc
  PROVE  /\ Up
         /\ session.thread \in Threads /\ adapter.thread = session.thread
         /\ view.thread = session.thread /\ view.open = turnId
         /\ turnId \in 0..MaxInputs /\ adapter.counter \in 0..MaxInputs
         /\ adapter.current \in 0..MaxInputs
         /\ requests \in 0..MaxRequests /\ request \in 0..MaxRequests
         /\ owed \in BOOLEAN
         /\ task \in {"none", "created", "running", "asking", "flushing", "unstarted"}
         /\ Live => loop = "reading"
         /\ task \in {"running", "asking", "flushing"} =>
              turnId = adapter.counter /\ adapter.current = adapter.counter /\ turnId # 0
         /\ task \notin {"running", "asking", "flushing"} => turnId = 0
         /\ task = "asking" <=> request # 0
         /\ task = "created" => adapter.counter + 1 <= MaxInputs
         /\ adapter.current <= adapter.counter
<1> USE BridgeAssumption
<1>1. Up
  BY DEF Misc, Up
<1>2. session.thread \in Threads /\ adapter.thread = session.thread
  BY DEF BridgeInv, CoreInv, CoreTypes, SessionTypes, Session, TurnNumbered
<1>3. view.thread = session.thread /\ view.open = turnId /\ owed \in BOOLEAN
  BY <1>1 DEF BridgeInv, ViewInv, Follows
<1>4. /\ turnId \in 0..MaxInputs /\ adapter.counter \in 0..MaxInputs
      /\ adapter.current \in 0..MaxInputs /\ inputs \in 0..MaxInputs
      /\ requests \in 0..MaxRequests /\ request \in 0..MaxRequests
      /\ task \in {"none", "created", "running", "asking", "flushing", "unstarted"}
  BY DEF BridgeInv, CoreInv, CoreTypes, TaskTypes, NumberTypes
<1>5. Live => loop = "reading"
  BY DEF BridgeInv, CoreInv, Moves, Misc
<1>6. /\ task \in {"running", "asking", "flushing"} =>
           turnId = adapter.counter /\ adapter.current = adapter.counter /\ turnId # 0
      /\ task \notin {"running", "asking", "flushing"} => turnId = 0
      /\ task = "asking" <=> request # 0
      /\ adapter.current <= adapter.counter
  BY DEF BridgeInv, CoreInv, TurnNumbered, InTurn, Answerable
<1>7. task = "created" => adapter.counter + 1 <= MaxInputs
  BY <1>4 DEF BridgeInv, CoreInv, PromptsCounted, Waiting
<1> QED
  BY <1>1, <1>2, <1>3, <1>4, <1>5, <1>6, <1>7

(* A switch to another thread.                                             *)
MoveFits ==
  /\ loop \in {"reading", "resolving", "closing"}
  /\ session.thread <= made
  /\ loop # "reading" => goal # session.thread

LEMMA SwitchMisc ==
  ASSUME BridgeInv, Misc, NEW t \in Threads, t # session.thread, SwitchTo(t)
  PROVE  MoveFits'
<1> USE BridgeAssumption DEF MoveFits, Threads
<1>1. session \in Session /\ ledger \in Ledgers /\ made \in 0..MaxThreads
  BY DEF BridgeInv, CoreInv, CoreTypes, SessionTypes, LoopTypes
<1>2. Restored(t).thread = t
  BY <1>1, RestoredEffect
<1>3. CASE Activate(t, session, Hydrate(t))
  BY <1>1, <1>2, <1>3 DEF Activate, Take
<1>4. CASE loop' = "closing" /\ goal' = t /\ UNCHANGED sessions
  BY <1>4 DEF sessions, Misc
<1>5. CASE Refuse /\ UNCHANGED sessions
  BY <1>5 DEF Refuse, sessions, Misc
<1> QED
  BY <1>3, <1>4, <1>5 DEF SwitchTo

LEMMA CreateMisc ==
  ASSUME BridgeInv, Misc, CreateNew
  PROVE  MoveFits' /\ \E t \in Threads \ {session.thread} : SwitchTo(t)
<1>1. made \in 0..MaxThreads /\ session.thread \in Threads /\ session.thread <= made
  BY BridgeFacts DEF BridgeInv, CoreInv, CoreTypes, LoopTypes, Misc
<1>2. made + 1 \in Threads /\ made + 1 # session.thread /\ SwitchTo(made + 1)
  BY <1>1, BridgeAssumption DEF CreateNew, Threads
<1> QED
  BY <1>2, SwitchMisc

LEMMA MiscStep ==
  ASSUME BridgeInv, ClientTypes, LineTypes, Misc, [SystemNext]_<<vars, clientVars>>
  PROVE  Misc'
<1>0. session \in Session /\ ledger \in Ledgers /\ session.thread \in Threads
  BY BridgeFacts DEF BridgeInv, CoreInv, CoreTypes, SessionTypes
<1>a. Misc <=> MoveFits /\ (task = "created" => running # 0)
  BY DEF Misc, MoveFits
<1>b. Misc' <=> MoveFits' /\ (task' = "created" => running' # 0)
  BY DEF Misc, MoveFits
<1>c. ASSUME UNCHANGED <<vars, running>> PROVE Misc'
  BY <1>c DEF Misc, vars, sessions, turnVars
<1>1. CASE UNCHANGED <<vars, clientVars>>
  BY <1>1, <1>c DEF clientVars
<1>2. CASE Receive \/ FlushDeltas \/ Install \/ Expire
  BY <1>2, <1>c DEF Receive, FlushDeltas, Install, Expire, Local, BridgeIdle
<1>3. CASE Keys
  BY <1>3, <1>c DEF Keys, Submit, SubmitSlash, PressInterrupt, Decide, Pick, Dismiss, Send,
                    Local, BridgeIdle
<1>4. CASE ReadLine
  <2> DEFINE c == Head(cmds)
  <2>1. LineFits(c, typed) /\ typed \in 0..MaxInputs
    <3>1. c = cmds[1] /\ 1 \in 1..Len(cmds)
      BY <1>4, Taken DEF ReadLine, ClientTypes
    <3> QED
      BY <3>1 DEF LineTypes, ClientTypes
  <2>2. ~Obeyed(c) => UNCHANGED <<vars, running>>
    BY <1>4 DEF ReadLine, BridgeIdle
  <2> HIDE DEF c
  <2>3. CASE c.do = "prompt" /\ UserInput /\ running' = c.arg
    BY <2>1, <2>3 DEF LineFits, UserInput, Misc, sessions
  <2>4. CASE c.do = "new" /\ SlashNew /\ UNCHANGED running
    <3>1. MoveFits'
      <4>1. CASE Live
        BY <1>a, <2>4, <4>1 DEF SlashNew, MoveFits, sessions
      <4>2. CASE ~Live
        <5>1. CreateNew
          BY <2>4, <4>2 DEF SlashNew
        <5> QED
          BY <5>1, CreateMisc
      <4> QED
        BY <4>1, <4>2
    <3>2. UNCHANGED <<task, running>>
      BY <2>4 DEF SlashNew, turnVars
    <3> QED
      BY <1>a, <1>b, <3>1, <3>2
  <2>5. CASE c.do = "list" /\ Slash /\ UNCHANGED running
    BY <2>5 DEF Slash, QuietCommand, sessions, turnVars, Misc
  <2>6. CASE c.do = "resume" /\ Resume(c.arg) /\ UNCHANGED running
    BY <2>6 DEF Resume, Refuse, sessions, turnVars, Misc
  <2>7. CASE c.do = "respond" /\ Respond(c.arg, c.how) /\ UNCHANGED running
    BY <2>7 DEF Respond, sessions, turnVars, Misc
  <2>8. CASE c.do = "interrupt" /\ Interrupt /\ UNCHANGED running
    BY <2>8 DEF Interrupt, sessions, turnVars, Misc
  <2> QED
    BY <1>c, <2>2, <2>3, <2>4, <2>5, <2>6, <2>7, <2>8 DEF Obeyed
<1>5. CASE Stream
  BY <1>5, <1>c DEF Stream, BridgeIdle
<1>6. CASE Act(StartTurn)
  BY <1>0, <1>6 DEF Act, StartTurn, TurnOnly, Session, Misc
<1>7. CASE Act(TurnFails) \/ Act(Complete)
  BY <1>0, <1>7 DEF Act, TurnFails, Complete, TurnOnly, Idle, Session, Misc
<1>8. CASE Act(Answered) \/ Act(Finish)
  BY <1>0, <1>8 DEF Act, Answered, Finish, EndTurn, TurnOnly, Session, Misc
<1>9. CASE Act(Interrupted) \/ Act(NeverStarts)
  BY <1>9 DEF Act, Interrupted, NeverStarts, TurnOnly, Idle, Misc
<1>10. CASE Act(Resolved)
  <2>1. UNCHANGED <<task, running>> /\ goal \in Threads /\ goal # session.thread
    BY <1>10 DEF Act, Resolved, turnVars, Misc, BridgeInv, CoreInv, Moves
  <2>2. CASE Refuse /\ UNCHANGED sessions
    BY <2>1, <2>2 DEF Refuse, sessions, Misc
  <2>3. CASE SwitchTo(goal)
    BY <1>a, <1>b, <2>1, <2>3, SwitchMisc
  <2> QED
    BY <1>10, <2>2, <2>3 DEF Act, Resolved
<1>11. CASE Act(Closed)
  <2>1. UNCHANGED <<task, running>> /\ goal \in Threads /\ made \in 0..MaxThreads
    BY <1>11 DEF Act, Closed, turnVars, BridgeInv, CoreInv, CoreTypes, LoopTypes, Moves
  <2>2. Restored(goal).thread = goal
    BY <1>0, <2>1, RestoredEffect
  <2>3. session' = Restored(goal) /\ made' = (IF goal > made THEN goal ELSE made)
        /\ loop' = "reading"
    BY <1>11 DEF Act, Closed, Activate, Take
  <2> QED
    BY <2>1, <2>2, <2>3, BridgeAssumption DEF Misc, Threads
<1>12. CASE Act(CloseFails)
  BY <1>0, <1>12 DEF Act, CloseFails, Refuse, turnVars, Session, Misc
<1>13. CASE Act(Ask) \/ Act(RecorderFails)
  BY <1>0, <1>13 DEF Act, Ask, RecorderFails, TurnOnly, sessions, turnVars, Session, Misc
<1>14. BridgeTurn =>
        Act(StartTurn) \/ Act(TurnFails) \/ Act(Complete) \/ Act(Answered) \/ Act(Finish)
  BY DEF BridgeTurn, Act
<1>15. BridgeCancelled => Act(Interrupted) \/ Act(NeverStarts)
  BY DEF BridgeCancelled, Delivered, Act
<1>16. BridgeSwitch => Act(Resolved) \/ Act(Closed) \/ Act(CloseFails)
  BY DEF BridgeSwitch, Act
<1> QED
  BY <1>1, <1>2, <1>3, <1>4, <1>5, <1>6, <1>7, <1>8, <1>9, <1>10, <1>11, <1>12, <1>13, <1>14,
     <1>15, <1>16 DEF SystemNext

-------------------------------------------------------------------------------
(* The invariant: the last sight of the trail is the bridge's state ...    *)
Leads(v) ==
  /\ v.thread = session.thread
  /\ v.open = turnId
  /\ v.last = adapter.counter
  /\ v.asked = requests
  /\ v.seen = streamed
  /\ request # 0 => v.ask = request
  /\ adapter.current # 0 /\ turnId = 0 => adapter.current = adapter.counter /\ v.failed

(* ... and the first one what the client shows.                            *)
Shows(v) ==
  /\ Fit(ui, v)
  /\ FitQueue(ui, v)
  /\ shown.request <= v.asked
  /\ shown.busy => shown.disabled

(* Request r has been shown and is no longer.                              *)
Settled(v, r) == r <= v.asked /\ \A j \in DOMAIN ui.queue : ui.queue[j].request # r

(* No request follows another one that the user still has to see answered, *)
(* answers are for requests that were shown, the last request is either    *)
(* still undecided or shown and gone, and in that case its answer is on    *)
(* its way.                                                                *)
NextAsked(vs) ==
  \A i \in 1..Len(evts) :
    evts[i].type = "approval.requested" /\ vs[i - 1].ask # 0 => Settled(vs[0], vs[i - 1].ask)

AnswersSent(v) == \A j \in 1..Len(cmds) : cmds[j].do = "respond" => Settled(v, cmds[j].arg)

Undecided(v, r) == r # 0 /\ ~Settled(v, r) => request = r /\ answer = "none"

AnswerComes(v) ==
  request # 0 /\ answer = "none" /\ Settled(v, request) =>
    \E j \in 1..Len(cmds) : cmds[j].do = "respond" /\ cmds[j].arg = request

Asking(vs) ==
  /\ NextAsked(vs)
  /\ AnswersSent(vs[0])
  /\ Undecided(vs[0], vs[Len(evts)].ask)
  /\ AnswerComes(vs[0])

(* There is one prompt at most between the user and the turn shown, and it *)
(* is the one in the slot; while a turn is shown there is none, and the    *)
(* input is disabled.                                                      *)
Sent == \E i \in 1..Len(cmds) : cmds[i].do = "prompt"

Starting == \E i \in 1..Len(evts) : evts[i].type = "turn.started"

Slotted ==
  /\ \A i \in 1..Len(cmds) : cmds[i].do = "prompt" => cmds[i].arg = ui.slot
  /\ task = "created" => running = ui.slot
  /\ \A i \in 1..Len(evts) : evts[i].type = "turn.started" => evts[i].prompt = ui.slot

Single ==
  /\ \A i, j \in 1..Len(cmds) : cmds[i].do = "prompt" /\ cmds[j].do = "prompt" => i = j
  /\ \A i, j \in 1..Len(evts) :
       evts[i].type = "turn.started" /\ evts[j].type = "turn.started" => i = j
  /\ Sent => ~Live /\ ~Starting
  /\ task = "created" => ~Starting

Blocked(v) ==
  /\ v.open # 0 \/ shown.busy => ~Sent /\ task # "created" /\ ~Starting
  /\ v.open # 0 => shown.disabled

(* Interrupts under way are for the turn that runs, and before any prompt. *)
Aimed ==
  /\ \A j \in 1..Len(cmds) :
       cmds[j].do = "interrupt" /\ Live =>
         cmds[j].arg # 0 /\ cmds[j].arg = turnId /\ cmds[j].how = session.thread
  /\ \A i, j \in 1..Len(cmds) : cmds[i].do = "prompt" /\ cmds[j].do = "interrupt" => j < i

Timely(v) == ~early => Slotted /\ Single /\ Blocked(v) /\ Aimed /\ Told(ui.turns)

Base == BridgeInv /\ ClientTypes /\ LineTypes /\ Misc

Sees(vs) ==
  /\ Trail(vs, evts)
  /\ Leads(vs[Len(evts)])
  /\ Shows(vs[0])
  /\ Asking(vs)
  /\ Timely(vs[0])

SystemInv == Base /\ \E vs : Sees(vs)

-------------------------------------------------------------------------------
(* Steps that send events.                                                 *)

(* The trail grows by what a step sends.                                   *)
Grown(vs, ws) ==
  /\ IsSeq(evts')
  /\ Len(evts') \in Nat /\ Len(evts) \in Nat /\ Len(evts) <= Len(evts')
  /\ \A i \in 1..Len(evts) : evts'[i] = evts[i]
  /\ \A i \in 0..Len(evts) : ws[i] = vs[i]
  /\ Trail(ws, evts')
  /\ Leads(ws[Len(evts)])'

LEMMA RelayNone ==
  ASSUME IsSeq(evts), Relay, out' = <<>>
  PROVE  evts' = evts
<1> DEFINE o == <<>>
           b == [i \in DOMAIN o |-> Lines(o[i])]
<1>1. DOMAIN o = 1..0
  OBVIOUS
<1>2. Carried = FlattenSeq(b)
  BY DEF Carried
<1> HIDE DEF o
<1>3. Spans(b, 0)
  BY <1>1 DEF Spans
<1> HIDE DEF b
<1>4. Carried = <<>>
  BY <1>2, <1>3, FlatNone
<1> QED
  BY <1>4, Piped DEF Relay

(* Of up to three events the second is one that the pipe leaves out.       *)
LEMMA RelaySome ==
  ASSUME IsSeq(evts), Relay, NEW n \in 1..3, NEW o, out' = o, DOMAIN o = 1..n,
         n > 1 => Lines(o[2]) = <<>>
  PROVE  /\ n < 3 => evts' = evts \o Lines(o[1])
         /\ n = 3 => evts' = evts \o (Lines(o[1]) \o Lines(o[3]))
<1> DEFINE b == [i \in DOMAIN o |-> Lines(o[i])]
<1>1. Carried = FlattenSeq(b)
  BY DEF Carried
<1>2. Spans(b, n) /\ \A i \in 1..n : b[i] = Lines(o[i])
  BY DEF Spans
<1> HIDE DEF b
<1>3. \E S : Lines(o[1]) \in Seq(S)
  <2>1. \E x : Lines(o[1]) = <<>> \/ Lines(o[1]) = <<x>>
    BY DEF Lines
  <2>2. PICK x : Lines(o[1]) = <<>> \/ Lines(o[1]) = <<x>>
    BY <2>1
  <2>3. <<>> \in Seq({x}) /\ <<x>> \in Seq({x})
    OBVIOUS
  <2> QED
    BY <2>2, <2>3
<1>4. Lines(o[1]) \o <<>> = Lines(o[1])
  BY <1>3, ConcatEmptySeq
<1>5. evts' = evts \o Carried
  BY DEF Relay
<1>6. CASE n = 1
  <2>1. FlattenSeq(b) = b[1]
    BY <1>2, <1>6, FlatSome
  <2>2. b[1] = Lines(o[1])
    BY <1>2, <1>6
  <2>3. n < 3 /\ n # 3
    BY <1>6
  <2> QED
    BY <1>1, <1>5, <2>1, <2>2, <2>3, Zenon
<1>7. CASE n = 2
  <2>1. FlattenSeq(b) = b[1] \o b[2]
    BY <1>2, <1>7, FlatSome
  <2>2. b[1] = Lines(o[1]) /\ b[2] = <<>>
    BY <1>2, <1>7
  <2>3. n < 3 /\ n # 3
    BY <1>7
  <2> QED
    BY <1>1, <1>4, <1>5, <2>1, <2>2, <2>3, Zenon
<1>8. CASE n = 3
  <2>1. FlattenSeq(b) = (b[1] \o b[2]) \o b[3]
    BY <1>2, <1>8, FlatSome
  <2>2. b[1] = Lines(o[1]) /\ b[2] = <<>> /\ b[3] = Lines(o[3])
    BY <1>2, <1>8
  <2>3. ~(n < 3) /\ n = 3
    BY <1>8
  <2> QED
    BY <1>1, <1>4, <1>5, <2>1, <2>2, <2>3, Zenon
<1> QED
  BY <1>6, <1>7, <1>8

(* A step that sends nothing ...                                           *)
LEMMA GrowNone ==
  ASSUME NEW vs, Trail(vs, evts), IsSeq(evts), evts' = evts, NEW w, w = vs[Len(evts)], Leads(w)'
  PROVE  Grown(vs, vs)
<1>1. Len(evts) \in Nat
  BY SeqShape
<1>2. IsSeq(evts') /\ Trail(vs, evts')
  BY Zenon
<1>3. Leads(vs[Len(evts)])'
  BY Zenon
<1> QED
  BY <1>1, <1>2, <1>3 DEF Grown

(* ... and one that sends an event its last sight allows.                  *)
LEMMA GrowOne ==
  ASSUME NEW vs, Trail(vs, evts), IsSeq(evts), NEW w, w = vs[Len(evts)], NEW e,
         evts' = Append(evts, e), Legal(w, e), NEW m, m = Move(w, e), Leads(m)'
  PROVE  \E ws : /\ Grown(vs, ws)
                 /\ Len(evts') = Len(evts) + 1 /\ evts'[Len(evts) + 1] = e
                 /\ ws[Len(evts) + 1] = m
<1>1. PICK ws : /\ Trail(ws, Append(evts, e))
                /\ \A i \in 0..Len(evts) : ws[i] = vs[i]
                /\ ws[Len(evts) + 1] = m
  BY TrailGrows
<1>2. /\ IsSeq(Append(evts, e)) /\ Len(Append(evts, e)) = Len(evts) + 1
      /\ Append(evts, e)[Len(evts) + 1] = e
      /\ \A i \in 1..Len(evts) : Append(evts, e)[i] = evts[i]
      /\ Len(evts) \in Nat
  BY Pushed, SeqShape
<1>3. /\ IsSeq(evts') /\ Len(evts') = Len(evts) + 1 /\ evts'[Len(evts) + 1] = e
      /\ \A i \in 1..Len(evts) : evts'[i] = evts[i]
      /\ Trail(ws, evts')
  BY <1>1, <1>2, Zenon
<1>4. Leads(ws[Len(evts)])'
  <2>1. ws[Len(evts')] = m
    BY <1>1, <1>3
  <2> QED
    BY <2>1, Zenon
<1> QED
  BY <1>1, <1>2, <1>3, <1>4 DEF Grown

(* ... or two.                                                             *)
GrownTwo(vs, ws, e, f, k) ==
  /\ Grown(vs, ws)
  /\ \A i \in 1..Len(evts') : i > Len(evts) => evts'[i] \in {e, f}
  /\ ws[Len(evts')] = k

LEMMA GrowTwo ==
  ASSUME NEW vs, Trail(vs, evts), IsSeq(evts), NEW w, w = vs[Len(evts)], NEW e, NEW f,
         evts' = Append(Append(evts, e), f), Legal(w, e), NEW m, m = Move(w, e), Legal(m, f),
         NEW k, k = Move(m, f), Leads(k)'
  PROVE  \E ws : GrownTwo(vs, ws, e, f, k)
<1> DEFINE n == Len(evts)
           es == Append(evts, e)
           fs == Append(es, f)
<1>1. /\ IsSeq(es) /\ Len(es) = n + 1 /\ es[n + 1] = e /\ n \in Nat
      /\ \A i \in 1..n : es[i] = evts[i]
  BY Pushed, SeqShape
<1>2. PICK xs : Trail(xs, es) /\ (\A i \in 0..n : xs[i] = vs[i]) /\ xs[n + 1] = m
  BY TrailGrows
<1> HIDE DEF es
<1>3. /\ IsSeq(fs) /\ Len(fs) = n + 2 /\ fs[n + 2] = f
      /\ \A i \in 1..(n + 1) : fs[i] = es[i]
  BY <1>1, Pushed
<1>4. PICK ws : Trail(ws, fs) /\ (\A i \in 0..(n + 1) : ws[i] = xs[i]) /\ ws[n + 2] = k
  <2>1. xs[Len(es)] = m /\ Legal(xs[Len(es)], f) /\ Move(xs[Len(es)], f) = k
    BY <1>1, <1>2
  <2>2. PICK ws : /\ Trail(ws, Append(es, f))
                  /\ \A i \in 0..Len(es) : ws[i] = xs[i]
                  /\ ws[Len(es) + 1] = Move(xs[Len(es)], f)
    <3>1. IsSeq(es) /\ Trail(xs, es) /\ Legal(xs[Len(es)], f)
      BY <1>1, <1>2, <2>1
    <3> QED
      BY <3>1, TrailGrows
  <2>3. Len(es) + 1 = n + 2
    BY <1>1
  <2> QED
    BY <1>1, <2>1, <2>2, <2>3
<1> HIDE DEF fs
<1>5. evts' = fs
  BY DEF es, fs
<1>6. /\ IsSeq(evts') /\ Len(evts') = n + 2 /\ Trail(ws, evts') /\ evts'[n + 2] = f
      /\ evts'[n + 1] = e
  <2>1. n + 1 \in 1..(n + 1)
    BY <1>1
  <2> QED
    BY <1>1, <1>3, <1>4, <1>5, <2>1, Zenon
<1>7. /\ \A i \in 1..n : evts'[i] = evts[i]
      /\ \A i \in 0..n : ws[i] = vs[i]
  <2>1. ASSUME NEW i \in 1..n PROVE evts'[i] = evts[i]
    <3>1. i \in 1..(n + 1)
      BY <1>1
    <3> QED
      BY <1>1, <1>3, <1>5, <3>1
  <2>2. ASSUME NEW i \in 0..n PROVE ws[i] = vs[i]
    <3>1. i \in 0..(n + 1)
      BY <1>1
    <3> QED
      BY <1>2, <1>4, <3>1
  <2> QED
    BY <2>1, <2>2
<1>8. Leads(ws[n])'
  <2>1. ws[Len(evts')] = k
    BY <1>4, <1>6
  <2> QED
    BY <2>1, Zenon
<1>9. ASSUME NEW i \in 1..Len(evts'), i > n PROVE evts'[i] \in {e, f}
  <2>1. i = n + 1 \/ i = n + 2
    BY <1>1, <1>6, <1>9
  <2> QED
    BY <1>6, <2>1
<1>10. ws[Len(evts')] = k
  BY <1>4, <1>6
<1> QED
  BY <1>1, <1>6, <1>7, <1>8, <1>9, <1>10 DEF Grown, GrownTwo

-------------------------------------------------------------------------------
(* Steps of the bridge that ask nothing and take no answer ...             *)

Relays(vs, ws) ==
  /\ Grown(vs, ws)
  /\ UNCHANGED <<ui, shown, typed, sends, early>>
  /\ streamed' \in 0..MaxDeltas
  /\ cmds' = cmds \/ (cmds # <<>> /\ cmds' = Tail(cmds) /\ Head(cmds).do # "respond")
  /\ \A i \in 1..Len(evts') : i > Len(evts) => evts'[i].type # "approval.requested"
  /\ UNCHANGED <<request, answer>>
     \/ (request' = 0 /\ (answer # "none" \/ ws[Len(evts')].ask = 0))
  /\ ws[Len(evts')].ask \in {0, vs[Len(evts)].ask}

(* ... and those that start no turn and take no prompt.                    *)
Steady(vs, ws) ==
  /\ Grown(vs, ws)
  /\ UNCHANGED <<ui, shown, running, early>>
  /\ cmds' = cmds \/ (cmds # <<>> /\ cmds' = Tail(cmds))
  /\ \A i \in 1..Len(evts') : i > Len(evts) => evts'[i].type # "turn.started"
  /\ Live' => Live /\ turnId' = turnId /\ session'.thread = session.thread
  /\ task' = "created" => task = "created"

Tells(vs, ws) == Relays(vs, ws) /\ Steady(vs, ws)

(* The lines left after at most one was read.                              *)
LEMMA LinesLeft ==
  ASSUME IsSeq(cmds), cmds' = cmds \/ (cmds # <<>> /\ cmds' = Tail(cmds))
  PROVE  /\ IsSeq(cmds') /\ Len(cmds') <= Len(cmds) /\ Len(cmds') \in Nat /\ Len(cmds) \in Nat
         /\ \E d \in {0, 1} :
              /\ \A j \in 1..Len(cmds') : j + d \in 1..Len(cmds) /\ cmds'[j] = cmds[j + d]
              /\ \A j \in 1..Len(cmds) :
                   \/ j - d \in 1..Len(cmds') /\ cmds'[j - d] = cmds[j]
                   \/ cmds' # cmds /\ cmds[j] = Head(cmds)
<1>1. Len(cmds) \in Nat
  BY SeqShape
<1>2. CASE cmds' = cmds
  <2>1. \A j \in 1..Len(cmds) : j + 0 = j /\ j - 0 = j
    BY <1>1
  <2> QED
    BY <1>1, <1>2, <2>1
<1>3. CASE cmds # <<>> /\ cmds' = Tail(cmds)
  <2> DEFINE t == Tail(cmds)
  <2>1. /\ IsSeq(t) /\ Len(t) = Len(cmds) - 1 /\ Head(cmds) = cmds[1] /\ Len(cmds) \in Nat \ {0}
        /\ \A j \in 1..(Len(cmds) - 1) : t[j] = cmds[j + 1]
    BY <1>3, Taken
  <2>2. \A j \in 1..Len(t) : j + 1 \in 1..Len(cmds) /\ t[j] = cmds[j + 1]
    BY <2>1
  <2>3. ASSUME NEW j \in 1..Len(cmds)
        PROVE  \/ j - 1 \in 1..Len(t) /\ t[j - 1] = cmds[j]
               \/ t # cmds /\ cmds[j] = Head(cmds)
    <3>1. CASE j = 1
      <4>1. t # cmds
        <5>1. PICK n \in Nat \ {0} : n = Len(cmds) /\ Len(t) = n - 1
          BY <2>1
        <5>2. n - 1 # n
          OBVIOUS
        <5> QED
          BY <5>1, <5>2
      <4> QED
        BY <2>1, <3>1, <4>1
    <3>2. CASE j # 1
      <4>1. j - 1 \in 1..(Len(cmds) - 1) /\ (j - 1) + 1 = j
        BY <1>1, <3>2
      <4> QED
        BY <2>1, <4>1
    <3> QED
      BY <3>1, <3>2
  <2> HIDE DEF t
  <2>4. cmds' = t
    BY <1>3 DEF t
  <2> QED
    BY <1>1, <2>1, <2>2, <2>3, <2>4
<1> QED
  BY <1>2, <1>3

LEMMA RelaysTypes ==
  ASSUME Base, NEW vs, NEW ws, Relays(vs, ws), running' \in Prompts \union {0}
  PROVE  ClientTypes' /\ LineTypes'
<1>1. /\ IsSeq(cmds') /\ Len(cmds') <= Len(cmds) /\ Len(cmds') \in Nat /\ Len(cmds) \in Nat
      /\ \A j \in 1..Len(cmds') : \E k \in 1..Len(cmds) : cmds'[j] = cmds[k]
  BY LinesLeft DEF Base, ClientTypes, Relays
<1>2. /\ ui' = ui /\ shown' = shown /\ typed' = typed /\ sends' = sends /\ early' = early
  BY DEF Relays
<1>3. IsSeq(evts') /\ streamed' \in 0..MaxDeltas
  BY DEF Relays, Grown
<1>4. ClientTypes'
  BY <1>1, <1>2, <1>3, ClientAssumption DEF Base, ClientTypes
<1>5. LineTypes'
  BY <1>1, <1>2 DEF Base, LineTypes
<1> QED
  BY <1>4, <1>5

LEMMA RelaysAsking ==
  ASSUME Base, NEW vs, NEW ws, Relays(vs, ws), Sees(vs)
  PROVE  Asking(ws)'
<1> DEFINE n == Len(evts)
<1>1. /\ n \in Nat /\ Len(evts') \in Nat /\ n <= Len(evts')
      /\ \A i \in 1..n : evts'[i] = evts[i]
      /\ \A i \in 0..n : ws[i] = vs[i]
  BY DEF Relays, Grown
<1>2. PICK d \in {0, 1} :
        /\ \A j \in 1..Len(cmds') : j + d \in 1..Len(cmds) /\ cmds'[j] = cmds[j + d]
        /\ \A j \in 1..Len(cmds) :
             \/ j - d \in 1..Len(cmds') /\ cmds'[j - d] = cmds[j]
             \/ cmds' # cmds /\ cmds[j] = Head(cmds)
  BY LinesLeft DEF Base, ClientTypes, Relays
<1>3. ui' = ui /\ vs[0] = ws[0] /\ \A r : Settled(ws[0], r)' <=> Settled(vs[0], r)
  BY <1>1 DEF Relays, Settled
<1>4. Asking(vs)
  BY DEF Sees
<1>5. NextAsked(ws)'
  <2> SUFFICES ASSUME NEW i \in 1..Len(evts'), evts'[i].type = "approval.requested",
                      ws[i - 1].ask # 0
               PROVE  Settled(ws[0], ws[i - 1].ask)'
    BY DEF NextAsked
  <2>1. i \in 1..n
    BY <1>1 DEF Relays
  <2>2. evts[i] = evts'[i] /\ ws[i - 1] = vs[i - 1]
    BY <1>1, <2>1
  <2>3. Settled(vs[0], vs[i - 1].ask)
    BY <1>4, <2>1, <2>2 DEF Asking, NextAsked
  <2> QED
    BY <1>3, <2>2, <2>3
<1>6. AnswersSent(ws[0])'
  <2> SUFFICES ASSUME NEW j \in 1..Len(cmds'), cmds'[j].do = "respond",
                      NEW r, r = cmds'[j].arg
               PROVE  Settled(ws[0], r)'
    BY DEF AnswersSent
  <2>1. j + d \in 1..Len(cmds) /\ cmds'[j] = cmds[j + d]
    BY <1>2
  <2>2. Settled(vs[0], cmds[j + d].arg)
    BY <1>4, <2>1 DEF Asking, AnswersSent
  <2>3. Settled(vs[0], r)
    BY <2>1, <2>2
  <2> QED
    BY <1>3, <2>3
<1>7. Undecided(ws[0], ws[n].ask)'
  <2> SUFFICES ASSUME NEW r, r = ws[Len(evts')].ask
               PROVE  Undecided(ws[0], r)'
    BY Zenon
  <2>1. r # 0 /\ ~Settled(ws[0], r)' => request' = r /\ answer' = "none"
    <3> SUFFICES ASSUME r # 0, ~Settled(ws[0], r)' PROVE request' = r /\ answer' = "none"
      OBVIOUS
    <3>1. r = vs[n].ask /\ ~Settled(vs[0], r)
      BY <1>3 DEF Relays
    <3>2. request = r /\ answer = "none"
      BY <1>4, <3>1 DEF Asking, Undecided
    <3> QED
      BY <3>2 DEF Relays
  <2> QED
    BY <2>1 DEF Undecided
<1>8. AnswerComes(ws[0])'
  <2> SUFFICES ASSUME request' # 0, answer' = "none", Settled(ws[0], request)'
               PROVE  \E j \in 1..Len(cmds') : cmds'[j].do = "respond" /\ cmds'[j].arg = request'
    BY DEF AnswerComes
  <2>1. request' = request /\ answer' = answer
    BY DEF Relays
  <2>2. Settled(vs[0], request)
    BY <1>3, <2>1 DEF Settled
  <2>3. PICK j \in 1..Len(cmds) : cmds[j].do = "respond" /\ cmds[j].arg = request
    BY <1>4, <2>1, <2>2 DEF Asking, AnswerComes
  <2>4. j - d \in 1..Len(cmds') /\ cmds'[j - d] = cmds[j]
    BY <1>2, <2>3 DEF Relays
  <2> QED
    BY <2>1, <2>3, <2>4
<1> QED
  BY <1>5, <1>6, <1>7, <1>8 DEF Asking

LEMMA SteadyTimely ==
  ASSUME Base, NEW vs, NEW ws, Steady(vs, ws), Sees(vs)
  PROVE  Timely(ws[0])'
<1> DEFINE n == Len(evts)
<1>1. /\ n \in Nat /\ Len(evts') \in Nat /\ n <= Len(evts')
      /\ \A i \in 1..n : evts'[i] = evts[i]
      /\ ws[0] = vs[0]
  BY DEF Steady, Grown
<1>2. PICK d \in {0, 1} :
        \A j \in 1..Len(cmds') : j + d \in 1..Len(cmds) /\ cmds'[j] = cmds[j + d]
  BY LinesLeft DEF Base, ClientTypes, Steady
<1>3. ui' = ui /\ shown' = shown /\ running' = running /\ early' = early
  BY DEF Steady
<1>4. \A i \in 1..Len(evts') :
        evts'[i].type = "turn.started" => i \in 1..n /\ evts'[i] = evts[i]
  BY <1>1 DEF Steady
<1>5. (Sent' => Sent) /\ (Starting' => Starting) /\ (Live' => Live)
      /\ (task' = "created" => task = "created")
  BY <1>2, <1>4 DEF Sent, Starting, Steady
<1> SUFFICES ASSUME ~early
             PROVE  Slotted' /\ Single' /\ Blocked(ws[0])' /\ Aimed' /\ Told(ui.turns)'
  BY <1>3 DEF Timely
<1>6. Slotted /\ Single /\ Blocked(vs[0]) /\ Aimed /\ Told(ui.turns)
  BY DEF Sees, Timely
<1>7. Slotted'
  BY <1>2, <1>3, <1>4, <1>5, <1>6 DEF Slotted
<1>8. Single'
  <2>1. ASSUME NEW i \in 1..Len(cmds'), NEW j \in 1..Len(cmds'),
               cmds'[i].do = "prompt", cmds'[j].do = "prompt"
        PROVE  i = j
    <3>1. i + d = j + d
      BY <1>2, <1>6, <2>1 DEF Single
    <3> QED
      BY <3>1
  <2>2. ASSUME NEW i \in 1..Len(evts'), NEW j \in 1..Len(evts'),
               evts'[i].type = "turn.started", evts'[j].type = "turn.started"
        PROVE  i = j
    BY <1>4, <1>6, <2>2 DEF Single
  <2> QED
    BY <1>5, <1>6, <2>1, <2>2 DEF Single
<1>9. Blocked(ws[0])'
  BY <1>1, <1>3, <1>5, <1>6 DEF Blocked
<1>10. Aimed'
  <2>1. ASSUME NEW j \in 1..Len(cmds'), cmds'[j].do = "interrupt", Live'
        PROVE  cmds'[j].arg # 0 /\ cmds'[j].arg = turnId' /\ cmds'[j].how = session'.thread
    <3>1. Live /\ turnId' = turnId /\ session'.thread = session.thread
      BY <2>1 DEF Steady
    <3> QED
      BY <1>2, <1>6, <2>1, <3>1 DEF Aimed
  <2>2. ASSUME NEW i \in 1..Len(cmds'), NEW j \in 1..Len(cmds'),
               cmds'[i].do = "prompt", cmds'[j].do = "interrupt"
        PROVE  j < i
    <3>1. j + d < i + d
      BY <1>2, <1>6, <2>2 DEF Aimed
    <3> QED
      BY <3>1
  <2> QED
    BY <2>1, <2>2 DEF Aimed
<1> QED
  BY <1>3, <1>6, <1>7, <1>8, <1>9, <1>10 DEF Told

(* Both kinds keep the invariant.                                          *)
LEMMA RelaysKeeps ==
  ASSUME Base, NEW vs, NEW ws, Relays(vs, ws), Sees(vs), BridgeInv', Misc', Timely(ws[0])',
         running' \in Prompts \union {0}
  PROVE  SystemInv'
<1>1. Trail(ws, evts)' /\ Leads(ws[Len(evts)])' /\ ws[0] = vs[0] /\ ui' = ui /\ shown' = shown
  BY DEF Relays, Grown
<1>2. Shows(ws[0])'
  BY <1>1 DEF Sees, Shows
<1>3. Sees(ws)'
  BY <1>1, <1>2, RelaysAsking DEF Sees
<1> QED
  BY <1>3, RelaysTypes DEF SystemInv, Base

LEMMA TellsKeeps ==
  ASSUME Base, NEW vs, NEW ws, Tells(vs, ws), Sees(vs), BridgeInv', Misc'
  PROVE  SystemInv' /\ ui' = ui
<1>1. Timely(ws[0])' /\ ui' = ui
  BY SteadyTimely DEF Tells, Steady
<1>2. running' \in Prompts \union {0}
  BY DEF Tells, Steady, Base, ClientTypes
<1> QED
  BY <1>1, <1>2, RelaysKeeps DEF Tells

(* Those that send nothing that matters ...                                *)
Dropped(e) ==
  e.type \in {"session.status", "session.error", "slash.blocked", "slash.unknown"}

LEMMA QuietRelay ==
  ASSUME IsSeq(evts), owed \in BOOLEAN, Relay, Silent \/ \E e : Dropped(e) /\ Emit(<<e>>)
  PROVE  evts' = evts
<1>1. CASE Silent
  <2>1. out' = <<>>
    BY <1>1, SilentEffect
  <2> QED
    BY <2>1, RelayNone
<1>2. CASE \E e : Dropped(e) /\ Emit(<<e>>)
  <2>1. PICK e : Dropped(e) /\ Emit(<<e>>)
    BY <1>2
  <2> DEFINE o == <<e>>
  <2>2. out' = o /\ DOMAIN o = 1..1 /\ o[1] = e
    BY <2>1, EmitOne
  <2>3. Lines(e) = <<>>
    BY <2>1 DEF Dropped, Lines
  <2> HIDE DEF o
  <2>4. evts' = evts \o Lines(o[1])
    BY <2>2, RelaySome
  <2> QED
    BY <2>2, <2>3, <2>4, Piped
<1> QED
  BY <1>1, <1>2

Passes ==
  /\ UNCHANGED <<ui, shown, typed, sends, streamed, running, early>>
  /\ cmds' = cmds \/ (cmds # <<>> /\ cmds' = Tail(cmds) /\ Head(cmds).do # "respond")

LEMMA QuietTells ==
  ASSUME Base, NEW vs, Sees(vs), evts' = evts, Passes,
         UNCHANGED <<turnId, adapter, requests>>, session'.thread = session.thread,
         UNCHANGED <<request, answer>> \/ (request' = 0 /\ answer # "none"),
         Live' => Live, task' = "created" => task = "created"
  PROVE  Tells(vs, vs)
<1>1. PICK w : w = vs[Len(evts)]
  OBVIOUS
<1>2. Leads(w)'
  BY <1>1 DEF Sees, Leads, Passes
<1>3. Grown(vs, vs)
  BY <1>1, <1>2, GrowNone DEF Base, ClientTypes, Sees
<1>4. streamed' \in 0..MaxDeltas
  BY DEF Passes, Base, ClientTypes
<1>5. \A i \in 1..Len(evts') : ~(i > Len(evts))
  <2>1. Len(evts) \in Nat
    BY SeqShape DEF Base, ClientTypes
  <2> QED
    BY <2>1
<1>6. vs[Len(evts')].ask \in {0, vs[Len(evts)].ask}
  OBVIOUS
<1> QED
  BY <1>3, <1>4, <1>5, <1>6 DEF Tells, Relays, Steady, Passes

(* ... and those that send one event.                                      *)
LEMMA TellOne ==
  ASSUME Base, NEW vs, Sees(vs), NEW w, w = vs[Len(evts)], NEW e, evts' = Append(evts, e),
         Legal(w, e), NEW m, m = Move(w, e), Leads(m)',
         e.type \notin {"turn.started", "approval.requested"},
         UNCHANGED <<ui, shown, typed, sends, running, early>>, streamed' \in 0..MaxDeltas,
         cmds' = cmds \/ (cmds # <<>> /\ cmds' = Tail(cmds) /\ Head(cmds).do # "respond"),
         UNCHANGED <<request, answer>> \/ (request' = 0 /\ m.ask = 0),
         Live' => Live /\ turnId' = turnId /\ session'.thread = session.thread,
         task' = "created" => task = "created"
  PROVE  \E ws : Tells(vs, ws)
<1>1. PICK ws : /\ Grown(vs, ws)
                /\ Len(evts') = Len(evts) + 1 /\ evts'[Len(evts) + 1] = e
                /\ ws[Len(evts) + 1] = m
  BY GrowOne DEF Base, ClientTypes, Sees
<1>2. Len(evts) \in Nat
  BY SeqShape DEF Base, ClientTypes
<1>3. \A i \in 1..Len(evts') : i > Len(evts) => i = Len(evts) + 1
  BY <1>1, <1>2
<1>4. m.ask \in {0, w.ask}
  BY DEF Move
<1>5. ws[Len(evts')] = m
  BY <1>1
<1> QED
  BY <1>1, <1>3, <1>4, <1>5 DEF Tells, Relays, Steady

LEMMA LastSight ==
  ASSUME Base, NEW vs, Sees(vs)
  PROVE  /\ vs[Len(evts)] \in Sight /\ Fields(vs[Len(evts)]) /\ Leads(vs[Len(evts)])
         /\ vs[0] \in Sight /\ Fields(vs[0]) /\ Len(evts) \in Nat
<1>1. Len(evts) \in Nat
  BY SeqShape DEF Base, ClientTypes
<1> QED
  BY <1>1, SightFields DEF Sees, Trail

(* The bridge takes another session and shows its turns.                   *)
LEMMA ActivateTells ==
  ASSUME Base, NEW vs, Sees(vs), ~Live, NEW t \in Threads, t # session.thread, NEW left,
         Activate(t, left, Hydrate(t)), Relay, Passes,
         UNCHANGED <<ledger, turnVars>>
  PROVE  \E ws : Tells(vs, ws)
<1>1. PICK w : w = vs[Len(evts)]
  OBVIOUS
<1>2. w \in Sight /\ Fields(w) /\ Leads(w)
  BY <1>1, LastSight
<1>3. /\ session.thread \in Threads /\ turnId = 0 /\ ledger \in Ledgers /\ IsSeq(evts)
      /\ streamed \in 0..MaxDeltas
  BY BridgeFacts DEF Base, Live, BridgeInv, CoreInv, CoreTypes, SessionTypes, ClientTypes
<1>4. w.thread = session.thread /\ w.open = 0 /\ w.ask = 0 /\ w.asked = requests
      /\ w.seen = streamed
  BY <1>2, <1>3 DEF Fields, Leads
<1>5. /\ session' = Restored(t) /\ adapter' = NewAdapter(t) /\ request' = 0
      /\ requests' = requests
      /\ out' = <<Event("thread.started", t), Event("session.status", t)>> \o Hydrate(t)
  BY DEF Activate, Take, NoRequest, Emit
<1>6. /\ session'.thread = t /\ adapter'.counter = 0 /\ adapter'.current = 0
      /\ turnId' = 0 /\ task' = task /\ streamed' = streamed /\ ~Live'
  BY <1>3, <1>5, RestoredEffect DEF NewAdapter, turnVars, Passes, Live
<1>7. PICK e : e = Event("thread.started", t)
  OBVIOUS
<1>8. PICK s : s = Event("session.status", t)
  OBVIOUS
<1>9. e.type = "thread.started" /\ e.thread = t /\ ~Terminal(e) /\ s.type = "session.status"
  BY <1>7, <1>8 DEF Event, Terminal
<1>10. Lines(e) = <<e>> /\ Lines(s) = <<>>
  BY <1>9 DEF Lines
<1>11. Legal(w, e)
  BY <1>4, <1>9 DEF Legal, Types
<1>12. PICK m : m = Move(w, e)
  OBVIOUS
<1>13. m \in Sight /\ Moved(w, e, m)
  BY <1>2, <1>11, <1>12, MoveSound, MoveFields
<1>14. /\ m.thread = t /\ m.open = 0 /\ m.last = 0 /\ m.fresh = TRUE /\ m.ask = 0
       /\ m.asked = requests /\ m.seen = streamed
  BY <1>4, <1>9, <1>13 DEF Moved
<1>15. CASE ~Found(t)
  <2> DEFINE o == <<e, s>>
  <2>1. out' = o
    <3>1. Hydrate(t) = <<>>
      BY <1>15 DEF Hydrate
    <3> QED
      BY <1>5, <1>7, <1>8, <3>1
  <2>2. DOMAIN o = 1..2 /\ o[1] = e /\ o[2] = s
    OBVIOUS
  <2> HIDE DEF o
  <2>3. evts' = evts \o Lines(o[1])
    BY <1>3, <1>10, <2>1, <2>2, RelaySome
  <2>4. evts' = Append(evts, e)
    BY <1>3, <1>10, <2>2, <2>3, Piped
  <2>5. Leads(m)'
    BY <1>5, <1>6, <1>14 DEF Leads
  <2>6. e.type \notin {"turn.started", "approval.requested"}
    BY <1>9
  <2>7. Live' => Live /\ turnId' = turnId /\ session'.thread = session.thread
    BY <1>6
  <2>8. streamed' \in 0..MaxDeltas /\ (task' = "created" => task = "created")
    BY <1>3, <1>6
  <2> QED
    BY <1>1, <1>5, <1>11, <1>12, <1>14, <2>4, <2>5, <2>6, <2>7, <2>8, TellOne DEF Passes
<1>16. CASE Found(t)
  <2>1. PICK h : h = [type |-> "session.hydrated", thread |-> t, turn |-> InputsIn(ledger[t])]
    OBVIOUS
  <2>2. h.type = "session.hydrated" /\ h.thread = t /\ h.turn = InputsIn(ledger[t])
        /\ ~Terminal(h)
    BY <2>1 DEF Terminal
  <2>3. Lines(h) = <<h>>
    BY <2>2 DEF Lines
  <2>4. h.turn \in 0..MaxInputs
    <3>1. InputsIn(ledger[t]) \in Nat /\ InputsIn(ledger[t]) <= inputs
          /\ inputs \in 0..MaxInputs
      BY <1>3, Counts DEF Base, BridgeInv, CoreInv, CoreTypes, NumberTypes, PromptsCounted, Waiting
    <3> QED
      BY <2>2, <3>1, BridgeAssumption
  <2>5. Legal(m, h)
    BY <1>14, <2>2, <2>4 DEF Legal, Types, Threads
  <2>6. PICK k : k = Move(m, h)
    OBVIOUS
  <2>7. Moved(m, h, k)
    BY <2>6, MoveFields
  <2>8. /\ k.thread = t /\ k.open = 0 /\ k.last = 0 /\ k.ask = 0
        /\ k.asked = requests /\ k.seen = streamed
    BY <1>14, <2>2, <2>7 DEF Moved
  <2>9. Leads(k)'
    BY <1>5, <1>6, <2>8 DEF Leads
  <2> DEFINE o == <<e, s, h>>
  <2>10. out' = o
    <3>1. Hydrate(t) = <<h>>
      BY <1>16, <2>1 DEF Hydrate
    <3>2. <<e, s>> \o <<h>> = <<e, s, h>>
      BY Joined
    <3>3. out' = <<e, s>> \o <<h>>
      BY <1>5, <1>7, <1>8, <3>1, Zenon
    <3> QED
      BY <3>2, <3>3, Zenon
  <2>11. DOMAIN o = 1..3 /\ o[1] = e /\ o[2] = s /\ o[3] = h
    OBVIOUS
  <2> HIDE DEF o
  <2>12. evts' = evts \o (Lines(o[1]) \o Lines(o[3]))
    <3>1. Lines(o[2]) = <<>> /\ 3 \in 1..3 /\ IsSeq(evts) /\ Relay
      BY <1>3, <1>10, <2>11
    <3> QED
      BY <2>10, <2>11, <3>1, RelaySome
  <2>13. evts' = Append(Append(evts, e), h)
    <3>1. Lines(o[1]) \o Lines(o[3]) = <<e, h>>
      BY <1>10, <2>3, <2>11, Joined, Zenon
    <3> QED
      BY <1>3, <2>12, <3>1, Piped
  <2>14. PICK ws : GrownTwo(vs, ws, e, h, k)
    <3>1. Trail(vs, evts) /\ IsSeq(evts)
      BY <1>3 DEF Sees
    <3> QED
      BY <1>1, <1>11, <1>12, <2>5, <2>6, <2>9, <2>13, <3>1, GrowTwo
  <2>15. streamed' \in 0..MaxDeltas /\ (task' = "created" => task = "created") /\ ~Live'
    BY <1>3, <1>6
  <2> QED
    BY <1>5, <1>9, <2>2, <2>8, <2>14, <2>15 DEF Tells, Relays, Steady, Passes, GrownTwo
<1> QED
  BY <1>15, <1>16

LEMMA SwitchTells ==
  ASSUME Base, NEW vs, Sees(vs), ~Live, NEW t \in Threads, t # session.thread, SwitchTo(t),
         Relay, Passes, UNCHANGED turnVars
  PROVE  \E ws : Tells(vs, ws)
<1>1. /\ turnId' = turnId /\ task' = task /\ (Live' => Live) /\ IsSeq(evts) /\ owed \in BOOLEAN
  BY BridgeFacts DEF turnVars, Live, Base, ClientTypes
<1>2. CASE Activate(t, session, Hydrate(t)) /\ UNCHANGED ledger
  BY <1>2, ActivateTells
<1>3. CASE Silent /\ UNCHANGED <<sessions, approvals, adapter>>
  <2>1. evts' = evts
    BY <1>1, <1>3, QuietRelay
  <2>2. UNCHANGED <<adapter, requests, request, answer, session>>
    BY <1>3 DEF sessions, approvals
  <2> QED
    BY <1>1, <2>1, <2>2, QuietTells
<1>4. CASE Refuse /\ UNCHANGED <<sessions, approvals, adapter>>
  <2>1. evts' = evts
    <3>1. Dropped(Event("session.error", session.thread))
      BY DEF Dropped, Event
    <3> QED
      BY <1>1, <1>4, <3>1, QuietRelay DEF Refuse
  <2>2. UNCHANGED <<adapter, requests, request, answer, session>>
    BY <1>4 DEF sessions, approvals
  <2> QED
    BY <1>1, <2>1, <2>2, QuietTells
<1> QED
  BY <1>2, <1>3, <1>4 DEF SwitchTo

(* Steps of the bridge that leave the client as it is, one by one.         *)
LEMMA OneRelay ==
  ASSUME IsSeq(evts), Relay, NEW e, out' = <<e>>, NEW l, Lines(e) = <<l>>
  PROVE  evts' = Append(evts, l)
<1> DEFINE o == <<e>>
<1>1. out' = o /\ DOMAIN o = 1..1 /\ o[1] = e
  OBVIOUS
<1> HIDE DEF o
<1>2. evts' = evts \o Lines(o[1])
  <2>1. 1 \in 1..3 /\ ~(1 > 1) /\ 1 < 3
    OBVIOUS
  <2> QED
    BY <1>1, <2>1, RelaySome
<1>3. Lines(o[1]) = <<l>>
  BY <1>1, Zenon
<1> QED
  BY <1>2, <1>3, Piped

LEMMA QuietStepTells ==
  ASSUME Base, NEW vs, Sees(vs), Passes, Silent \/ \E e : Dropped(e) /\ Emit(<<e>>), Relay,
         UNCHANGED <<turnId, adapter, requests>>, session'.thread = session.thread,
         UNCHANGED <<request, answer>> \/ (request' = 0 /\ answer # "none"),
         Live' => Live, task' = "created" => task = "created"
  PROVE  \E ws : Tells(vs, ws)
<1>1. IsSeq(evts) /\ owed \in BOOLEAN
  BY BridgeFacts DEF Base, ClientTypes
<1>2. evts' = evts
  BY <1>1, QuietRelay
<1> QED
  BY <1>2, QuietTells

LEMMA ListTells ==
  ASSUME Base, NEW vs, Sees(vs), Passes, Relay, UNCHANGED loop, QuietCommand,
         Emit(<<[type |-> "session.listed", thread |-> session.thread, turn |-> 0,
                 sessions |-> Listing]>>)
  PROVE  \E ws : Tells(vs, ws)
<1>1. PICK e : e = [type |-> "session.listed", thread |-> session.thread, turn |-> 0,
                    sessions |-> Listing]
  OBVIOUS
<1>2. /\ e.type = "session.listed" /\ e.thread = session.thread /\ e.sessions = Listing
      /\ ~Terminal(e)
  BY <1>1 DEF Terminal
<1>3. Lines(e) = <<e>>
  BY <1>2 DEF Lines
<1>4. IsSeq(evts) /\ session.thread \in Threads /\ streamed \in 0..MaxDeltas
  BY BridgeFacts DEF Base, ClientTypes
<1>5. evts' = Append(evts, e)
  <2>1. out' = <<e>>
    BY <1>1 DEF Emit
  <2> QED
    BY <1>3, <1>4, <2>1, OneRelay
<1>6. PICK w : w = vs[Len(evts)]
  OBVIOUS
<1>7. w \in Sight /\ Leads(w)
  BY <1>6, LastSight
<1>8. {s.thread : s \in Listing} \subseteq Threads
  BY DEF Listing, Summary
<1>9. Legal(w, e)
  BY <1>2, <1>4, <1>7, <1>8 DEF Legal, Types, Leads, Threads
<1>10. PICK m : m = Move(w, e)
  OBVIOUS
<1>11. Moved(w, e, m)
  BY <1>10, MoveFields
<1>12. UNCHANGED <<session, turnId, adapter, requests, request, answer, streamed, task>>
  BY DEF QuietCommand, sessions, turnVars, approvals, Passes
<1>13. Leads(m)'
  BY <1>2, <1>7, <1>11, <1>12 DEF Leads, Moved
<1>14. (Live' => Live) /\ e.type \notin {"turn.started", "approval.requested"}
  BY <1>2, <1>12 DEF Live
<1> QED
  BY <1>4, <1>5, <1>6, <1>9, <1>10, <1>12, <1>13, <1>14, TellOne DEF Passes

(* A line that is not a prompt nor an answer.                              *)
LEMMA LineTells ==
  ASSUME Base, NEW vs, Sees(vs), Reading, cmds # <<>>, cmds' = Tail(cmds),
         NEW c, c = Head(cmds), c.do \notin {"prompt", "respond"}, Obeyed(c), Relay
  PROVE  \E ws : Tells(vs, ws)
<1>1. UNCHANGED running
  BY DEF Obeyed
<1>2. Passes
  BY <1>1 DEF Passes, Relay, client, bounds
<1> DEFINE Same == UNCHANGED <<turnId, adapter, requests, request, answer, session, task>>
<1>3. ASSUME Same, Silent \/ \E e : Dropped(e) /\ Emit(<<e>>)
      PROVE  \E ws : Tells(vs, ws)
  <2>1. (Live' => Live) /\ (task' = "created" => task = "created")
        /\ session'.thread = session.thread
    BY <1>3 DEF Live
  <2> QED
    BY <1>2, <1>3, <2>1, QuietStepTells
<1>4. CASE c.do = "new"
  <2>1. SlashNew
    BY <1>4 DEF Obeyed
  <2>2. CASE Live
    <3>1. Same /\ Emit(<<Event("slash.blocked", session.thread)>>)
      BY <2>1, <2>2 DEF SlashNew, sessions, approvals, turnVars
    <3>2. Dropped(Event("slash.blocked", session.thread))
      BY DEF Dropped, Event
    <3> QED
      BY <1>3, <3>1, <3>2
  <2>3. CASE ~Live
    <3>1. CreateNew /\ UNCHANGED turnVars
      BY <2>1, <2>3 DEF SlashNew
    <3>2. PICK t \in Threads \ {session.thread} : SwitchTo(t)
      BY <3>1, CreateMisc DEF Base
    <3> QED
      BY <1>2, <2>3, <3>1, <3>2, SwitchTells
  <2> QED
    BY <2>2, <2>3
<1>5. CASE c.do = "list"
  <2>1. Slash /\ Head(out').type = IF Live THEN "slash.blocked" ELSE "session.listed"
    BY <1>5 DEF Obeyed
  <2>2. Same /\ UNCHANGED loop /\ QuietCommand
    BY <2>1 DEF Slash, QuietCommand, sessions, approvals, turnVars
  <2>3. CASE Live /\ Emit(<<Event("slash.blocked", session.thread)>>)
    <3>1. Dropped(Event("slash.blocked", session.thread))
      BY DEF Dropped, Event
    <3> QED
      BY <1>3, <2>2, <2>3, <3>1
  <2>4. CASE Emit(<<[type |-> "session.listed", thread |-> session.thread, turn |-> 0,
                     sessions |-> Listing]>>)
    BY <1>2, <2>2, <2>4, ListTells
  <2>5. ASSUME NEW e, e.type \in {"session.status", "slash.unknown"}, Emit(<<e>>) PROVE FALSE
    <3>1. Head(out') = e
      BY <2>5 DEF Emit
    <3> QED
      BY <2>1, <2>5, <3>1
  <2> QED
    BY <2>1, <2>3, <2>4, <2>5 DEF Slash, Status, Event
<1>6. CASE c.do = "resume"
  <2>1. Resume(c.arg)
    BY <1>6 DEF Obeyed
  <2>2. Same
    BY <2>1 DEF Resume, sessions, approvals, turnVars
  <2>3. Silent \/ \E e : Dropped(e) /\ Emit(<<e>>)
    <3>1. Dropped(Event("session.error", session.thread))
      BY DEF Dropped, Event
    <3>2. Silent \/ Emit(<<Event("session.error", session.thread)>>)
      BY <2>1 DEF Resume, Refuse
    <3> QED
      BY <3>1, <3>2
  <2> QED
    BY <1>3, <2>2, <2>3
<1>7. CASE c.do = "interrupt"
  <2>1. Interrupt
    BY <1>7 DEF Obeyed
  <2>2. Same /\ Silent
    BY <2>1 DEF Interrupt, sessions, approvals, turnVars
  <2> QED
    BY <1>3, <2>2
<1> QED
  BY <1>4, <1>5, <1>6, <1>7 DEF Obeyed

LEMMA IgnoredTells ==
  ASSUME Base, NEW vs, Sees(vs), cmds # <<>>, cmds' = Tail(cmds), Ignored(Head(cmds)),
         BridgeIdle, UNCHANGED <<evts, client, bounds, running, early>>
  PROVE  \E ws : Tells(vs, ws)
<1>1. Head(cmds).do # "respond"
  BY DEF Ignored
<1>2. Passes
  BY <1>1 DEF Passes, client, bounds
<1>3. UNCHANGED <<turnId, adapter, requests, request, answer, session, task, evts>>
  BY DEF BridgeIdle, vars, turnVars, approvals, sessions
<1>4. Live' => Live
  BY <1>3 DEF Live
<1> QED
  BY <1>2, <1>3, <1>4, QuietTells

(* The turn goes on, or its recorder or a switch fails.                    *)
LEMMA GoesOnTells ==
  ASSUME Base, NEW vs, Sees(vs),
         Act(Answered) \/ Act(Finish) \/ Act(NeverStarts) \/ Act(RecorderFails)
         \/ Act(CloseFails)
  PROVE  \E ws : Tells(vs, ws)
<1>1. Relay /\ UNCHANGED <<cmds, running>>
  BY DEF Act
<1>2. Passes
  BY <1>1 DEF Passes, Relay, client, bounds
<1>3. session \in Session
  BY DEF Base, BridgeInv, CoreInv, CoreTypes, SessionTypes
<1>4. ASSUME Answered \/ Finish \/ NeverStarts \/ RecorderFails \/ CloseFails
      PROVE  /\ Silent \/ \E e : Dropped(e) /\ Emit(<<e>>)
             /\ UNCHANGED <<turnId, adapter, requests>> /\ session'.thread = session.thread
             /\ UNCHANGED <<request, answer>> \/ (request' = 0 /\ answer # "none")
             /\ (Live' => Live) /\ (task' = "created" => task = "created")
  <2>1. CASE Answered
    BY <1>3, <2>1 DEF Answered, Step, NoRequest, EndTurn, Live, Session
  <2>2. CASE Finish
    BY <1>3, <2>2 DEF Finish, Step, EndTurn, Live, approvals, Session
  <2>3. CASE NeverStarts
    BY <2>3 DEF NeverStarts, Live, approvals
  <2>4. CASE RecorderFails
    BY <1>3, <2>4 DEF RecorderFails, Live, approvals, turnVars, Session
  <2>5. CASE CloseFails
    BY <1>3, <2>5 DEF CloseFails, Refuse, Dropped, Event, Live, approvals, turnVars, Session
  <2> QED
    BY <1>4, <2>1, <2>2, <2>3, <2>4, <2>5
<1> QED
  BY <1>1, <1>2, <1>4, QuietStepTells DEF Act

LEMMA FailTells ==
  ASSUME Base, NEW vs, Sees(vs), Act(TurnFails) \/ Act(Interrupted)
  PROVE  \E ws : Tells(vs, ws)
<1>1. Relay /\ UNCHANGED <<cmds, running>>
  BY DEF Act
<1>2. UNCHANGED <<ui, shown, typed, sends, streamed, running, early, cmds>>
  BY <1>1 DEF Relay, client, bounds
<1>3. /\ session.thread \in Threads /\ adapter.thread = session.thread
      /\ turnId \in 0..MaxInputs /\ adapter.counter \in 0..MaxInputs
      /\ adapter.current \in 0..MaxInputs
      /\ task \in {"running", "asking", "flushing"} =>
           turnId = adapter.counter /\ adapter.current = adapter.counter /\ turnId # 0
      /\ task = "created" => turnId = 0 /\ adapter.counter + 1 <= MaxInputs
      /\ task = "asking" <=> request # 0
      /\ streamed \in 0..MaxDeltas /\ IsSeq(evts) /\ running \in Prompts \union {0}
  BY BridgeFacts DEF Base, ClientTypes
<1>4. PICK e : e = TurnEvent("turn.failed", FailureId)
  OBVIOUS
<1>5. e.type = "turn.failed" /\ e.thread = session.thread /\ e.turn = FailureId
  BY <1>3, <1>4 DEF TurnEvent
<1>a. PICK l : l = [type |-> e.type, thread |-> e.thread, turn |-> e.turn, prompt |-> running]
  OBVIOUS
<1>b. /\ l.type = "turn.failed" /\ l.thread = session.thread /\ l.turn = FailureId
       /\ l.prompt = running /\ Terminal(l)
  BY <1>5, <1>a DEF Terminal
<1>6. /\ out' = <<e>> /\ session'.thread = session.thread /\ UNCHANGED <<adapter, requests>>
      /\ task' = "none" /\ turnId' = 0
      /\ \/ task \in {"running", "flushing"} /\ UNCHANGED <<request, answer>>
         \/ task = "created" /\ UNCHANGED <<request, answer>>
         \/ task \in {"running", "asking", "flushing"} /\ request' = 0
  <2>1. session'.thread = session.thread
    BY DEF Base, BridgeInv, CoreInv, CoreTypes, SessionTypes, Session, Act, TurnFails, Interrupted
  <2> QED
    BY <1>4, <2>1 DEF Act, TurnFails, Interrupted, Step, Idle, NoRequest, Emit, approvals
<1>7. evts' = Append(evts, l)
  <2>1. Lines(e) = <<l>>
    BY <1>2, <1>5, <1>a DEF Lines
  <2> QED
    BY <1>1, <1>3, <1>6, <2>1, OneRelay
<1>8. PICK w : w = vs[Len(evts)]
  OBVIOUS
<1>9. w \in Sight /\ Fields(w) /\ Leads(w)
  BY <1>8, LastSight
<1>10. Legal(w, l)
  <2>1. l.type \in Types /\ l.thread = w.thread /\ w.thread # 0
    BY <1>3, <1>b, <1>9 DEF Types, Leads, Threads
  <2>2. /\ l.turn \in Prompts
        /\ \/ l.turn = w.open
           \/ w.open = 0 /\ (l.turn = w.last + 1 \/ (l.turn = w.last /\ w.failed))
    BY <1>3, <1>b, <1>6, <1>9, BridgeAssumption DEF Leads, FailureId, Prompts
  <2> QED
    BY <1>3, <1>b, <2>1, <2>2 DEF Legal
<1>11. PICK m : m = Move(w, l)
  OBVIOUS
<1>12. Moved(w, l, m)
  BY <1>11, MoveFields
<1>13. Leads(m)' /\ (UNCHANGED <<request, answer>> \/ (request' = 0 /\ m.ask = 0))
  <2>1. CASE task \in {"running", "asking", "flushing"}
    <3>1. l.turn = w.open
      BY <1>3, <1>b, <1>9, <2>1 DEF Leads, FailureId
    <3>2. /\ m.thread = w.thread /\ m.last = w.last /\ m.asked = w.asked /\ m.seen = w.seen
          /\ m.open = 0 /\ m.failed /\ m.ask = 0
      BY <1>b, <1>12, <3>1 DEF Moved
    <3> QED
      BY <1>2, <1>3, <1>6, <1>9, <2>1, <3>2 DEF Leads
  <2>2. CASE task = "created"
    <3>1. l.turn # w.open
      BY <1>3, <1>b, <1>9, <2>2, BridgeAssumption DEF Leads, FailureId
    <3>2. /\ m.thread = w.thread /\ m.last = w.last /\ m.asked = w.asked /\ m.seen = w.seen
          /\ m.open = w.open /\ m.failed = w.failed /\ m.ask = w.ask
      BY <1>b, <1>12, <3>1 DEF Moved
    <3> QED
      BY <1>2, <1>3, <1>6, <1>9, <2>2, <3>2 DEF Leads
  <2> QED
    BY <1>6, <2>1, <2>2
<1>14. ~Live' /\ task' # "created" /\ l.type \notin {"turn.started", "approval.requested"}
       /\ streamed' \in 0..MaxDeltas
  BY <1>2, <1>3, <1>b, <1>6 DEF Live
<1> QED
  BY <1>2, <1>7, <1>8, <1>10, <1>11, <1>13, <1>14, TellOne

LEMMA CompleteTells ==
  ASSUME Base, NEW vs, Sees(vs), Act(Complete)
  PROVE  \E ws : Tells(vs, ws)
<1>1. Relay /\ UNCHANGED <<cmds, running>>
  BY DEF Act
<1>2. UNCHANGED <<ui, shown, typed, sends, streamed, running, early, cmds>>
  BY <1>1 DEF Relay, client, bounds
<1>3. /\ session.thread \in Threads /\ adapter.thread = session.thread
      /\ turnId \in 0..MaxInputs /\ task = "flushing"
      /\ turnId = adapter.counter /\ adapter.current = adapter.counter /\ turnId # 0
      /\ request = 0 /\ loop # "oneshot"
      /\ streamed \in 0..MaxDeltas /\ IsSeq(evts)
      /\ adapter \in [thread : Threads, counter : 0..MaxInputs, current : 0..MaxInputs]
  BY BridgeFacts DEF Base, ClientTypes, Act, Complete, Step, Misc, BridgeInv, CoreInv, CoreTypes,
                     NumberTypes
<1>4. PICK e : e = TurnEvent("turn.completed", adapter.current)
  OBVIOUS
<1>5. /\ e.type = "turn.completed" /\ e.thread = session.thread /\ e.turn = turnId
      /\ Terminal(e)
  BY <1>3, <1>4 DEF TurnEvent, Terminal
<1>6. PICK s : s = Status(session)
  OBVIOUS
<1>7. /\ UNCHANGED <<session, requests, request, answer>>
      /\ task' = "none" /\ turnId' = 0 /\ adapter'.current = 0
      /\ adapter'.counter = adapter.counter
  BY <1>3 DEF Act, Complete, Idle, approvals
<1>8. evts' = Append(evts, e)
  <2>1. out' = <<e>> \o <<s>>
    BY <1>3, <1>4, <1>6 DEF Act, Complete, Emit
  <2> DEFINE o == <<e, s>>
  <2>2. out' = o
    BY <2>1, Joined, Zenon
  <2>3. DOMAIN o = 1..2 /\ o[1] = e /\ o[2] = s
    OBVIOUS
  <2>4. Lines(s) = <<>> /\ Lines(e) = <<e>>
    BY <1>5, <1>6 DEF Lines, Status, Event
  <2> HIDE DEF o
  <2>5. evts' = evts \o Lines(o[1])
    <3>1. 2 \in 1..3 /\ 2 < 3 /\ Lines(o[2]) = <<>>
      BY <2>3, <2>4
    <3> QED
      BY <1>1, <1>3, <2>2, <2>3, <3>1, RelaySome
  <2>6. Lines(o[1]) = <<e>>
    BY <2>3, <2>4
  <2>7. evts \o <<e>> = Append(evts, e)
    BY <1>3, Piped
  <2> QED
    BY <2>5, <2>6, <2>7, Zenon
<1>9. PICK w : w = vs[Len(evts)]
  OBVIOUS
<1>10. w \in Sight /\ Leads(w)
  BY <1>9, LastSight
<1>11. Legal(w, e)
  <2>1. e.type \in Types /\ e.thread = w.thread /\ w.thread # 0
    BY <1>3, <1>5, <1>10 DEF Types, Leads, Threads
  <2>2. e.turn \in Prompts /\ e.turn = w.open
    BY <1>3, <1>5, <1>10, BridgeAssumption DEF Leads, Prompts
  <2> QED
    BY <1>5, <2>1, <2>2 DEF Legal
<1>12. PICK m : m = Move(w, e)
  OBVIOUS
<1>13. Moved(w, e, m) /\ e.turn = w.open
  BY <1>5, <1>10, <1>12, MoveFields DEF Leads
<1>14. /\ m.thread = w.thread /\ m.last = w.last /\ m.asked = w.asked /\ m.seen = w.seen
       /\ m.open = 0 /\ m.ask = 0
  BY <1>5, <1>13 DEF Moved
<1>15. Leads(m)'
  BY <1>2, <1>3, <1>7, <1>10, <1>14 DEF Leads
<1>16. ~Live' /\ task' # "created" /\ e.type \notin {"turn.started", "approval.requested"}
       /\ streamed' \in 0..MaxDeltas
  BY <1>2, <1>3, <1>5, <1>7 DEF Live
<1> QED
  BY <1>2, <1>7, <1>8, <1>9, <1>11, <1>12, <1>15, <1>16, TellOne

LEMMA StreamTells ==
  ASSUME Base, NEW vs, Sees(vs), Stream
  PROVE  \E ws : Tells(vs, ws)
<1>1. /\ UNCHANGED <<ui, shown, typed, sends, running, early, cmds>>
      /\ UNCHANGED <<session, adapter, turnId, task, request, requests, answer>>
      /\ streamed < MaxDeltas /\ streamed' = streamed + 1
  BY DEF Stream, client, BridgeIdle, vars, sessions, turnVars, approvals
<1>2. /\ session.thread \in Threads /\ adapter.thread = session.thread
      /\ turnId # 0 /\ streamed \in 0..MaxDeltas
  BY BridgeFacts DEF Base, ClientTypes, Stream, Step
<1>3. PICK e : e = TurnEvent("item.updated", turnId)
  OBVIOUS
<1>4. /\ e.type = "item.updated" /\ e.thread = session.thread /\ e.turn = turnId
      /\ ~Terminal(e) /\ evts' = Append(evts, e)
  BY <1>2, <1>3 DEF TurnEvent, Terminal, Stream
<1>5. PICK w : w = vs[Len(evts)]
  OBVIOUS
<1>6. w \in Sight /\ Leads(w)
  BY <1>5, LastSight
<1>7. Legal(w, e)
  BY <1>1, <1>2, <1>4, <1>6 DEF Legal, Types, Leads, Threads
<1>8. PICK m : m = Move(w, e)
  OBVIOUS
<1>9. Moved(w, e, m)
  BY <1>8, MoveFields
<1>10. Leads(m)'
  BY <1>1, <1>4, <1>6, <1>9 DEF Leads, Moved
<1>11. /\ (Live' => Live) /\ e.type \notin {"turn.started", "approval.requested"}
       /\ streamed' \in 0..MaxDeltas
  BY <1>1, <1>2, <1>4, ClientAssumption DEF Live
<1> QED
  BY <1>1, <1>4, <1>5, <1>7, <1>8, <1>10, <1>11, TellOne

LEMMA MoveTells ==
  ASSUME Base, NEW vs, Sees(vs), Act(Resolved) \/ Act(Closed)
  PROVE  \E ws : Tells(vs, ws)
<1>1. Relay /\ UNCHANGED <<cmds, running>>
  BY DEF Act
<1>2. Passes
  BY <1>1 DEF Passes, Relay, client, bounds
<1>3. goal \in Threads /\ goal # session.thread /\ ~Live
  BY DEF Base, BridgeInv, CoreInv, Moves, Misc, Act, Resolved, Closed
<1>4. CASE Resolved
  <2>1. CASE Refuse /\ UNCHANGED <<sessions, approvals, adapter>>
    <3>1. UNCHANGED <<turnId, adapter, requests, request, answer, session, task>>
      BY <1>4, <2>1 DEF Resolved, sessions, approvals, turnVars
    <3>2. (Live' => Live) /\ (task' = "created" => task = "created")
      BY <3>1 DEF Live
    <3>3. Dropped(Event("session.error", session.thread))
      BY DEF Dropped, Event
    <3> QED
      BY <1>1, <1>2, <2>1, <3>1, <3>2, <3>3, QuietStepTells DEF Refuse
  <2>2. CASE SwitchTo(goal)
    BY <1>1, <1>2, <1>3, <1>4, <2>2, SwitchTells DEF Resolved
  <2> QED
    BY <1>4, <2>1, <2>2 DEF Resolved
<1>5. CASE Closed
  BY <1>1, <1>2, <1>3, <1>5, ActivateTells DEF Closed
<1> QED
  BY <1>4, <1>5 DEF Act

-------------------------------------------------------------------------------
(* Steps of the client that read no event.                                 *)

LEMMA ShownOpen ==
  ASSUME ui \in UiState, NEW v \in Sight, Fit(ui, v)
  PROVE  /\ \A i \in DOMAIN ui.turns : i \in Opened <=> ui.turns[i].id = v.open
         /\ Opened # {} <=> v.open # 0
         /\ v.open # 0 => ShownTurn = v.open /\ {ui.turns[i].id : i \in Opened} = {v.open}
         /\ v.open = 0 => {ui.turns[i].id : i \in Opened} = {}
<1>1. \A i \in DOMAIN ui.turns : i \in Opened <=> ui.turns[i].id = v.open
  BY DEF Fit, FitEntry, Opened
<1>2. Opened \subseteq DOMAIN ui.turns
  BY DEF Opened
<1>3. \A i \in DOMAIN ui.turns : ui.turns[i].id # 0
  BY DEF Fit, FitEntry
<1>4. Opened # {} <=> v.open # 0
  <2>1. ASSUME v.open # 0 PROVE Opened # {}
    BY <1>1, <2>1 DEF Fit
  <2>2. ASSUME Opened # {} PROVE v.open # 0
    BY <1>1, <1>2, <1>3, <2>2
  <2> QED
    BY <2>1, <2>2
<1>5. ASSUME v.open # 0 PROVE ShownTurn = v.open /\ {ui.turns[i].id : i \in Opened} = {v.open}
  <2>1. (CHOOSE i \in Opened : TRUE) \in Opened
    BY <1>4, <1>5
  <2>2. \A i \in Opened : ui.turns[i].id = v.open
    BY <1>1, <1>2
  <2>3. ShownTurn = v.open
    BY <1>4, <1>5, <2>1, <2>2 DEF ShownTurn
  <2>4. {ui.turns[i].id : i \in Opened} = {v.open}
    BY <2>1, <2>2
  <2> QED
    BY <2>3, <2>4
<1> QED
  BY <1>1, <1>4, <1>5

LEMMA RenderedFits ==
  ASSUME ui \in UiState, NEW v \in Sight, Fit(ui, v), FitQueue(ui, v)
  PROVE  /\ Rendered \in Handlers
         /\ Rendered.request <= v.asked
         /\ Rendered.busy <=> v.open # 0
         /\ Rendered.busy => Rendered.disabled
         /\ ui.slot # 0 => Rendered.disabled
<1> DEFINE r == IF ui.queue = <<>> THEN 0 ELSE Head(ui.queue).request
<1>1. Fields(v)
  BY SightFields
<1>2. r \in 0..MaxRequests /\ r <= v.asked
  <2>1. CASE ui.queue = <<>>
    BY <1>1, <2>1, BridgeAssumption DEF Fields
  <2>2. CASE ui.queue # <<>>
    <3>1. ui.queue = <<[request |-> v.ask, turn |-> v.open]>>
      BY <2>2 DEF FitQueue
    <3>2. r = v.ask
      BY <2>2, <3>1
    <3> QED
      BY <1>1, <3>2 DEF Fields
  <2> QED
    BY <2>1, <2>2
<1> HIDE DEF r
<1>3. Opened # {} <=> v.open # 0
  BY ShownOpen
<1>4. Rendered = [disabled |-> Disabled, busy |-> Opened # {}, picking |-> ui.picking,
                  offers |-> ui.offers, request |-> r]
  BY DEF Rendered, r
<1>5. Disabled \in BOOLEAN /\ (Opened # {} => Disabled) /\ (ui.slot # 0 => Disabled)
  BY DEF Disabled, UiState
<1>6. ui.picking \in BOOLEAN /\ ui.offers \in SUBSET Threads
  BY DEF UiState
<1> HIDE DEF Disabled
<1> QED
  BY <1>2, <1>3, <1>4, <1>5, <1>6 DEF Handlers

(* At most the line c is written.                                          *)
Wrote(c) ==
  /\ IsSeq(cmds') /\ Len(cmds) \in Nat /\ Len(cmds') \in Nat
  /\ Len(cmds) <= Len(cmds') /\ Len(cmds') <= Len(cmds) + 1
  /\ \A j \in 1..Len(cmds) : cmds'[j] = cmds[j]
  /\ \A j \in 1..Len(cmds') : j > Len(cmds) => cmds'[j] = c

LEMMA WroteOne ==
  ASSUME IsSeq(cmds), NEW c, cmds' = Append(cmds, c)
  PROVE  Wrote(c) /\ Len(cmds') = Len(cmds) + 1 /\ cmds'[Len(cmds) + 1] = c
<1> DEFINE s == Append(cmds, c)
<1>1. /\ IsSeq(s) /\ Len(s) = Len(cmds) + 1 /\ s[Len(cmds) + 1] = c
      /\ \A i \in 1..Len(cmds) : s[i] = cmds[i]
      /\ Len(cmds) \in Nat
  BY Pushed, SeqShape
<1> HIDE DEF s
<1>2. \A j \in 1..Len(s) : j > Len(cmds) => j = Len(cmds) + 1
  BY <1>1
<1>3. cmds' = s
  BY DEF s
<1> QED
  BY <1>1, <1>2, <1>3 DEF Wrote

LEMMA WroteNone ==
  ASSUME IsSeq(cmds), NEW c, cmds' = cmds
  PROVE  Wrote(c)
<1>1. Len(cmds) \in Nat
  BY SeqShape
<1> QED
  BY <1>1 DEF Wrote

(* The client acts: u is what its hooks hold then, c the line it writes.   *)
Acts(u, c) ==
  /\ UNCHANGED <<vars, evts, running, streamed>>
  /\ ui' = u /\ u \in UiState
  /\ shown' = shown \/ shown' = Rendered
  /\ Wrote(c)
  /\ LineFits(c, typed')
  /\ typed' \in 0..MaxInputs /\ typed <= typed'
  /\ sends' \in 0..MaxSends /\ sends <= sends' /\ Len(cmds') <= sends'
  /\ early' \in BOOLEAN

LEMMA ActsTypes ==
  ASSUME ClientTypes, LineTypes, NEW u, NEW c, Acts(u, c), NEW v \in Sight, Fit(ui, v),
         FitQueue(ui, v)
  PROVE  ClientTypes' /\ LineTypes'
<1>1. Rendered \in Handlers
  BY RenderedFits DEF ClientTypes
<1>2. ClientTypes'
  BY <1>1 DEF ClientTypes, Acts, Wrote
<1>3. LineTypes'
  <2> SUFFICES ASSUME NEW j \in 1..Len(cmds') PROVE LineFits(cmds'[j], typed')
    BY DEF LineTypes
  <2>1. CASE j \in 1..Len(cmds)
    <3>1. LineFits(cmds[j], typed) /\ cmds'[j] = cmds[j]
      BY <2>1 DEF LineTypes, Acts, Wrote
    <3> QED
      BY <3>1 DEF LineFits, Acts, ClientTypes
  <2>2. CASE j \notin 1..Len(cmds)
    BY <2>2 DEF Acts, Wrote
  <2> QED
    BY <2>1, <2>2
<1> QED
  BY <1>2, <1>3

LEMMA ActsShows ==
  ASSUME ui \in UiState, NEW v \in Sight, Shows(v), NEW u, NEW c, Acts(u, c), Fit(u, v),
         FitQueue(u, v)
  PROVE  Shows(v)'
<1>1. shown'.request <= v.asked /\ (shown'.busy => shown'.disabled)
  BY RenderedFits DEF Shows, Acts
<1>2. ui' = u
  BY DEF Acts
<1> QED
  BY <1>1, <1>2 DEF Shows

(* An answer settles the request that it is for, and only that.            *)
ActsSettle(u, c, v) ==
  \A r : LET settled == r <= v.asked /\ \A j \in DOMAIN u.queue : u.queue[j].request # r
         IN  /\ Settled(v, r) => settled
             /\ settled => Settled(v, r) \/ (c.do = "respond" /\ c.arg = r)

LEMMA ActsAsking ==
  ASSUME NEW vs, Asking(vs), NEW u, NEW c, Acts(u, c), ActsSettle(u, c, vs[0]),
         c.do = "respond" => /\ Len(cmds') = Len(cmds) + 1 /\ cmds'[Len(cmds) + 1] = c
                             /\ c.arg <= vs[0].asked
                             /\ \A j \in DOMAIN u.queue : u.queue[j].request # c.arg
  PROVE  Asking(vs)'
<1>1. ui' = u /\ UNCHANGED <<vars, evts, request, answer>> /\ Wrote(c)
  BY DEF Acts, vars, approvals
<1>2. PICK v : v = vs[0]
  OBVIOUS
<1>3. \A r : Settled(v, r)' <=> r <= v.asked /\ \A j \in DOMAIN u.queue : u.queue[j].request # r
  BY <1>1 DEF Settled
<1>4. \A r : Settled(v, r) => Settled(v, r)'
  BY <1>2, <1>3 DEF ActsSettle
<1>5. \A r : Settled(v, r)' => Settled(v, r) \/ (c.do = "respond" /\ c.arg = r)
  BY <1>2, <1>3 DEF ActsSettle
<1>6. \A r : Settled(vs[0], r)' <=> Settled(v, r)'
  BY <1>2 DEF Settled
<1>7. NextAsked(vs)'
  BY <1>1, <1>2, <1>4, <1>6 DEF NextAsked, Asking
<1>8. AnswersSent(v)'
  <2> SUFFICES ASSUME NEW j \in 1..Len(cmds'), cmds'[j].do = "respond", NEW r, r = cmds'[j].arg
               PROVE  Settled(v, r)'
    BY DEF AnswersSent
  <2>1. CASE j \in 1..Len(cmds)
    <3>1. Settled(v, r)
      BY <1>1, <1>2, <2>1 DEF Asking, AnswersSent, Wrote
    <3> QED
      BY <1>4, <3>1
  <2>2. CASE j \notin 1..Len(cmds)
    <3>1. cmds'[j] = c
      BY <1>1, <2>2 DEF Wrote
    <3> QED
      BY <1>2, <1>3, <3>1
  <2> QED
    BY <2>1, <2>2
<1>9. Undecided(v, vs[Len(evts)].ask)'
  <2> SUFFICES ASSUME NEW r, r = vs[Len(evts)].ask PROVE Undecided(v, r)'
    BY <1>1, Zenon
  <2> QED
    BY <1>1, <1>2, <1>4 DEF Undecided, Asking
<1>10. AnswerComes(v)'
  <2> SUFFICES ASSUME request' # 0, answer' = "none", Settled(v, request)'
               PROVE  \E j \in 1..Len(cmds') : cmds'[j].do = "respond" /\ cmds'[j].arg = request'
    BY DEF AnswerComes
  <2>1. PICK r : r = request
    OBVIOUS
  <2>2. r # 0 /\ answer = "none" /\ Settled(v, r)'
    BY <1>1, <2>1 DEF Settled
  <2>3. CASE Settled(v, r)
    <3>1. PICK j \in 1..Len(cmds) : cmds[j].do = "respond" /\ cmds[j].arg = request
      BY <1>2, <2>1, <2>2, <2>3 DEF Asking, AnswerComes
    <3>2. j \in 1..Len(cmds') /\ cmds'[j] = cmds[j]
      BY <1>1 DEF Wrote
    <3> QED
      BY <1>1, <3>1, <3>2
  <2>4. CASE c.do = "respond" /\ c.arg = r
    <3>1. Len(cmds) + 1 \in 1..Len(cmds')
      BY <1>1, <2>4 DEF Wrote
    <3> QED
      BY <1>1, <2>1, <2>4, <3>1
  <2> QED
    BY <1>5, <2>2, <2>3, <2>4
<1> QED
  BY <1>2, <1>7, <1>8, <1>9, <1>10 DEF Asking

LEMMA ActsBlocked ==
  ASSUME ui \in UiState, NEW v \in Sight, Fit(ui, v), FitQueue(ui, v), NEW u, NEW c, Acts(u, c),
         Blocked(v), Sent' => Sent
  PROVE  Blocked(v)'
<1>1. (Rendered.busy <=> v.open # 0) /\ (Rendered.busy => Rendered.disabled)
  BY RenderedFits
<1>2. /\ task' = task /\ (Starting' <=> Starting)
      /\ shown' = shown \/ shown' = Rendered
  BY DEF Acts, vars, turnVars, Starting
<1> QED
  BY <1>1, <1>2 DEF Blocked

LEMMA ActsTimely ==
  ASSUME Base, NEW vs, Sees(vs), NEW u, NEW c, Acts(u, c), ~early, Told(u.turns),
         u.slot = ui.slot, c.do # "prompt",
         c.do = "interrupt" =>
           ~Sent /\ (Live => c.arg # 0 /\ c.arg = turnId /\ c.how = session.thread)
  PROVE  Timely(vs[0])'
<1>1. /\ ui' = u /\ UNCHANGED <<evts, running, task, turnId, session>> /\ Wrote(c)
      /\ (Live' <=> Live)
  BY DEF Acts, vars, turnVars, sessions, Live
<1>2. Slotted /\ Single /\ Blocked(vs[0]) /\ Aimed
  BY DEF Sees, Timely
<1>3. \A j \in 1..Len(cmds') :
        (j \in 1..Len(cmds) /\ cmds'[j] = cmds[j]) \/ (j > Len(cmds) /\ cmds'[j] = c)
  BY <1>1 DEF Wrote
<1>4. (Sent' => Sent) /\ (Starting' => Starting)
  BY <1>1, <1>3 DEF Sent, Starting
<1>5. Slotted'
  BY <1>1, <1>2, <1>3 DEF Slotted
<1>6. Single'
  <2>1. ASSUME NEW i \in 1..Len(cmds'), NEW j \in 1..Len(cmds'),
               cmds'[i].do = "prompt", cmds'[j].do = "prompt"
        PROVE  i = j
    BY <1>2, <1>3, <2>1 DEF Single
  <2>2. \A i, j \in 1..Len(evts') :
          evts'[i].type = "turn.started" /\ evts'[j].type = "turn.started" => i = j
    BY <1>1, <1>2 DEF Single
  <2> QED
    BY <1>1, <1>2, <1>4, <2>1, <2>2 DEF Single
<1>7. Blocked(vs[0])'
  <2>1. PICK v : v = vs[0]
    OBVIOUS
  <2>2. v \in Sight /\ Fit(ui, v) /\ FitQueue(ui, v) /\ ui \in UiState /\ Blocked(v)
    BY <1>2, <2>1, LastSight DEF Sees, Shows, Base, ClientTypes
  <2>3. Blocked(v)'
    BY <1>4, <2>2, ActsBlocked
  <2> QED
    BY <2>1, <2>3
<1>8. Aimed'
  <2>1. ASSUME NEW j \in 1..Len(cmds'), cmds'[j].do = "interrupt", Live'
        PROVE  cmds'[j].arg # 0 /\ cmds'[j].arg = turnId' /\ cmds'[j].how = session'.thread
    BY <1>1, <1>2, <1>3, <2>1 DEF Aimed
  <2>2. ASSUME NEW i \in 1..Len(cmds'), NEW j \in 1..Len(cmds'),
               cmds'[i].do = "prompt", cmds'[j].do = "interrupt"
        PROVE  j < i
    <3>1. i \in 1..Len(cmds) /\ cmds[i].do = "prompt"
      BY <1>3, <2>2
    <3>2. Sent
      BY <3>1 DEF Sent
    <3>3. j \in 1..Len(cmds) /\ cmds[j].do = "interrupt"
      BY <1>3, <2>2, <3>2
    <3> QED
      BY <1>2, <3>1, <3>3 DEF Aimed
  <2> QED
    BY <2>1, <2>2 DEF Aimed
<1> QED
  BY <1>1, <1>5, <1>6, <1>7, <1>8 DEF Timely, Told

LEMMA ActsKeeps ==
  ASSUME Base, BridgeInv', Misc', NEW vs, Sees(vs), NEW u, NEW c, Acts(u, c),
         Fit(u, vs[0]), FitQueue(u, vs[0]), Asking(vs)', Timely(vs[0])'
  PROVE  SystemInv'
<1>1. PICK v : v = vs[0]
  OBVIOUS
<1>2. v \in Sight /\ Shows(v) /\ ui \in UiState /\ ClientTypes /\ LineTypes
  BY <1>1, LastSight DEF Sees, Base, ClientTypes
<1>3. ClientTypes' /\ LineTypes'
  BY <1>2, ActsTypes DEF Shows
<1>4. Shows(v)'
  BY <1>1, <1>2, ActsShows
<1>5. UNCHANGED <<evts, session, turnId, adapter, requests, request, streamed>>
  BY DEF Acts, vars, sessions, turnVars, approvals
<1>6. Trail(vs, evts)'
  BY <1>5, Zenon DEF Sees
<1>7. PICK w : w = vs[Len(evts)]
  OBVIOUS
<1>8. Leads(w)'
  BY <1>5, <1>7 DEF Sees, Leads
<1>9. Leads(vs[Len(evts)])'
  <2>1. w = vs[Len(evts')]
    BY <1>5, <1>7
  <2> QED
    BY <1>8, <2>1, Zenon
<1>10. Shows(vs[0])'
  BY <1>1, <1>4, Zenon
<1> QED
  BY <1>3, <1>6, <1>9, <1>10 DEF SystemInv, Sees, Base

(* A line that asks for nothing.                                           *)
NoLine == [do |-> "list", arg |-> 0, how |-> ""]

(* Steps that write no answer and leave the queue as it is.                *)
LEMMA CalmKeeps ==
  ASSUME Base, BridgeInv', Misc', NEW vs, Sees(vs), NEW u, NEW c, Acts(u, c),
         Fit(u, vs[0]), u.queue = ui.queue, c.do # "respond", Timely(vs[0])'
  PROVE  SystemInv'
<1>1. FitQueue(u, vs[0])
  BY DEF Sees, Shows, FitQueue
<1>2. ActsSettle(u, c, vs[0])
  BY DEF ActsSettle, Settled
<1>3. Asking(vs)'
  BY <1>2, ActsAsking DEF Sees
<1> QED
  BY <1>1, <1>3, ActsKeeps

LEMMA LocalActs ==
  ASSUME ClientTypes, NEW u \in UiState, ui' = u, shown' = Rendered, early' \in BOOLEAN,
         UNCHANGED <<vars, evts, running, streamed, typed, sends, cmds>>
  PROVE  Acts(u, NoLine) /\ NoLine.do = "list"
<1>1. Wrote(NoLine)
  BY WroteNone DEF ClientTypes
<1>2. NoLine.do = "list"
  BY DEF NoLine
<1>3. LineFits(NoLine, typed')
  BY <1>2 DEF LineFits
<1>4. /\ typed \in 0..MaxInputs /\ sends \in 0..MaxSends /\ Len(cmds) <= sends
      /\ typed' = typed /\ sends' = sends /\ cmds' = cmds
  BY DEF ClientTypes
<1>5. typed <= typed' /\ sends <= sends'
  BY <1>4, BridgeAssumption, ClientAssumption
<1> HIDE DEF NoLine
<1> QED
  BY <1>1, <1>2, <1>3, <1>4, <1>5 DEF Acts

LEMMA FlushKeeps ==
  ASSUME Base, BridgeInv', Misc', NEW vs, Sees(vs), FlushDeltas
  PROVE  SystemInv' /\ Kept(ui'.turns, ui.turns) /\ ui'.thread = ui.thread
<1>1. PICK u : u = Flushed(ui)
  OBVIOUS
<1>2. PICK v : v = vs[0]
  OBVIOUS
<1>3. v \in Sight /\ Fit(ui, v) /\ ui \in UiState
  BY <1>2, LastSight DEF Sees, Shows, Base, ClientTypes
<1>4. /\ u \in UiState /\ Fit(u, v) /\ u.queue = ui.queue /\ u.slot = ui.slot
      /\ u.thread = ui.thread
      /\ Kept(u.turns, ui.turns) /\ (Told(ui.turns) => Told(u.turns))
  BY <1>1, <1>3, FlushFits
<1>5. /\ UNCHANGED <<vars, evts, running, streamed, typed, sends, cmds, early>>
      /\ ui' = u /\ shown' = Rendered
  BY <1>1 DEF FlushDeltas, Local, BridgeIdle, Render
<1>6. Acts(u, NoLine) /\ NoLine.do = "list"
  BY <1>4, <1>5, LocalActs DEF Base, ClientTypes
<1>7. Timely(vs[0])'
  <2>1. CASE early
    BY <1>5, <2>1 DEF Timely
  <2>2. CASE ~early
    BY <1>4, <1>6, <2>2, ActsTimely DEF Sees, Timely
  <2> QED
    BY <2>1, <2>2
<1> QED
  BY <1>2, <1>4, <1>5, <1>6, <1>7, CalmKeeps

LEMMA InstallKeeps ==
  ASSUME Base, BridgeInv', Misc', NEW vs, Sees(vs), Install
  PROVE  SystemInv'
<1>1. PICK u : u = ui
  OBVIOUS
<1>2. /\ UNCHANGED <<vars, evts, running, streamed, typed, sends, cmds, early>>
      /\ ui' = u /\ shown' = Rendered
  BY <1>1 DEF Install, Local, BridgeIdle, Render
<1>3. Acts(u, NoLine) /\ NoLine.do = "list"
  BY <1>1, <1>2, LocalActs DEF Base, ClientTypes
<1>4. Timely(vs[0])'
  <2>1. CASE early
    BY <1>2, <2>1 DEF Timely
  <2>2. CASE ~early
    BY <1>1, <1>3, <2>2, ActsTimely DEF Sees, Timely
  <2> QED
    BY <2>1, <2>2
<1>5. Fit(u, vs[0])
  BY <1>1 DEF Sees, Shows
<1> QED
  BY <1>1, <1>3, <1>4, <1>5, CalmKeeps

LEMMA SameFit ==
  ASSUME NEW u, NEW r, NEW v, Fit(u, v), r.thread = u.thread, r.turns = u.turns,
         r.buffer = u.buffer
  PROVE  Fit(r, v)
  BY DEF Fit

LEMMA SlotSet ==
  ASSUME NEW u \in UiState, NEW p \in Prompts \union {0}, NEW r, r = [u EXCEPT !.slot = p]
  PROVE  /\ r \in UiState /\ r.slot = p
         /\ r.thread = u.thread /\ r.turns = u.turns /\ r.queue = u.queue /\ r.buffer = u.buffer
  BY DEF UiState

LEMMA PickerClosed ==
  ASSUME NEW u \in UiState, NEW r, r = [u EXCEPT !.picking = FALSE]
  PROVE  /\ r \in UiState /\ r.slot = u.slot
         /\ r.thread = u.thread /\ r.turns = u.turns /\ r.queue = u.queue /\ r.buffer = u.buffer
  BY DEF UiState

(* The timer: if nothing was awaited, nothing is under way.                *)
LEMMA ExpireKeeps ==
  ASSUME Base, BridgeInv', Misc', NEW vs, Sees(vs), Expire
  PROVE  SystemInv' /\ ui'.turns = ui.turns
<1>1. PICK u : u = [ui EXCEPT !.slot = 0]
  OBVIOUS
<1>2. PICK v : v = vs[0]
  OBVIOUS
<1>3. v \in Sight /\ Fit(ui, v) /\ FitQueue(ui, v) /\ ui \in UiState
  BY <1>2, LastSight DEF Sees, Shows, Base, ClientTypes
<1>4. /\ u \in UiState /\ u.slot = 0
      /\ u.thread = ui.thread /\ u.turns = ui.turns /\ u.queue = ui.queue
      /\ u.buffer = ui.buffer
  BY <1>1, <1>3, SlotSet DEF Prompts
<1>5. /\ UNCHANGED <<vars, evts, running, streamed, typed, sends, cmds>>
      /\ ui' = u /\ shown' = Rendered /\ early' = (early \/ Awaited(ui.slot))
  BY <1>1 DEF Expire, Local, BridgeIdle, Render
<1>6. early' \in BOOLEAN
  BY <1>5 DEF Base, ClientTypes
<1>7. Acts(u, NoLine) /\ NoLine.do = "list"
  BY <1>4, <1>5, <1>6, LocalActs DEF Base, ClientTypes
<1>8. Fit(u, v)
  BY <1>3, <1>4, SameFit
<1>9. Timely(vs[0])'
  <2> SUFFICES ASSUME ~early' PROVE Slotted' /\ Single' /\ Blocked(v)' /\ Aimed' /\ Told(ui.turns)'
    BY <1>2, Zenon DEF Timely
  <2>1. ~early /\ ~Awaited(ui.slot)
    BY <1>5
  <2>2. Slotted /\ Single /\ Blocked(v) /\ Aimed /\ Told(ui.turns)
    BY <1>2, <2>1 DEF Sees, Timely
  <2>3. DOMAIN cmds = 1..Len(cmds) /\ DOMAIN evts = 1..Len(evts)
    BY SeqShape DEF Base, ClientTypes
  <2>4. ~Sent /\ task # "created" /\ ~Starting
    BY <2>1, <2>2, <2>3 DEF Slotted, Awaited, Sent, Starting
  <2>5. UNCHANGED <<evts, cmds, task, running, turnId, session>> /\ (Live' <=> Live)
    BY <1>5 DEF vars, turnVars, sessions, Live
  <2>6. ~Sent' /\ task' # "created" /\ ~Starting'
    BY <2>4, <2>5 DEF Sent, Starting
  <2>7. Slotted'
    BY <2>6 DEF Slotted, Sent, Starting
  <2>8. Single'
    BY <2>6 DEF Single, Sent, Starting
  <2>9. Blocked(v)'
    BY <1>3, <1>7, <2>2, <2>6, ActsBlocked
  <2>10. Aimed'
    BY <2>2, <2>5 DEF Aimed
  <2>11. Told(ui.turns)'
    BY <1>4, <1>5, <2>2 DEF Told
  <2> QED
    BY <2>7, <2>8, <2>9, <2>10, <2>11
<1>10. Fit(u, vs[0])
  BY <1>2, <1>8
<1> QED
  BY <1>4, <1>5, <1>7, <1>9, <1>10, CalmKeeps

LEMMA DismissKeeps ==
  ASSUME Base, BridgeInv', Misc', NEW vs, Sees(vs), Dismiss
  PROVE  SystemInv' /\ ui'.turns = ui.turns
<1>1. PICK u : u = [ui EXCEPT !.picking = FALSE]
  OBVIOUS
<1>2. PICK v : v = vs[0]
  OBVIOUS
<1>3. v \in Sight /\ Fit(ui, v) /\ FitQueue(ui, v) /\ ui \in UiState
  BY <1>2, LastSight DEF Sees, Shows, Base, ClientTypes
<1>4. /\ u \in UiState /\ u.slot = ui.slot
      /\ u.thread = ui.thread /\ u.turns = ui.turns /\ u.queue = ui.queue
      /\ u.buffer = ui.buffer
  BY <1>1, <1>3, PickerClosed
<1>5. /\ UNCHANGED <<vars, evts, running, streamed, typed, sends, cmds, early>>
      /\ ui' = u /\ shown' = Rendered
  BY <1>1 DEF Dismiss, Local, BridgeIdle, Render
<1>6. Acts(u, NoLine) /\ NoLine.do = "list"
  BY <1>4, <1>5, LocalActs DEF Base, ClientTypes
<1>7. Timely(vs[0])'
  <2>1. CASE early
    BY <1>5, <2>1 DEF Timely
  <2>2. CASE ~early
    BY <1>4, <1>6, <2>2, ActsTimely DEF Sees, Timely
  <2> QED
    BY <2>1, <2>2
<1>8. Fit(u, vs[0])
  BY <1>2, <1>3, <1>4, SameFit
<1> QED
  BY <1>4, <1>5, <1>6, <1>7, <1>8, CalmKeeps

(* A line that the client writes.                                          *)
LEMMA SendActs ==
  ASSUME ClientTypes, NEW u \in UiState, ui' = u, shown' = Rendered \/ shown' = shown,
         typed' \in 0..MaxInputs, typed <= typed',
         NEW do, NEW arg, NEW how, Send(do, arg, how),
         NEW c, c = [do |-> do, arg |-> arg, how |-> how], LineFits(c, typed')
  PROVE  /\ Acts(u, c) /\ c.do = do /\ c.arg = arg /\ c.how = how
         /\ Len(cmds') = Len(cmds) + 1 /\ cmds'[Len(cmds) + 1] = c
         /\ UNCHANGED <<vars, evts, early, running, streamed>>
<1>1. /\ UNCHANGED <<vars, evts, early, running, streamed>> /\ sends' = sends + 1
      /\ sends < MaxSends /\ cmds' = Append(cmds, c)
  BY DEF Send, BridgeIdle
<1>2. Wrote(c) /\ Len(cmds') = Len(cmds) + 1 /\ cmds'[Len(cmds) + 1] = c
  BY <1>1, WroteOne DEF ClientTypes
<1>3. sends' \in 0..MaxSends /\ sends <= sends' /\ Len(cmds') <= sends' /\ early' \in BOOLEAN
  BY <1>1, <1>2, ClientAssumption DEF ClientTypes, Wrote
<1> QED
  BY <1>1, <1>2, <1>3 DEF Acts

(* A prompt is sent while nothing is under way.                            *)
LEMMA SubmitKeeps ==
  ASSUME Base, BridgeInv', Misc', NEW vs, Sees(vs), Submit
  PROVE  SystemInv' /\ ui'.turns = ui.turns
<1>1. PICK p : p = typed + 1
  OBVIOUS
<1>2. PICK u : u = [ui EXCEPT !.slot = p]
  OBVIOUS
<1>3. PICK v : v = vs[0]
  OBVIOUS
<1>4. v \in Sight /\ Fit(ui, v) /\ FitQueue(ui, v) /\ ui \in UiState
  BY <1>3, LastSight DEF Sees, Shows, Base, ClientTypes
<1>5. /\ ~shown.disabled /\ ui.slot = 0 /\ typed' = p /\ ui' = u /\ shown' = Rendered
      /\ Send("prompt", p, "") /\ typed < MaxInputs /\ typed \in 0..MaxInputs
  BY <1>1, <1>2 DEF Submit, Render, Base, ClientTypes
<1>6. p \in Prompts /\ p \in 1..p /\ p \in 0..MaxInputs /\ typed <= p /\ p # 0
  <2>1. typed < MaxInputs /\ typed \in 0..MaxInputs
    BY <1>5
  <2> QED
    BY <1>1, <2>1, BridgeAssumption DEF Prompts
<1>7. /\ u \in UiState /\ u.slot = p
      /\ u.thread = ui.thread /\ u.turns = ui.turns /\ u.queue = ui.queue
      /\ u.buffer = ui.buffer
  BY <1>2, <1>4, <1>6, SlotSet
<1>8. PICK c : c = [do |-> "prompt", arg |-> p, how |-> ""]
  OBVIOUS
<1>9. LineFits(c, typed')
  <2>1. c.do = "prompt" /\ c.arg = p
    BY <1>8
  <2> QED
    BY <1>5, <1>6, <2>1 DEF LineFits
<1>10. /\ Acts(u, c) /\ c.do = "prompt" /\ c.arg = p
       /\ UNCHANGED <<vars, evts, early, running, streamed>>
  BY <1>5, <1>6, <1>7, <1>8, <1>9, SendActs DEF Base
<1>11. Fit(u, v)
  BY <1>4, <1>7, SameFit
<1>12. Timely(vs[0])'
  <2> SUFFICES ASSUME ~early' PROVE Slotted' /\ Single' /\ Blocked(v)' /\ Aimed' /\ Told(ui.turns)'
    BY <1>3, Zenon DEF Timely
  <2>1. Slotted /\ Single /\ Blocked(v) /\ Aimed /\ Told(ui.turns)
    BY <1>3, <1>10 DEF Sees, Timely
  <2>2. ~Sent
    <3>1. \A i \in 1..Len(cmds) : cmds[i].do = "prompt" => cmds[i].arg # 0
      <4>1. \A i \in 1..typed : i # 0
        OBVIOUS
      <4> QED
        BY <4>1 DEF Base, LineTypes, LineFits
    <3> QED
      BY <1>5, <2>1, <3>1 DEF Slotted, Sent
  <2>3. task # "created"
    BY <1>5, <2>1 DEF Slotted, Base, Misc
  <2>4. ~Starting
    <3>1. \A i \in 1..Len(evts) : evts[i].type = "turn.started" => evts[i].prompt # 0
      BY DEF Sees, Trail, Legal, Prompts
    <3> QED
      BY <1>5, <2>1, <3>1 DEF Slotted, Starting
  <2>5. v.open = 0
    BY <1>5, <2>1 DEF Blocked
  <2>6. ~Live
    <3>1. vs[Len(evts)].open = 0
      <4>1. vs[Len(evts)].open # 0 => vs[0].open = vs[Len(evts)].open
        BY <2>4, TrailOpen DEF Sees, Base, ClientTypes, Starting
      <4> QED
        BY <1>3, <2>5, <4>1
    <3>2. turnId = 0
      BY <3>1 DEF Sees, Leads
    <3> QED
      BY <2>3, <3>2, BridgeFacts DEF Live, Base
  <2>7. UNCHANGED <<evts, task, running, turnId, session>> /\ Wrote(c) /\ ui' = u
    BY <1>10 DEF Acts, vars, turnVars, sessions
  <2>8. ~Live' /\ task' # "created" /\ ~Starting'
    BY <2>3, <2>4, <2>6, <2>7 DEF Live, Starting
  <2>9. \A j \in 1..Len(cmds') :
          /\ cmds'[j].do = "prompt" => j > Len(cmds) /\ cmds'[j] = c
          /\ j > Len(cmds) => cmds'[j] = c /\ j = Len(cmds) + 1
    BY <2>2, <2>7 DEF Sent, Wrote
  <2>10. Slotted'
    BY <1>7, <1>10, <2>7, <2>8, <2>9 DEF Slotted, Starting
  <2>11. Single'
    BY <2>8, <2>9 DEF Single, Starting
  <2>12. Blocked(v)'
    <3>1. Rendered.busy <=> v.open # 0
      BY <1>4, RenderedFits
    <3> QED
      BY <1>5, <2>5, <3>1 DEF Blocked
  <2>13. Aimed'
    <3>1. ASSUME NEW i \in 1..Len(cmds'), NEW j \in 1..Len(cmds'),
                 cmds'[i].do = "prompt", cmds'[j].do = "interrupt"
          PROVE  j < i
      <4>1. i > Len(cmds) /\ i = Len(cmds) + 1
        BY <2>9, <3>1
      <4>2. ~(j > Len(cmds))
        BY <1>10, <2>9, <3>1
      <4> QED
        BY <2>7, <4>1, <4>2 DEF Wrote
    <3> QED
      BY <2>8, <3>1 DEF Aimed
  <2>14. Told(ui.turns)'
    BY <1>7, <2>1, <2>7 DEF Told
  <2> QED
    BY <2>10, <2>11, <2>12, <2>13, <2>14
<1>13. Fit(u, vs[0])
  BY <1>3, <1>11
<1>14. c.do # "respond"
  BY <1>10
<1> QED
  BY <1>5, <1>7, <1>10, <1>12, <1>13, <1>14, CalmKeeps

LEMMA SlashKeeps ==
  ASSUME Base, BridgeInv', Misc', NEW vs, Sees(vs), NEW do \in {"new", "list"}, SubmitSlash(do)
  PROVE  SystemInv' /\ ui'.turns = ui.turns
<1>1. PICK u : u = ui
  OBVIOUS
<1>a. PICK a : a = 0
  OBVIOUS
<1>h. PICK h : h = ""
  OBVIOUS
<1>2. PICK c : c = [do |-> do, arg |-> a, how |-> h]
  OBVIOUS
<1>3. LineFits(c, typed')
  <2>1. c.do = do
    BY <1>2
  <2> QED
    BY <2>1 DEF LineFits
<1>4. /\ u \in UiState /\ ui' = u /\ shown' = Rendered /\ typed' = typed /\ Send(do, a, h)
      /\ typed \in 0..MaxInputs
  BY <1>1, <1>a, <1>h DEF SubmitSlash, Render, Base, ClientTypes
<1>5. typed' \in 0..MaxInputs /\ typed <= typed'
  <2>1. typed' = typed /\ typed \in 0..MaxInputs
    BY <1>4
  <2> QED
    BY <2>1, BridgeAssumption
<1>6. /\ Acts(u, c) /\ c.do = do
      /\ UNCHANGED <<vars, evts, early, running, streamed>>
  <2>1. ui' = u /\ shown' = Rendered /\ Send(do, a, h) /\ u \in UiState
    BY <1>4
  <2>2. ClientTypes
    BY DEF Base
  <2> QED
    BY <1>2, <1>3, <1>5, <2>1, <2>2, SendActs
<1>7. Fit(u, vs[0])
  BY <1>1 DEF Sees, Shows
<1>8. c.do \notin {"prompt", "respond", "interrupt"}
  BY <1>6
<1>9. Timely(vs[0])'
  <2>1. CASE early
    BY <1>6, <2>1 DEF Timely
  <2>2. CASE ~early
    BY <1>1, <1>6, <1>8, <2>2, ActsTimely DEF Sees, Timely
  <2> QED
    BY <2>1, <2>2
<1>10. c.do # "respond"
  BY <1>8
<1> QED
  BY <1>1, <1>4, <1>6, <1>7, <1>9, <1>10, CalmKeeps

LEMMA PickKeeps ==
  ASSUME Base, BridgeInv', Misc', NEW vs, Sees(vs), NEW t \in Threads, Pick(t)
  PROVE  SystemInv' /\ ui'.turns = ui.turns
<1>1. PICK u : u = [ui EXCEPT !.picking = FALSE]
  OBVIOUS
<1>d. PICK do : do = "resume"
  OBVIOUS
<1>h. PICK h : h = ""
  OBVIOUS
<1>2. PICK c : c = [do |-> do, arg |-> t, how |-> h]
  OBVIOUS
<1>3. LineFits(c, typed')
  <2>1. c.do = "resume" /\ c.arg = t
    BY <1>2, <1>d
  <2> QED
    BY <2>1 DEF LineFits
<1>4. /\ ui \in UiState /\ ui' = u /\ shown' = Rendered /\ typed' = typed
      /\ Send(do, t, h) /\ typed \in 0..MaxInputs
  BY <1>1, <1>d, <1>h DEF Pick, Render, Base, ClientTypes
<1>5. typed' \in 0..MaxInputs /\ typed <= typed'
  <2>1. typed' = typed /\ typed \in 0..MaxInputs
    BY <1>4
  <2> QED
    BY <2>1, BridgeAssumption
<1>6. /\ u \in UiState /\ u.slot = ui.slot
      /\ u.thread = ui.thread /\ u.turns = ui.turns /\ u.queue = ui.queue
      /\ u.buffer = ui.buffer
  BY <1>1, <1>4, PickerClosed
<1>7. /\ Acts(u, c) /\ c.do = do
      /\ UNCHANGED <<vars, evts, early, running, streamed>>
  <2>1. ui' = u /\ shown' = Rendered /\ Send(do, t, h) /\ u \in UiState
    BY <1>4, <1>6
  <2>2. ClientTypes
    BY DEF Base
  <2> QED
    BY <1>2, <1>3, <1>5, <2>1, <2>2, SendActs
<1>8. Fit(u, vs[0])
  BY <1>6, SameFit DEF Sees, Shows
<1>9. c.do # "prompt" /\ c.do # "respond" /\ c.do # "interrupt"
  BY <1>7, <1>d
<1>10. Timely(vs[0])'
  <2>1. CASE early
    BY <1>7, <2>1 DEF Timely
  <2>2. CASE ~early
    BY <1>6, <1>7, <1>9, <2>2, ActsTimely DEF Sees, Timely
  <2> QED
    BY <2>1, <2>2
<1> QED
  BY <1>4, <1>6, <1>7, <1>8, <1>9, <1>10, CalmKeeps

(* The turn shown while nothing is under way is the one that runs.         *)
LEMMA InterruptKeeps ==
  ASSUME Base, BridgeInv', Misc', NEW vs, Sees(vs), PressInterrupt
  PROVE  SystemInv' /\ ui'.turns = ui.turns
<1>1. PICK u : u = ui
  OBVIOUS
<1>2. PICK k : k = ShownTurn
  OBVIOUS
<1>3. PICK h : h = ui.thread
  OBVIOUS
<1>4. PICK c : c = [do |-> "interrupt", arg |-> k, how |-> h]
  OBVIOUS
<1>5. LineFits(c, typed')
  <2>1. c.do = "interrupt"
    BY <1>4
  <2> QED
    BY <2>1 DEF LineFits
<1>6. /\ u \in UiState /\ ui' = u /\ shown' = shown /\ typed' = typed /\ shown.busy
      /\ Send("interrupt", k, h) /\ typed \in 0..MaxInputs
  BY <1>1, <1>2, <1>3 DEF PressInterrupt, client, Base, ClientTypes
<1>7. typed' \in 0..MaxInputs /\ typed <= typed'
  BY <1>6, BridgeAssumption
<1>8. /\ Acts(u, c) /\ c.do = "interrupt" /\ c.arg = k /\ c.how = h
      /\ UNCHANGED <<vars, evts, early, running, streamed>>
  BY <1>4, <1>5, <1>6, <1>7, SendActs DEF Base
<1>9. Fit(u, vs[0])
  BY <1>1 DEF Sees, Shows
<1>10. c.do # "prompt" /\ c.do # "respond"
  BY <1>8
<1>11. Timely(vs[0])'
  <2>1. CASE early
    BY <1>8, <2>1 DEF Timely
  <2>2. CASE ~early
    <3>1. Blocked(vs[0])
      BY <2>2 DEF Sees, Timely
    <3>2. ~Sent /\ task # "created" /\ ~Starting
      BY <1>6, <3>1 DEF Blocked
    <3>3. ASSUME Live PROVE k # 0 /\ k = turnId /\ h = session.thread
      <4>1. turnId # 0
        BY <3>2, <3>3, BridgeFacts DEF Live, Base
      <4>2. vs[Len(evts)].open = turnId /\ vs[Len(evts)].thread = session.thread
        BY DEF Sees, Leads
      <4>3. vs[0].open = turnId /\ vs[0].thread = session.thread
        BY <3>2, <4>1, <4>2, TrailOpen DEF Sees, Base, ClientTypes, Starting
      <4>4. PICK v : v = vs[0]
        OBVIOUS
      <4>5. v \in Sight /\ Fit(ui, v) /\ ui \in UiState
        BY <4>4, LastSight DEF Sees, Shows, Base, ClientTypes
      <4>6. ShownTurn = v.open /\ ui.thread = v.thread
        BY <4>1, <4>3, <4>4, <4>5, ShownOpen DEF Fit
      <4> QED
        BY <1>2, <1>3, <4>1, <4>3, <4>4, <4>6
    <3> QED
      BY <1>1, <1>8, <1>10, <2>2, <3>2, <3>3, ActsTimely DEF Sees, Timely
  <2> QED
    BY <2>1, <2>2
<1> QED
  BY <1>1, <1>6, <1>8, <1>9, <1>10, <1>11, CalmKeeps

(* An answer settles the request of the handler.                           *)
LEMMA DecideKeeps ==
  ASSUME Base, BridgeInv', Misc', NEW vs, Sees(vs), NEW d \in Decisions, Decide(d)
  PROVE  SystemInv' /\ ui'.turns = ui.turns
<1>1. PICK u : u = ui'
  OBVIOUS
<1>2. PICK v : v = vs[0]
  OBVIOUS
<1>3. PICK r : r = shown.request
  OBVIOUS
<1>4. PICK do : do = "respond"
  OBVIOUS
<1>5. PICK c : c = [do |-> do, arg |-> r, how |-> d]
  OBVIOUS
<1>6. /\ v \in Sight /\ Shows(v) /\ Fit(ui, v) /\ FitQueue(ui, v) /\ ui \in UiState
  BY <1>2, LastSight DEF Sees, Shows, Base, ClientTypes
<1>7. r \in 1..MaxRequests /\ r <= v.asked
  BY <1>3, <1>6 DEF Decide, Base, ClientTypes, Handlers, Shows
<1>8. /\ ui' = u /\ shown' = Rendered /\ typed' = typed /\ Send(do, r, d)
      /\ u = IF ui.queue # <<>> /\ Head(ui.queue).request = r
             THEN [ui EXCEPT !.queue = Tail(ui.queue)] ELSE ui
  BY <1>1, <1>3, <1>4 DEF Decide, Render
<1>9. LineFits(c, typed')
  <2>1. c.do = "respond" /\ c.arg = r /\ c.how = d
    BY <1>4, <1>5
  <2> QED
    BY <1>7, <2>1 DEF LineFits
<1>10. typed' \in 0..MaxInputs /\ typed <= typed'
  <2>1. typed' = typed /\ typed \in 0..MaxInputs
    BY <1>8 DEF Base, ClientTypes
  <2> QED
    BY <2>1, BridgeAssumption
<1>11. /\ u \in UiState /\ u.slot = ui.slot /\ u.thread = ui.thread /\ u.turns = ui.turns
       /\ u.buffer = ui.buffer
       /\ \/ u.queue = ui.queue /\ \A j \in DOMAIN u.queue : u.queue[j].request # r
          \/ u.queue = <<>> /\ DOMAIN u.queue = {}
             /\ \A j \in DOMAIN ui.queue : ui.queue[j].request = r
  <2>1. CASE ui.queue = <<>>
    <3>1. u = ui /\ DOMAIN u.queue = {}
      BY <1>8, <2>1
    <3> QED
      BY <1>6, <3>1
  <2>2. CASE ui.queue # <<>>
    <3>1. PICK q : ui.queue = <<q>>
      BY <1>6, <2>2 DEF FitQueue
    <3>2. /\ Head(ui.queue) = q /\ Tail(ui.queue) = <<>>
          /\ \A j \in DOMAIN ui.queue : ui.queue[j] = q
      BY <3>1
    <3>3. CASE q.request = r
      <4>1. u = [ui EXCEPT !.queue = <<>>]
        BY <1>8, <2>2, <3>2, <3>3
      <4>2. /\ u \in UiState /\ u.slot = ui.slot /\ u.thread = ui.thread
            /\ u.turns = ui.turns /\ u.buffer = ui.buffer /\ u.queue = <<>>
        <5>1. <<>> \in Seq(Asked)
          OBVIOUS
        <5> QED
          BY <1>6, <4>1, <5>1 DEF UiState
      <4>3. DOMAIN u.queue = {}
        BY <4>2
      <4> QED
        BY <3>2, <3>3, <4>2, <4>3
    <3>4. CASE q.request # r
      <4>1. u = ui
        BY <1>8, <3>2, <3>4
      <4> QED
        BY <1>6, <3>2, <3>4, <4>1
    <3> QED
      BY <3>3, <3>4
  <2> QED
    BY <2>1, <2>2
<1>12. /\ Acts(u, c) /\ c.do = "respond" /\ c.arg = r
       /\ Len(cmds') = Len(cmds) + 1 /\ cmds'[Len(cmds) + 1] = c
       /\ UNCHANGED <<vars, evts, early, running, streamed>>
  <2>1. ui' = u /\ shown' = Rendered /\ Send(do, r, d) /\ u \in UiState
    BY <1>8, <1>11
  <2> QED
    BY <1>4, <1>5, <1>9, <1>10, <2>1, SendActs DEF Base
<1>13. Fit(u, v)
  BY <1>6, <1>11, SameFit
<1>14. FitQueue(u, v)
  BY <1>6, <1>11 DEF FitQueue
<1>15. \A j \in DOMAIN u.queue : u.queue[j].request # r
  BY <1>11
<1>16. ActsSettle(u, c, v)
  <2> SUFFICES ASSUME NEW s
               PROVE  /\ Settled(v, s) => s <= v.asked
                                          /\ \A j \in DOMAIN u.queue : u.queue[j].request # s
                      /\ s <= v.asked /\ (\A j \in DOMAIN u.queue : u.queue[j].request # s)
                           => Settled(v, s) \/ (c.do = "respond" /\ c.arg = s)
    BY DEF ActsSettle
  <2>1. CASE s = r
    BY <1>12, <1>15, <2>1 DEF Settled
  <2>2. CASE s # r
    BY <1>11, <2>2 DEF Settled
  <2> QED
    BY <2>1, <2>2
<1>17. Asking(vs)'
  BY <1>2, <1>7, <1>12, <1>15, <1>16, ActsAsking DEF Sees
<1>18. Timely(vs[0])'
  <2>1. CASE early
    BY <1>12, <2>1 DEF Timely
  <2>2. CASE ~early
    <3>1. c.do # "prompt" /\ c.do # "interrupt"
      BY <1>12
    <3> QED
      BY <1>11, <1>12, <2>2, <3>1, ActsTimely DEF Sees, Timely
  <2> QED
    BY <2>1, <2>2
<1> QED
  BY <1>2, <1>8, <1>11, <1>12, <1>13, <1>14, <1>17, <1>18, ActsKeeps

-------------------------------------------------------------------------------
(* The step that reads an event.                                           *)

(* What has been settled stays so, and an event settles a request only by  *)
(* closing the turn that waits for it.                                     *)
LEMMA ReadSettles ==
  ASSUME NEW u, NEW v \in Sight, FitQueue(u, v), NEW e, Legal(v, e), NEW q, Reads(u, v, e, q),
         e.type = "approval.requested" => u.queue = <<>>, NEW w, w = Move(v, e), NEW r \in Nat
  PROVE  LET before == r <= v.asked /\ \A j \in DOMAIN u.queue : u.queue[j].request # r
             after == r <= w.asked /\ \A j \in DOMAIN q.queue : q.queue[j].request # r
         IN  /\ before => after
             /\ after => before \/ (r <= w.asked /\ w.ask = 0)
             /\ v.asked <= w.asked
<1>1. Fields(v) /\ Moved(v, e, w) /\ v.asked \in Nat
  BY SightFields, MoveFields, BridgeAssumption DEF Fields
<1>2. CASE e.type = "approval.requested"
  <2>1. w.asked = v.asked + 1 /\ e.request = v.asked + 1 /\ DOMAIN u.queue = {}
    BY <1>1, <1>2 DEF Moved, Legal
  <2>2. DOMAIN q.queue = {1} /\ q.queue[1].request = e.request
    BY <1>2 DEF Reads
  <2> QED
    BY <1>1, <2>1, <2>2
<1>3. CASE e.type # "approval.requested" /\ Closes(v, e)
  <2>1. w.asked = v.asked /\ w.ask = 0
    BY <1>1, <1>3 DEF Moved, Closes
  <2>2. q.queue = <<>> /\ DOMAIN q.queue = {}
    BY <1>3 DEF Reads
  <2> QED
    BY <1>1, <2>1, <2>2
<1>4. CASE e.type # "approval.requested" /\ ~Closes(v, e)
  <2>1. w.asked = v.asked
    BY <1>4 DEF Move
  <2>2. q.queue = u.queue
    BY <1>4 DEF Reads
  <2> QED
    BY <1>1, <2>1, <2>2
<1> QED
  BY <1>2, <1>3, <1>4

(* The rest of the trail.                                                  *)
Rest(vs, ws) ==
  /\ IsSeq(evts') /\ Len(evts) \in Nat \ {0} /\ Len(evts') = Len(evts) - 1
  /\ \A i \in 1..Len(evts') : evts'[i] = evts[i + 1] /\ i + 1 \in 1..Len(evts)
  /\ \A i \in 0..Len(evts') : ws[i] = vs[i + 1]
  /\ Trail(ws, evts')
  /\ ws[0] = Move(vs[0], evts[1]) /\ ws[Len(evts')] = vs[Len(evts)]
  /\ Legal(vs[0], evts[1])

LEMMA TrailRest ==
  ASSUME ClientTypes, NEW vs, Trail(vs, evts), evts # <<>>, evts' = Tail(evts)
  PROVE  Head(evts) = evts[1] /\ \E ws : Rest(vs, ws)
<1> DEFINE t == Tail(evts)
           n == Len(evts)
<1>1. /\ IsSeq(t) /\ Len(t) = n - 1 /\ Head(evts) = evts[1] /\ n \in Nat \ {0}
      /\ \A i \in 1..(n - 1) : t[i] = evts[i + 1]
  BY Taken DEF ClientTypes
<1>2. PICK ws : Trail(ws, t) /\ \A i \in 0..(n - 1) : ws[i] = vs[i + 1]
  BY TrailShrinks DEF ClientTypes
<1> HIDE DEF t
<1>3. evts' = t
  BY DEF t
<1>4. IsSeq(evts') /\ Len(evts') = n - 1 /\ Trail(ws, evts')
  BY <1>1, <1>2, <1>3, Zenon
<1>5. \A i \in 1..(n - 1) : evts'[i] = evts[i + 1]
  BY <1>1, <1>3, Zenon
<1>6. \A i \in 1..(n - 1) : i + 1 \in 1..n
  BY <1>1
<1>7. ws[0] = vs[1] /\ ws[n - 1] = vs[n] /\ 1 \in 1..n
  <2>1. 0 \in 0..(n - 1) /\ n - 1 \in 0..(n - 1) /\ 0 + 1 = 1 /\ (n - 1) + 1 = n
    BY <1>1
  <2> QED
    BY <1>1, <1>2, <2>1
<1>8. Legal(vs[0], evts[1]) /\ vs[1] = Move(vs[0], evts[1])
  <2>1. Legal(vs[1 - 1], evts[1]) /\ vs[1] = Move(vs[1 - 1], evts[1])
    BY <1>7 DEF Trail
  <2>2. 1 - 1 = 0
    OBVIOUS
  <2> QED
    BY <2>1, <2>2
<1> QED
  BY <1>1, <1>2, <1>4, <1>5, <1>6, <1>7, <1>8 DEF Rest

(* The client reads e, on sight v, and then holds q.                       *)
Takes(vs, ws, v, e, q) ==
  /\ Rest(vs, ws)
  /\ v = vs[0] /\ e = evts[1] /\ q = ui'
  /\ Reads(ui, v, e, q)
  /\ shown' = Rendered
  /\ UNCHANGED <<vars, running, typed, sends, streamed, cmds, early>>

LEMMA ReceiveTakes ==
  ASSUME Base, NEW vs, Sees(vs), Receive
  PROVE  \E ws, v, e, q : Takes(vs, ws, v, e, q)
<1>1. evts # <<>> /\ evts' = Tail(evts) /\ ClientTypes /\ Trail(vs, evts)
  BY DEF Receive, Base, Sees
<1>2. Head(evts) = evts[1] /\ \E ws : Rest(vs, ws)
  BY <1>1, TrailRest
<1>3. PICK ws : Rest(vs, ws)
  BY <1>2
<1>4. PICK v : v = vs[0]
  OBVIOUS
<1>5. PICK e : e = evts[1]
  OBVIOUS
<1>6. PICK q : q = ui'
  OBVIOUS
<1>7. v \in Sight /\ Fit(ui, v) /\ FitQueue(ui, v) /\ ui \in UiState
  BY <1>4, LastSight DEF Sees, Shows, Base, ClientTypes
<1>8. Legal(v, e)
  BY <1>3, <1>4, <1>5 DEF Rest
<1>9. q = IF e.type = "item.updated" THEN [ui EXCEPT !.buffer = Append(@, e.turn)]
          ELSE Reduced(Flushed(ui), e)
  BY <1>2, <1>5, <1>6 DEF Receive
<1>10. Reads(ui, v, e, q)
  BY <1>7, <1>8, <1>9, ReadAny
<1>11. shown' = Rendered /\ UNCHANGED <<vars, running, typed, sends, streamed, cmds, early>>
  BY DEF Receive, Render, Local, BridgeIdle
<1> QED
  BY <1>3, <1>4, <1>5, <1>6, <1>10, <1>11 DEF Takes

(* A request is read only when none is shown.                              *)
LEMMA TakesQueue ==
  ASSUME NEW vs, Sees(vs), NEW ws, NEW v, NEW e, NEW q, Takes(vs, ws, v, e, q)
  PROVE  e.type = "approval.requested" => ui.queue = <<>>
<1> SUFFICES ASSUME e.type = "approval.requested", ui.queue # <<>> PROVE FALSE
  OBVIOUS
<1>1. v.ask # 0 /\ ui.queue = <<[request |-> v.ask, turn |-> v.open]>>
  BY DEF Sees, Shows, FitQueue, Takes
<1>2. 1 \in 1..Len(evts) /\ 1 - 1 = 0
  BY DEF Takes, Rest
<1>3. Settled(vs[1 - 1], v.ask)
  BY <1>1, <1>2 DEF Sees, Asking, NextAsked, Takes
<1>4. 1 \in DOMAIN ui.queue /\ ui.queue[1].request = v.ask
  BY <1>1
<1> QED
  BY <1>3, <1>4 DEF Settled

LEMMA TakesSettles ==
  ASSUME Base, NEW vs, Sees(vs), NEW ws, NEW v, NEW e, NEW q, Takes(vs, ws, v, e, q),
         NEW w, w = ws[0], NEW r \in Nat
  PROVE  /\ Settled(v, r) => Settled(w, r)'
         /\ Settled(w, r)' => Settled(v, r) \/ (r <= w.asked /\ w.ask = 0)
         /\ v.asked <= w.asked
<1>1. v \in Sight /\ FitQueue(ui, v)
  BY LastSight DEF Takes, Sees, Shows
<1>2. Legal(v, e) /\ Reads(ui, v, e, q) /\ w = Move(v, e) /\ ui' = q
  BY DEF Takes, Rest
<1>3. e.type = "approval.requested" => ui.queue = <<>>
  BY TakesQueue
<1>4. Settled(w, r)' <=> r <= w.asked /\ \A j \in DOMAIN q.queue : q.queue[j].request # r
  BY <1>2 DEF Settled
<1> QED
  BY <1>1, <1>2, <1>3, <1>4, ReadSettles DEF Settled

LEMMA TakesShows ==
  ASSUME Base, NEW vs, Sees(vs), NEW ws, NEW v, NEW e, NEW q, Takes(vs, ws, v, e, q)
  PROVE  Shows(ws[0])' /\ Rendered \in Handlers
<1>1. PICK w : w = ws[0]
  OBVIOUS
<1>2. v \in Sight /\ Fit(ui, v) /\ FitQueue(ui, v) /\ ui \in UiState
  BY LastSight DEF Takes, Sees, Shows, Base, ClientTypes
<1>3. Legal(v, e) /\ Reads(ui, v, e, q) /\ w = Move(v, e) /\ ui' = q /\ shown' = Rendered
  BY <1>1 DEF Takes, Rest
<1>4. Fit(q, w)
  BY <1>3 DEF Reads
<1>5. e.type = "approval.requested" => ui.queue = <<>>
  BY TakesQueue
<1>6. FitQueue(q, w)
  BY <1>2, <1>3, <1>5, ReadQueue
<1>7. /\ Rendered \in Handlers /\ Rendered.request <= v.asked
      /\ (Rendered.busy => Rendered.disabled)
  BY <1>2, RenderedFits
<1>8. v.asked <= w.asked
  BY <1>1, TakesSettles
<1>9. v.asked \in Nat /\ w.asked \in Nat
  <2>1. w \in Sight
    BY <1>2, <1>3, MoveSound
  <2> QED
    BY <1>2, <2>1, BridgeAssumption DEF Sight
<1>10. Rendered.request <= w.asked
  BY <1>7, <1>8, <1>9, BridgeAssumption DEF Handlers
<1>11. Shows(w)'
  BY <1>3, <1>4, <1>6, <1>7, <1>10 DEF Shows
<1> QED
  BY <1>1, <1>7, <1>11

LEMMA TakesAsking ==
  ASSUME Base, NEW vs, Sees(vs), NEW ws, NEW v, NEW e, NEW q, Takes(vs, ws, v, e, q)
  PROVE  Asking(ws)'
<1>1. PICK w : w = ws[0]
  OBVIOUS
<1>2. /\ Rest(vs, ws) /\ v = vs[0] /\ UNCHANGED <<request, answer, cmds>>
  BY DEF Takes, vars, approvals
<1>3. Asking(vs) /\ Leads(vs[Len(evts)])
  BY DEF Sees
<1>4. \A r \in Nat : /\ Settled(v, r) => Settled(w, r)'
                     /\ Settled(w, r)' => Settled(v, r) \/ (r <= w.asked /\ w.ask = 0)
  BY <1>1, TakesSettles
<1>5. \A i \in 0..Len(evts) : vs[i].ask \in Nat /\ vs[i].asked \in Nat
  BY BridgeAssumption DEF Sees, Trail, Sight
<1>6. NextAsked(ws)'
  <2> SUFFICES ASSUME NEW i \in 1..Len(evts'), evts'[i].type = "approval.requested",
                      NEW r, r = ws[i - 1].ask, r # 0
               PROVE  Settled(w, r)'
    BY <1>1 DEF NextAsked
  <2>1. /\ i + 1 \in 1..Len(evts) /\ evts'[i] = evts[i + 1]
        /\ i - 1 \in 0..Len(evts') /\ (i - 1) + 1 = i /\ (i + 1) - 1 = i
        /\ i \in 0..Len(evts)
    BY <1>2 DEF Rest
  <2>2. ws[i - 1] = vs[i]
    BY <1>2, <2>1 DEF Rest
  <2>3. r = vs[(i + 1) - 1].ask /\ evts[i + 1].type = "approval.requested"
    BY <2>1, <2>2
  <2>4. Settled(vs[0], r)
    BY <1>3, <2>1, <2>3 DEF Asking, NextAsked
  <2>5. r \in Nat
    BY <1>5, <2>1, <2>3
  <2> QED
    BY <1>2, <1>4, <2>4, <2>5
<1>7. AnswersSent(w)'
  <2> SUFFICES ASSUME NEW j \in 1..Len(cmds'), cmds'[j].do = "respond", NEW r, r = cmds'[j].arg
               PROVE  Settled(w, r)'
    BY DEF AnswersSent
  <2>1. j \in 1..Len(cmds) /\ cmds[j].do = "respond" /\ r = cmds[j].arg
    BY <1>2
  <2>2. Settled(v, r)
    BY <1>2, <1>3, <2>1 DEF Asking, AnswersSent
  <2>3. r \in Nat
    BY <2>1 DEF Base, LineTypes, LineFits
  <2> QED
    BY <1>4, <2>2, <2>3
<1>8. Undecided(w, ws[Len(evts)].ask)'
  <2> SUFFICES ASSUME NEW r, r = ws[Len(evts')].ask PROVE Undecided(w, r)'
    BY Zenon
  <2>1. r = vs[Len(evts)].ask /\ Len(evts) \in 0..Len(evts)
    BY <1>2 DEF Rest
  <2>2. r \in Nat
    BY <1>5, <2>1
  <2>3. r # 0 /\ ~Settled(v, r) => request = r /\ answer = "none"
    BY <1>2, <1>3, <2>1 DEF Asking, Undecided
  <2>4. r # 0 /\ ~Settled(w, r)' => request' = r /\ answer' = "none"
    BY <1>2, <1>4, <2>2, <2>3
  <2> QED
    BY <2>4 DEF Undecided
<1>9. AnswerComes(w)'
  <2> SUFFICES ASSUME request' # 0, answer' = "none", Settled(w, request)'
               PROVE  \E j \in 1..Len(cmds') : cmds'[j].do = "respond" /\ cmds'[j].arg = request'
    BY DEF AnswerComes
  <2>1. PICK r : r = request
    OBVIOUS
  <2>2. r # 0 /\ answer = "none" /\ Settled(w, r)'
    BY <1>2, <2>1 DEF Settled
  <2>3. r \in Nat
    BY <2>1, BridgeFacts, BridgeAssumption DEF Base
  <2>4. ~(r <= w.asked /\ w.ask = 0)
    <3>1. 1 \in 0..Len(evts) /\ Len(evts) \in 0..Len(evts) /\ 1 <= Len(evts)
      BY <1>2 DEF Rest
    <3>2. w = vs[1]
      <4>1. 0 \in 0..Len(evts') /\ 0 + 1 = 1
        BY <1>2 DEF Rest
      <4> QED
        BY <1>1, <1>2, <4>1 DEF Rest
    <3>3. vs[Len(evts)].ask = 0 \/ vs[Len(evts)].ask = w.ask \/ vs[Len(evts)].ask > w.asked
      BY <3>1, <3>2, TrailAsks DEF Sees, Base, ClientTypes
    <3>4. vs[Len(evts)].ask = r
      BY <1>3, <2>1, <2>2 DEF Leads
    <3>5. w.asked \in Nat
      BY <1>5, <3>1, <3>2
    <3> QED
      BY <2>2, <2>3, <3>3, <3>4, <3>5
  <2>5. Settled(v, r)
    BY <1>4, <2>2, <2>3, <2>4
  <2>6. \E j \in 1..Len(cmds) : cmds[j].do = "respond" /\ cmds[j].arg = request
    BY <1>2, <1>3, <2>1, <2>2, <2>5 DEF Asking, AnswerComes
  <2> QED
    BY <1>2, <2>6
<1> QED
  BY <1>1, <1>6, <1>7, <1>8, <1>9 DEF Asking

LEMMA TakesTimely ==
  ASSUME Base, NEW vs, Sees(vs), NEW ws, NEW v, NEW e, NEW q, Takes(vs, ws, v, e, q)
  PROVE  Timely(ws[0])'
<1>1. PICK w : w = ws[0]
  OBVIOUS
<1>2. /\ Rest(vs, ws) /\ v = vs[0] /\ e = evts[1] /\ Reads(ui, v, e, q) /\ ui' = q
      /\ UNCHANGED <<cmds, early, task, running, turnId, session>> /\ shown' = Rendered
      /\ (Live' <=> Live)
  BY DEF Takes, vars, turnVars, sessions, Live
<1>3. v \in Sight /\ Fit(ui, v) /\ FitQueue(ui, v) /\ ui \in UiState
  BY <1>2, LastSight DEF Sees, Shows, Base, ClientTypes
<1>4. w = Move(v, e) /\ Legal(v, e) /\ 1 \in 1..Len(evts)
  BY <1>1, <1>2 DEF Rest
<1>5. \A i \in 1..Len(evts') : /\ i + 1 \in 1..Len(evts) /\ evts'[i] = evts[i + 1]
                               /\ i + 1 # 1
  BY <1>2 DEF Rest
<1> SUFFICES ASSUME ~early'
             PROVE  Slotted' /\ Single' /\ Blocked(w)' /\ Aimed' /\ Told(ui.turns)'
  BY <1>1, Zenon DEF Timely
<1>6. Slotted /\ Single /\ Blocked(v) /\ Aimed /\ Told(ui.turns)
  BY <1>2 DEF Sees, Timely
<1>7. (Sent' <=> Sent) /\ (Starting' => Starting)
  BY <1>2, <1>5 DEF Sent, Starting
<1>8. e.type = "turn.started" => /\ ~Sent /\ task # "created" /\ ~Starting'
                                 /\ e.prompt = ui.slot /\ ui.slot # 0
  <2> SUFFICES ASSUME e.type = "turn.started"
               PROVE  /\ ~Sent /\ task # "created" /\ ~Starting'
                      /\ e.prompt = ui.slot /\ ui.slot # 0
    OBVIOUS
  <2>1. Starting
    BY <1>2, <1>4 DEF Starting
  <2>2. ~Starting'
    <3> SUFFICES ASSUME NEW i \in 1..Len(evts'), evts'[i].type = "turn.started" PROVE FALSE
      BY DEF Starting
    <3>1. evts[i + 1].type = "turn.started" /\ i + 1 \in 1..Len(evts) /\ i + 1 # 1
      BY <1>5
    <3> QED
      BY <1>2, <1>4, <1>6, <3>1 DEF Single
  <2>3. e.prompt = ui.slot
    BY <1>2, <1>4, <1>6 DEF Slotted
  <2>4. e.prompt # 0
    BY <1>4 DEF Legal, Prompts
  <2> QED
    BY <1>6, <2>1, <2>2, <2>3, <2>4 DEF Single
<1>9. q.slot = IF e.type = "turn.started" THEN 0 ELSE ui.slot
  BY <1>2 DEF Reads
<1>10. Slotted'
  <2>1. CASE e.type = "turn.started"
    <3>1. ~Sent' /\ task' # "created" /\ ~Starting'
      BY <1>2, <1>7, <1>8, <2>1
    <3> QED
      BY <3>1 DEF Slotted, Sent, Starting
  <2>2. CASE e.type # "turn.started"
    BY <1>2, <1>5, <1>6, <1>9, <2>2 DEF Slotted
  <2> QED
    BY <2>1, <2>2
<1>11. Single'
  <2>1. ASSUME NEW i \in 1..Len(evts'), NEW j \in 1..Len(evts'),
               evts'[i].type = "turn.started", evts'[j].type = "turn.started"
        PROVE  i = j
    <3>1. i + 1 = j + 1
      BY <1>5, <1>6, <2>1 DEF Single
    <3> QED
      BY <3>1
  <2>2. \A i, j \in 1..Len(cmds') : cmds'[i].do = "prompt" /\ cmds'[j].do = "prompt" => i = j
    BY <1>2, <1>6 DEF Single
  <2> QED
    BY <1>2, <1>6, <1>7, <2>1, <2>2 DEF Single
<1>12. Blocked(w)'
  <2>1. /\ (Rendered.busy <=> v.open # 0) /\ (Rendered.busy => Rendered.disabled)
        /\ (ui.slot # 0 => Rendered.disabled)
    BY <1>3, RenderedFits
  <2>2. w.open # 0 => v.open # 0 \/ e.type = "turn.started"
    BY <1>4 DEF Move
  <2>3. v.open # 0 \/ e.type = "turn.started" => ~Sent /\ task # "created" /\ ~Starting'
    BY <1>6, <1>7, <1>8 DEF Blocked
  <2> QED
    BY <1>2, <1>7, <1>8, <2>1, <2>2, <2>3 DEF Blocked
<1>13. Aimed'
  BY <1>2, <1>6 DEF Aimed
<1>14. Told(ui.turns)'
  <2>1. Told(q.turns)
    BY <1>2, <1>6, <1>8 DEF Reads
  <2> QED
    BY <1>2, <2>1 DEF Told
<1> QED
  BY <1>10, <1>11, <1>12, <1>13, <1>14

LEMMA ReceiveKeeps ==
  ASSUME Base, BridgeInv', Misc', NEW vs, Sees(vs), Receive
  PROVE  SystemInv' /\ (ui'.thread = ui.thread => Kept(ui'.turns, ui.turns))
<1>1. PICK ws, v, e, q : Takes(vs, ws, v, e, q)
  BY ReceiveTakes
<1>2. /\ Rest(vs, ws) /\ Reads(ui, v, e, q) /\ ui' = q /\ shown' = Rendered
      /\ UNCHANGED <<vars, running, typed, sends, streamed, cmds, early>>
  BY <1>1 DEF Takes
<1>3. Shows(ws[0])' /\ Rendered \in Handlers
  BY <1>1, TakesShows
<1>4. Asking(ws)'
  BY <1>1, TakesAsking
<1>5. Timely(ws[0])'
  BY <1>1, TakesTimely
<1>6. ClientTypes'
  BY <1>2, <1>3 DEF ClientTypes, Base, Rest, Reads
<1>7. LineTypes'
  BY <1>2 DEF LineTypes, Base
<1>8. Leads(ws[Len(evts)])'
  <2>1. PICK m : m = vs[Len(evts)]
    OBVIOUS
  <2>2. m = ws[Len(evts')]
    BY <1>2, <2>1 DEF Rest
  <2>3. Leads(m)'
    BY <1>2, <2>1 DEF Sees, Leads, vars, sessions, turnVars, approvals
  <2> QED
    BY <2>2, <2>3, Zenon
<1>9. Trail(ws, evts)'
  BY <1>2, Zenon DEF Rest
<1>10. Sees(ws)'
  BY <1>3, <1>4, <1>5, <1>8, <1>9 DEF Sees
<1>11. ui'.thread = ui.thread => Kept(ui'.turns, ui.turns)
  BY <1>2 DEF Reads
<1> QED
  BY <1>6, <1>7, <1>10, <1>11 DEF SystemInv, Base

-------------------------------------------------------------------------------
(* The four steps of the bridge that the client's lines and windows watch: *)
(* a prompt is taken, a turn starts, it asks, an answer is taken.          *)

LEMMA StartKeeps ==
  ASSUME Base, BridgeInv', Misc', NEW vs, Sees(vs), Act(StartTurn)
  PROVE  SystemInv' /\ ui' = ui
<1>1. Relay /\ UNCHANGED <<cmds, running>> /\ StartTurn
  BY DEF Act
<1>2. UNCHANGED <<ui, shown, typed, sends, streamed, running, early, cmds>>
  BY <1>1 DEF Relay, client, bounds
<1>3. /\ session.thread \in Threads /\ adapter.thread = session.thread /\ task = "created"
      /\ turnId = 0 /\ request = 0 /\ adapter.counter \in 0..MaxInputs
      /\ adapter.counter + 1 <= MaxInputs /\ running \in Prompts /\ IsSeq(evts)
      /\ streamed \in 0..MaxDeltas /\ session \in Session
      /\ adapter \in [thread : Threads, counter : 0..MaxInputs, current : 0..MaxInputs]
  BY <1>1, BridgeFacts DEF Base, ClientTypes, Misc, StartTurn, Step, BridgeInv, CoreInv, CoreTypes,
                           NumberTypes, SessionTypes
<1>4. PICK k : k = adapter.counter + 1
  OBVIOUS
<1>5. PICK e : e = TurnEvent("turn.started", k)
  OBVIOUS
<1>6. PICK p : p = running
  OBVIOUS
<1>7. PICK l : l = [type |-> e.type, thread |-> e.thread, turn |-> e.turn, prompt |-> p]
  OBVIOUS
<1>8. /\ e.type = "turn.started" /\ e.thread = session.thread /\ e.turn = k
      /\ l.type = "turn.started" /\ l.thread = session.thread /\ l.turn = k /\ l.prompt = p
      /\ ~Terminal(l)
  BY <1>3, <1>5, <1>7 DEF TurnEvent, Terminal
<1>9. /\ out' = <<e>> /\ session'.thread = session.thread /\ turnId' = k
      /\ adapter'.counter = k /\ adapter'.current = k
      /\ task' = "running" /\ UNCHANGED <<request, answer, requests>>
  BY <1>1, <1>3, <1>4, <1>5 DEF StartTurn, Started, Emit, approvals, Session
<1>10. evts' = Append(evts, l)
  <2>1. Lines(e) = <<l>>
    BY <1>2, <1>6, <1>7, <1>8 DEF Lines
  <2> QED
    BY <1>1, <1>3, <1>9, <2>1, OneRelay
<1>11. PICK w : w = vs[Len(evts)]
  OBVIOUS
<1>12. w \in Sight /\ Fields(w) /\ Leads(w)
  BY <1>11, LastSight
<1>13. Legal(w, l)
  BY <1>3, <1>4, <1>6, <1>8, <1>12 DEF Legal, Types, Leads, Threads
<1>14. PICK m : m = Move(w, l)
  OBVIOUS
<1>15. Moved(w, l, m)
  BY <1>14, MoveFields
<1>16. /\ m.thread = w.thread /\ m.open = k /\ m.last = k /\ m.ask = w.ask
       /\ m.asked = w.asked /\ m.seen = w.seen
  BY <1>8, <1>15 DEF Moved
<1>17. k # 0 /\ w.ask = 0
  BY <1>3, <1>4, <1>12, BridgeAssumption DEF Fields, Leads
<1>18. Leads(m)'
  BY <1>2, <1>3, <1>9, <1>12, <1>16, <1>17 DEF Leads
<1>19. PICK ws : /\ Grown(vs, ws)
                 /\ Len(evts') = Len(evts) + 1 /\ evts'[Len(evts) + 1] = l
                 /\ ws[Len(evts) + 1] = m
  BY <1>3, <1>10, <1>11, <1>13, <1>14, <1>18, GrowOne DEF Sees
<1>20. /\ Len(evts) \in Nat
       /\ \A i \in 1..Len(evts') : \/ i \in 1..Len(evts) /\ evts'[i] = evts[i]
                                   \/ i > Len(evts) /\ i = Len(evts) + 1 /\ evts'[i] = l
  BY <1>19 DEF Grown
<1>21. Relays(vs, ws)
  <2>1. ws[Len(evts')] = m
    BY <1>19
  <2>2. \A i \in 1..Len(evts') : i > Len(evts) => evts'[i].type # "approval.requested"
    BY <1>8, <1>20
  <2> QED
    BY <1>2, <1>3, <1>9, <1>11, <1>16, <1>19, <2>1, <2>2 DEF Relays
<1>22. Timely(ws[0])'
  <2>a. ws[0] = vs[0]
    <3>1. 0 \in 0..Len(evts) /\ Grown(vs, ws)
      BY <1>19, <1>20
    <3> QED
      BY <3>1 DEF Grown
  <2>b. PICK v : v = vs[0]
    OBVIOUS
  <2>1. v = vs[0] /\ v = ws[0]
    BY <2>a, <2>b
  <2> SUFFICES ASSUME ~early' PROVE Slotted' /\ Single' /\ Blocked(v)' /\ Aimed' /\ Told(ui.turns)'
    BY <2>1, Zenon DEF Timely
  <2>2. Slotted /\ Single /\ Blocked(v) /\ Aimed /\ Told(ui.turns) /\ Live
    BY <1>2, <1>3, <2>1 DEF Sees, Timely, Live
  <2>3. p = ui.slot /\ ~Starting /\ ~Sent /\ ~Sent'
    BY <1>2, <1>3, <1>6, <2>2 DEF Slotted, Single, Sent
  <2>4. \A i \in 1..Len(evts') :
          evts'[i].type = "turn.started" => i = Len(evts) + 1 /\ evts'[i] = l
    BY <1>20, <2>3 DEF Starting
  <2>5. Slotted'
    BY <1>2, <1>8, <1>9, <2>3, <2>4 DEF Slotted, Sent
  <2>6. Single'
    BY <1>9, <2>3, <2>4 DEF Single, Sent
  <2>7. Blocked(v)'
    BY <1>2, <1>3, <2>2 DEF Blocked
  <2>8. Aimed'
    BY <1>2, <1>3, <2>2 DEF Aimed
  <2>9. Told(ui.turns)'
    BY <1>2, <2>2 DEF Told
  <2> QED
    BY <2>5, <2>6, <2>7, <2>8, <2>9
<1>23. running' \in Prompts \union {0}
  BY <1>2, <1>3
<1> QED
  BY <1>2, <1>21, <1>22, <1>23, RelaysKeeps

LEMMA AskKeeps ==
  ASSUME Base, BridgeInv', Misc', NEW vs, Sees(vs), Act(Ask)
  PROVE  SystemInv' /\ ui' = ui
<1>1. Relay /\ UNCHANGED <<cmds, running>> /\ Ask
  BY DEF Act
<1>2. UNCHANGED <<ui, shown, typed, sends, streamed, running, early, cmds>>
  BY <1>1 DEF Relay, client, bounds
<1>3. /\ session.thread \in Threads /\ adapter.thread = session.thread /\ task = "running"
      /\ turnId = adapter.counter /\ turnId # 0 /\ turnId \in 0..MaxInputs
      /\ request = 0 /\ requests \in 0..MaxRequests /\ requests < MaxRequests
      /\ IsSeq(evts) /\ streamed \in 0..MaxDeltas /\ running \in Prompts \union {0}
  BY <1>1, BridgeFacts DEF Base, ClientTypes, Ask, Step
<1>4. PICK r : r = requests + 1
  OBVIOUS
<1>5. PICK e : e = TurnEvent("approval.requested", turnId)
  OBVIOUS
<1>6. PICK l : l = [type |-> e.type, thread |-> e.thread, turn |-> e.turn, request |-> r]
  OBVIOUS
<1>7. /\ e.type = "approval.requested" /\ e.thread = session.thread /\ e.turn = turnId
      /\ l.type = "approval.requested" /\ l.thread = session.thread /\ l.turn = turnId
      /\ l.request = r /\ ~Terminal(l)
  BY <1>3, <1>5, <1>6 DEF TurnEvent, Terminal
<1>8. /\ out' = <<e>> /\ request' = r /\ requests' = r /\ answer' = "none" /\ task' = "asking"
      /\ UNCHANGED <<session, turnId, adapter>>
  BY <1>1, <1>4, <1>5 DEF Ask, Emit
<1>9. r \in 1..MaxRequests /\ requests < r /\ r # 0
  BY <1>3, <1>4, BridgeAssumption
<1>10. evts' = Append(evts, l)
  <2>1. Lines(e) = <<l>>
    BY <1>6, <1>7, <1>8 DEF Lines
  <2> QED
    BY <1>1, <1>3, <1>8, <2>1, OneRelay
<1>11. PICK w : w = vs[Len(evts)]
  OBVIOUS
<1>12. w \in Sight /\ Fields(w) /\ Leads(w)
  BY <1>11, LastSight
<1>13. Legal(w, l)
  BY <1>3, <1>4, <1>7, <1>9, <1>12 DEF Legal, Types, Leads, Threads
<1>14. PICK m : m = Move(w, l)
  OBVIOUS
<1>15. Moved(w, l, m)
  BY <1>14, MoveFields
<1>16. /\ m.thread = w.thread /\ m.open = w.open /\ m.last = w.last /\ m.failed = w.failed
       /\ m.ask = r /\ m.asked = r /\ m.seen = w.seen
  BY <1>7, <1>15 DEF Moved
<1>17. Leads(m)'
  BY <1>2, <1>3, <1>8, <1>12, <1>16 DEF Leads
<1>18. PICK ws : /\ Grown(vs, ws)
                 /\ Len(evts') = Len(evts) + 1 /\ evts'[Len(evts) + 1] = l
                 /\ ws[Len(evts) + 1] = m
  BY <1>3, <1>10, <1>11, <1>13, <1>14, <1>17, GrowOne DEF Sees
<1>19. /\ Len(evts) \in Nat
       /\ \A i \in 1..Len(evts') : \/ i \in 1..Len(evts) /\ evts'[i] = evts[i]
                                   \/ i > Len(evts) /\ i = Len(evts) + 1 /\ evts'[i] = l
       /\ \A i \in 0..Len(evts) : ws[i] = vs[i]
       /\ ws[Len(evts')] = m
  BY <1>18 DEF Grown
<1>20. PICK v : v = vs[0] /\ v = ws[0]
  <2>1. 0 \in 0..Len(evts)
    BY <1>19
  <2> QED
    BY <1>19, <2>1
<1>a. v.asked \in Nat
  <2>1. Fields(v)
    BY <1>20, LastSight
  <2> QED
    BY <2>1, BridgeAssumption DEF Fields
<1>21. Timely(ws[0])'
  <2>1. \A i \in 1..Len(evts') : i > Len(evts) => evts'[i].type # "turn.started"
    BY <1>7, <1>19
  <2>2. (Live' => Live) /\ task' # "created"
    BY <1>3, <1>8 DEF Live
  <2>3. Steady(vs, ws)
    BY <1>2, <1>8, <1>18, <2>1, <2>2 DEF Steady
  <2> QED
    BY <2>3, SteadyTimely
<1>22. \A s : Settled(v, s)' <=> Settled(v, s)
  BY <1>2 DEF Settled
<1>23. NextAsked(vs) /\ AnswersSent(v) /\ Undecided(v, w.ask)
  BY <1>11, <1>20 DEF Sees, Asking
<1>24. v.asked < r
  <2>1. 0 \in 0..Len(evts) /\ Len(evts) \in 0..Len(evts) /\ 0 <= Len(evts)
    BY <1>19
  <2>2. PICK a, b : a = 0 /\ b = Len(evts)
    OBVIOUS
  <2>3. vs[a].asked <= vs[b].asked
    BY <1>3, <2>1, <2>2, TrailAsks DEF Sees
  <2>4. v.asked <= w.asked /\ w.asked = requests
    BY <1>11, <1>12, <1>20, <2>2, <2>3 DEF Leads
  <2>5. v.asked \in Nat
    BY <1>a
  <2> QED
    BY <1>3, <1>9, <2>4, <2>5
<1>25. ~Settled(v, r)
  BY <1>9, <1>24, <1>a DEF Settled
<1>26. Asking(ws)'
  <2>1. NextAsked(ws)'
    <3> SUFFICES ASSUME NEW i \in 1..Len(evts'), evts'[i].type = "approval.requested",
                        NEW s, s = ws[i - 1].ask, s # 0
                 PROVE  Settled(v, s)
      BY <1>20, <1>22 DEF NextAsked
    <3>1. CASE i \in 1..Len(evts) /\ evts'[i] = evts[i]
      <4>1. i - 1 \in 0..Len(evts)
        BY <1>19, <3>1
      <4>2. s = vs[i - 1].ask
        BY <1>19, <4>1
      <4> QED
        BY <1>20, <1>23, <3>1, <4>2 DEF NextAsked
    <3>2. CASE i = Len(evts) + 1
      <4>1. i - 1 = Len(evts) /\ Len(evts) \in 0..Len(evts)
        BY <1>19, <3>2
      <4>2. s = w.ask
        BY <1>11, <1>19, <4>1
      <4> QED
        BY <1>3, <1>23, <4>2 DEF Undecided
    <3> QED
      BY <1>19, <3>1, <3>2
  <2>2. AnswersSent(v)'
    BY <1>2, <1>22, <1>23 DEF AnswersSent
  <2>3. Undecided(v, r)'
    BY <1>8 DEF Undecided
  <2>4. AnswerComes(v)'
    BY <1>8, <1>22, <1>25 DEF AnswerComes
  <2>5. Undecided(ws[0], ws[Len(evts)].ask)'
    <3>1. ws[Len(evts')].ask = r
      BY <1>16, <1>19
    <3> QED
      BY <1>20, <2>3, <3>1, Zenon
  <2>6. AnswersSent(ws[0])' /\ AnswerComes(ws[0])'
    BY <1>20, <2>2, <2>4, Zenon
  <2> QED
    BY <2>1, <2>5, <2>6 DEF Asking
<1>27. Shows(ws[0])'
  BY <1>2, <1>19, <1>20 DEF Sees, Shows
<1>28. Sees(ws)'
  BY <1>18, <1>21, <1>26, <1>27 DEF Sees, Grown
<1>29. ClientTypes' /\ LineTypes'
  <2>1. IsSeq(evts')
    BY <1>18 DEF Grown
  <2> QED
    BY <1>2, <2>1 DEF Base, ClientTypes, LineTypes
<1> QED
  BY <1>2, <1>28, <1>29 DEF SystemInv, Base

(* A line read: what is left of the pipe.                                  *)
LEMMA LineRead ==
  ASSUME Base, ReadLine, NEW c, c = Head(cmds)
  PROVE  /\ cmds' = Tail(cmds) /\ cmds # <<>> /\ LineFits(c, typed)
         /\ IsSeq(cmds') /\ Len(cmds') <= Len(cmds)
         /\ 1 \in 1..Len(cmds) /\ cmds[1] = c
         /\ \A j \in 1..Len(cmds') : /\ j + 1 \in 1..Len(cmds) /\ cmds'[j] = cmds[j + 1]
                                     /\ ~(j + 1 <= 1)
         /\ \A j \in 1..Len(cmds) :
              cmds[j] = c \/ (j - 1 \in 1..Len(cmds') /\ cmds'[j - 1] = cmds[j])
<1>1. cmds # <<>> /\ cmds' = Tail(cmds) /\ IsSeq(cmds)
  BY DEF ReadLine, Base, ClientTypes
<1> DEFINE t == Tail(cmds)
<1>2. /\ IsSeq(t) /\ Len(t) = Len(cmds) - 1 /\ c = cmds[1] /\ Len(cmds) \in Nat \ {0}
      /\ \A i \in 1..(Len(cmds) - 1) : t[i] = cmds[i + 1]
  BY <1>1, Taken
<1> HIDE DEF t
<1>3. PICK n \in Nat \ {0} : n = Len(cmds)
  BY <1>2
<1>4. Len(t) = n - 1
  BY <1>2, <1>3
<1>5. \A i \in 1..(n - 1) : i + 1 \in 1..n /\ ~(i + 1 <= 1)
  OBVIOUS
<1>6. \A j \in 1..n : j = 1 \/ (j - 1 \in 1..(n - 1) /\ (j - 1) + 1 = j)
  OBVIOUS
<1>7. 1 \in 1..n /\ n - 1 <= n
  OBVIOUS
<1>8. \A j \in 1..Len(t) : j + 1 \in 1..Len(cmds) /\ t[j] = cmds[j + 1] /\ ~(j + 1 <= 1)
  BY <1>2, <1>3, <1>4, <1>5
<1>9. \A j \in 1..Len(cmds) : cmds[j] = c \/ (j - 1 \in 1..Len(t) /\ t[j - 1] = cmds[j])
  <2> SUFFICES ASSUME NEW j \in 1..n, j # 1
               PROVE  j - 1 \in 1..(n - 1) /\ t[j - 1] = cmds[j]
    BY <1>2, <1>3, <1>4
  <2>1. j - 1 \in 1..(n - 1) /\ (j - 1) + 1 = j
    BY <1>6
  <2> QED
    BY <1>2, <1>3, <2>1
<1>10. cmds' = t
  BY <1>1 DEF t
<1>11. LineFits(c, typed) /\ Len(t) <= Len(cmds) /\ 1 \in 1..Len(cmds)
  BY <1>2, <1>3, <1>4, <1>7 DEF Base, LineTypes
<1> QED
  BY <1>1, <1>2, <1>8, <1>9, <1>10, <1>11

LEMMA PromptKeeps ==
  ASSUME Base, BridgeInv', Misc', NEW vs, Sees(vs), ReadLine, Relay,
         NEW c, c = Head(cmds), c.do = "prompt", Obeyed(c)
  PROVE  SystemInv' /\ ui' = ui
<1>1. UserInput /\ running' = c.arg /\ ~Live
  BY DEF Obeyed
<1>2. UNCHANGED <<ui, shown, typed, sends, streamed, early>>
  BY DEF Relay, client, bounds
<1>3. /\ task' = "created" /\ out' = <<>>
      /\ UNCHANGED <<session, adapter, turnId, request, requests, answer>>
  BY <1>1 DEF UserInput, sessions, approvals
<1>4. /\ cmds' = Tail(cmds) /\ cmds # <<>> /\ LineFits(c, typed)
      /\ 1 \in 1..Len(cmds) /\ cmds[1] = c
      /\ \A j \in 1..Len(cmds') : j + 1 \in 1..Len(cmds) /\ cmds'[j] = cmds[j + 1] /\ ~(j + 1 <= 1)
  BY LineRead
<1>5. evts' = evts /\ IsSeq(evts) /\ streamed \in 0..MaxDeltas /\ Len(evts) \in Nat
  BY <1>3, RelayNone, LastSight DEF Base, ClientTypes
<1>6. c.arg \in Prompts
  <2>1. c.arg \in 1..typed /\ typed \in 0..MaxInputs
    BY <1>4 DEF LineFits, Base, ClientTypes
  <2> QED
    BY <2>1, BridgeAssumption DEF Prompts
<1>7. Relays(vs, vs)
  <2>1. PICK w : w = vs[Len(evts)]
    OBVIOUS
  <2>2. Leads(w)'
    BY <1>2, <1>3, <2>1 DEF Sees, Leads
  <2>3. Grown(vs, vs)
    BY <1>5, <2>1, <2>2, GrowNone DEF Sees
  <2>4. \A i \in 1..Len(evts') : ~(i > Len(evts))
    BY <1>5
  <2>5. vs[Len(evts')].ask \in {0, vs[Len(evts)].ask}
    BY <1>5
  <2>6. Head(cmds).do # "respond"
    OBVIOUS
  <2> QED
    BY <1>2, <1>3, <1>4, <1>5, <2>3, <2>4, <2>5, <2>6 DEF Relays
<1>8. Timely(vs[0])'
  <2>1. PICK v : v = vs[0]
    OBVIOUS
  <2> SUFFICES ASSUME ~early' PROVE Slotted' /\ Single' /\ Blocked(v)' /\ Aimed' /\ Told(ui.turns)'
    BY <2>1, Zenon DEF Timely
  <2>2. Slotted /\ Single /\ Blocked(v) /\ Aimed /\ Told(ui.turns)
    BY <1>2, <2>1 DEF Sees, Timely
  <2>3. Sent /\ c.arg = ui.slot
    BY <1>4, <2>2 DEF Sent, Slotted
  <2>4. ~Starting /\ v.open = 0 /\ ~shown.busy
    BY <2>2, <2>3 DEF Single, Blocked
  <2>5. ~Sent'
    <3> SUFFICES ASSUME NEW j \in 1..Len(cmds'), cmds'[j].do = "prompt" PROVE FALSE
      BY DEF Sent
    <3>1. j + 1 \in 1..Len(cmds) /\ cmds[j + 1].do = "prompt" /\ ~(j + 1 <= 1)
      BY <1>4
    <3>2. j + 1 = 1
      BY <1>4, <2>2, <3>1 DEF Single
    <3> QED
      BY <3>1, <3>2
  <2>6. \A j \in 1..Len(cmds') : cmds'[j].do # "interrupt"
    <3> SUFFICES ASSUME NEW j \in 1..Len(cmds'), cmds'[j].do = "interrupt" PROVE FALSE
      OBVIOUS
    <3>1. j + 1 \in 1..Len(cmds) /\ cmds[j + 1].do = "interrupt" /\ ~(j + 1 <= 1)
      BY <1>4
    <3>2. j + 1 < 1
      BY <1>4, <2>2, <3>1 DEF Aimed
    <3> QED
      BY <3>1, <3>2
  <2>7. ~Starting'
    BY <1>5, <2>4 DEF Starting
  <2>8. Slotted'
    BY <1>1, <1>2, <2>3, <2>5, <2>7 DEF Slotted, Sent, Starting
  <2>9. Single'
    BY <2>5, <2>7 DEF Single, Sent, Starting
  <2>10. Blocked(v)'
    BY <1>2, <2>4 DEF Blocked
  <2>11. Aimed'
    BY <2>6 DEF Aimed
  <2>12. Told(ui.turns)'
    BY <1>2, <2>2 DEF Told
  <2> QED
    BY <2>8, <2>9, <2>10, <2>11, <2>12
<1>9. running' \in Prompts \union {0}
  BY <1>1, <1>6
<1> QED
  BY <1>2, <1>7, <1>8, <1>9, RelaysKeeps

LEMMA RespondKeeps ==
  ASSUME Base, BridgeInv', Misc', NEW vs, Sees(vs), ReadLine, Relay,
         NEW c, c = Head(cmds), c.do = "respond", Obeyed(c)
  PROVE  SystemInv' /\ ui' = ui
<1>1. Respond(c.arg, c.how) /\ running' = running
  BY DEF Obeyed
<1>2. UNCHANGED <<ui, shown, typed, sends, streamed, early, running>>
  BY <1>1 DEF Relay, client, bounds
<1>3. /\ answer' = IF request = c.arg /\ answer = "none" THEN c.how ELSE answer
      /\ UNCHANGED <<session, adapter, turnId, task, request, requests>>
  BY <1>1 DEF Respond, sessions, turnVars
<1>4. /\ cmds' = Tail(cmds) /\ cmds # <<>> /\ LineFits(c, typed)
      /\ IsSeq(cmds') /\ Len(cmds') <= Len(cmds) /\ 1 \in 1..Len(cmds) /\ cmds[1] = c
      /\ \A j \in 1..Len(cmds') : j + 1 \in 1..Len(cmds) /\ cmds'[j] = cmds[j + 1]
      /\ \A j \in 1..Len(cmds) : cmds[j] = c \/ (j - 1 \in 1..Len(cmds') /\ cmds'[j - 1] = cmds[j])
  BY LineRead
<1>5. evts' = evts /\ IsSeq(evts) /\ Len(evts) \in Nat
  <2>1. Silent /\ IsSeq(evts) /\ owed \in BOOLEAN
    BY <1>1, BridgeFacts DEF Respond, Base, ClientTypes
  <2> QED
    BY <2>1, QuietRelay, LastSight
<1>6. Leads(vs[Len(evts)])'
  <2>1. PICK w : w = vs[Len(evts)]
    OBVIOUS
  <2>2. Leads(w)'
    BY <1>2, <1>3, <2>1 DEF Sees, Leads
  <2> QED
    BY <1>5, <2>1, <2>2, Zenon
<1>7. Trail(vs, evts)'
  <2>1. Trail(vs, evts)
    BY DEF Sees
  <2> QED
    BY <1>5, <2>1, Zenon
<1>8. Timely(vs[0])'
  <2>1. PICK w : w = vs[Len(evts)] /\ Leads(w)'
    BY <1>5, <1>6, Zenon
  <2>2. Grown(vs, vs)
    BY <1>5, <2>1, GrowNone DEF Sees
  <2>3. \A i \in 1..Len(evts') : ~(i > Len(evts))
    BY <1>5
  <2>4. Live' => Live
    BY <1>3 DEF Live
  <2>5. Steady(vs, vs)
    BY <1>2, <1>3, <1>4, <2>2, <2>3, <2>4 DEF Steady
  <2> QED
    BY <2>5, SteadyTimely
<1>9. PICK v : v = vs[0]
  OBVIOUS
<1>10. Shows(v) /\ NextAsked(vs) /\ AnswersSent(v) /\ AnswerComes(v)
       /\ Undecided(v, vs[Len(evts)].ask)
  BY <1>9 DEF Sees, Asking
<1>11. \A r : Settled(v, r)' <=> Settled(v, r)
  BY <1>2 DEF Settled
<1>12. Settled(v, c.arg) /\ c.how # "none"
  BY <1>4, <1>10 DEF AnswersSent, LineFits, Decisions
<1>13. Asking(vs)'
  <2>1. NextAsked(vs)'
    <3> SUFFICES ASSUME NEW i \in 1..Len(evts), evts[i].type = "approval.requested",
                        NEW s, s = vs[i - 1].ask, s # 0
                 PROVE  Settled(v, s)
      BY <1>5, <1>9, <1>11 DEF NextAsked
    <3> QED
      BY <1>9, <1>10 DEF NextAsked
  <2>2. AnswersSent(v)'
    <3> SUFFICES ASSUME NEW j \in 1..Len(cmds'), cmds'[j].do = "respond",
                        NEW r, r = cmds'[j].arg
                 PROVE  Settled(v, r)
      BY <1>11 DEF AnswersSent
    <3>1. j + 1 \in 1..Len(cmds) /\ cmds[j + 1].do = "respond" /\ cmds[j + 1].arg = r
      BY <1>4
    <3> QED
      BY <1>10, <3>1 DEF AnswersSent
  <2>3. ASSUME NEW r, r = vs[Len(evts)].ask PROVE Undecided(v, r)'
    <3> SUFFICES ASSUME r # 0, ~Settled(v, r) PROVE request' = r /\ answer' = "none"
      BY <1>11 DEF Undecided
    <3>1. request = r /\ answer = "none"
      BY <1>10, <2>3 DEF Undecided
    <3>2. c.arg # r
      BY <1>12
    <3> QED
      BY <1>3, <3>1, <3>2
  <2>4. AnswerComes(v)'
    <3> SUFFICES ASSUME request' # 0, answer' = "none", Settled(v, request')
                 PROVE  \E j \in 1..Len(cmds') : cmds'[j].do = "respond" /\ cmds'[j].arg = request'
      <4>1. PICK r : r = request'
        OBVIOUS
      <4>2. Settled(v, request)' => Settled(v, r)
        BY <1>2, <4>1 DEF Settled
      <4> QED
        BY <4>1, <4>2 DEF AnswerComes
    <3>1. request # c.arg /\ answer = "none" /\ request' = request
      BY <1>3, <1>12
    <3>2. PICK j \in 1..Len(cmds) : cmds[j].do = "respond" /\ cmds[j].arg = request
      BY <1>3, <1>10, <3>1 DEF AnswerComes
    <3>3. j - 1 \in 1..Len(cmds') /\ cmds'[j - 1] = cmds[j]
      BY <1>4, <3>1, <3>2
    <3> QED
      BY <3>1, <3>2, <3>3
  <2>5. Undecided(vs[0], vs[Len(evts)].ask)'
    <3>1. PICK r : r = vs[Len(evts)].ask
      OBVIOUS
    <3>2. Undecided(v, r)'
      BY <2>3, <3>1
    <3> QED
      BY <1>5, <1>9, <3>1, <3>2, Zenon
  <2>6. AnswersSent(vs[0])' /\ AnswerComes(vs[0])'
    BY <1>9, <2>2, <2>4, Zenon
  <2> QED
    BY <2>1, <2>5, <2>6 DEF Asking
<1>14. Shows(vs[0])'
  BY <1>2, <1>9, <1>10 DEF Shows
<1>15. Sees(vs)'
  BY <1>6, <1>7, <1>8, <1>13, <1>14 DEF Sees
<1>16. ClientTypes' /\ LineTypes'
  <2>1. ClientTypes'
    <3>1. Len(cmds) <= sends /\ Len(cmds) \in Nat /\ Len(cmds') \in Nat
      BY <1>4, SeqShape DEF Base, ClientTypes
    <3> QED
      BY <1>2, <1>4, <1>5, <3>1, ClientAssumption DEF Base, ClientTypes
  <2>2. LineTypes'
    BY <1>2, <1>4 DEF Base, LineTypes
  <2> QED
    BY <2>1, <2>2
<1> QED
  BY <1>2, <1>15, <1>16 DEF SystemInv, Base

-------------------------------------------------------------------------------
(* Every step keeps the invariant and, while the thread is the same, what  *)
(* is shown of the turns that have ended.                                  *)

Fixed == ui'.thread = ui.thread => Kept(ui'.turns, ui.turns)

LEMMA SameFixed ==
  ASSUME ui'.turns = ui.turns
  PROVE  Fixed
<1>1. Kept(ui.turns, ui.turns)
  BY DEF Kept, Stays
<1> QED
  BY <1>1 DEF Fixed

LEMMA TellsFix ==
  ASSUME Base, BridgeInv', Misc', NEW vs, Sees(vs), \E ws : Tells(vs, ws)
  PROVE  SystemInv' /\ Fixed
<1>1. PICK ws : Tells(vs, ws)
  OBVIOUS
<1>2. SystemInv' /\ ui' = ui
  BY <1>1, TellsKeeps
<1>3. ui'.turns = ui.turns
  BY <1>2
<1> QED
  BY <1>2, <1>3, SameFixed

LEMMA StutterTells ==
  ASSUME Base, NEW vs, Sees(vs), UNCHANGED <<vars, clientVars>>
  PROVE  \E ws : Tells(vs, ws)
<1>1. /\ UNCHANGED <<turnId, adapter, requests, request, answer, session, task, evts, cmds>>
      /\ UNCHANGED <<ui, shown, typed, sends, streamed, running, early>>
  BY DEF vars, clientVars, client, bounds, sessions, turnVars, approvals
<1>2. Passes /\ (Live' => Live) /\ session'.thread = session.thread
  BY <1>1 DEF Passes, Live
<1> QED
  BY <1>1, <1>2, QuietTells

LEMMA KeysFix ==
  ASSUME Base, BridgeInv', Misc', NEW vs, Sees(vs), Keys
  PROVE  SystemInv' /\ Fixed
<1>1. SystemInv' /\ ui'.turns = ui.turns
  <2>1. CASE Submit
    BY <2>1, SubmitKeeps
  <2>2. CASE SubmitSlash("new") \/ SubmitSlash("list")
    <3>1. PICK do \in {"new", "list"} : SubmitSlash(do)
      BY <2>2
    <3> QED
      BY <3>1, SlashKeeps
  <2>3. CASE PressInterrupt
    BY <2>3, InterruptKeeps
  <2>4. CASE \E d \in Decisions : Decide(d)
    BY <2>4, DecideKeeps
  <2>5. CASE \E t \in Threads : Pick(t)
    BY <2>5, PickKeeps
  <2>6. CASE Dismiss
    BY <2>6, DismissKeeps
  <2> QED
    BY <2>1, <2>2, <2>3, <2>4, <2>5, <2>6 DEF Keys
<1> QED
  BY <1>1, SameFixed

LEMMA ReadLineFix ==
  ASSUME Base, BridgeInv', Misc', NEW vs, Sees(vs), ReadLine
  PROVE  SystemInv' /\ Fixed
<1>1. PICK c : c = Head(cmds)
  OBVIOUS
<1>2. Reading /\ cmds # <<>> /\ cmds' = Tail(cmds)
  BY DEF ReadLine
<1>3. CASE Ignored(c) /\ BridgeIdle /\ UNCHANGED <<evts, client, bounds, running, early>>
  BY <1>1, <1>2, <1>3, IgnoredTells, TellsFix
<1>4. CASE Obeyed(c) /\ Relay
  <2>1. CASE c.do = "prompt"
    <3>1. SystemInv' /\ ui' = ui
      BY <1>1, <1>4, <2>1, PromptKeeps
    <3>2. ui'.turns = ui.turns
      BY <3>1
    <3> QED
      BY <3>1, <3>2, SameFixed
  <2>2. CASE c.do = "respond"
    <3>1. SystemInv' /\ ui' = ui
      BY <1>1, <1>4, <2>2, RespondKeeps
    <3>2. ui'.turns = ui.turns
      BY <3>1
    <3> QED
      BY <3>1, <3>2, SameFixed
  <2>3. CASE c.do \notin {"prompt", "respond"}
    <3>1. \E ws : Tells(vs, ws)
      BY <1>1, <1>2, <1>4, <2>3, LineTells
    <3> QED
      BY <3>1, TellsFix
  <2> QED
    BY <2>1, <2>2, <2>3
<1> QED
  BY <1>1, <1>3, <1>4 DEF ReadLine

LEMMA ClientFix ==
  ASSUME Base, BridgeInv', Misc', NEW vs, Sees(vs), Receive \/ FlushDeltas \/ Install \/ Expire
  PROVE  SystemInv' /\ Fixed
<1>1. CASE Receive
  BY <1>1, ReceiveKeeps DEF Fixed
<1>2. CASE FlushDeltas
  BY <1>2, FlushKeeps DEF Fixed
<1>3. CASE Install
  <2>1. ui'.turns = ui.turns
    BY <1>3 DEF Install
  <2> QED
    BY <1>3, <2>1, InstallKeeps, SameFixed
<1>4. CASE Expire
  BY <1>4, ExpireKeeps, SameFixed
<1> QED
  BY <1>1, <1>2, <1>3, <1>4

LEMMA BridgeFix ==
  ASSUME Base, BridgeInv', Misc', NEW vs, Sees(vs),
         Stream \/ BridgeTurn \/ BridgeCancelled \/ BridgeSwitch \/ Act(Ask) \/ Act(RecorderFails)
  PROVE  SystemInv' /\ Fixed
<1>1. CASE \E ws : Tells(vs, ws)
  BY <1>1, TellsFix
<1>2. CASE Act(StartTurn) \/ Act(Ask)
  <2>1. SystemInv' /\ ui' = ui
    BY <1>2, StartKeeps, AskKeeps
  <2>2. ui'.turns = ui.turns
    BY <2>1
  <2> QED
    BY <2>1, <2>2, SameFixed
<1>3. CASE Stream
  BY <1>1, <1>3, StreamTells
<1>4. CASE Act(TurnFails) \/ Act(Interrupted)
  BY <1>1, <1>4, FailTells
<1>5. CASE Act(Complete)
  BY <1>1, <1>5, CompleteTells
<1>6. CASE Act(Resolved) \/ Act(Closed)
  BY <1>1, <1>6, MoveTells
<1>7. CASE Act(Answered) \/ Act(Finish) \/ Act(NeverStarts) \/ Act(RecorderFails) \/ Act(CloseFails)
  BY <1>1, <1>7, GoesOnTells
<1>8. BridgeTurn =>
        Act(StartTurn) \/ Act(TurnFails) \/ Act(Complete) \/ Act(Answered) \/ Act(Finish)
  BY DEF BridgeTurn, Act
<1>9. BridgeCancelled => Act(Interrupted) \/ Act(NeverStarts)
  BY DEF BridgeCancelled, Delivered, Act
<1>10. BridgeSwitch => Act(Resolved) \/ Act(Closed) \/ Act(CloseFails)
  BY DEF BridgeSwitch, Act
<1> QED
  BY <1>2, <1>3, <1>4, <1>5, <1>6, <1>7, <1>8, <1>9, <1>10

LEMMA SystemKept ==
  ASSUME SystemInv, [SystemNext]_<<vars, clientVars>>
  PROVE  SystemInv' /\ Fixed
<1>1. PICK vs : Sees(vs)
  BY DEF SystemInv
<1>2. Base
  BY DEF SystemInv
<1>3. BridgeInv' /\ Misc'
  BY <1>2, BridgeKept, MiscStep DEF Base
<1>4. CASE UNCHANGED <<vars, clientVars>>
  BY <1>1, <1>2, <1>3, <1>4, StutterTells, TellsFix
<1>5. CASE Receive \/ FlushDeltas \/ Install \/ Expire
  BY <1>1, <1>2, <1>3, <1>5, ClientFix
<1>6. CASE Keys
  BY <1>1, <1>2, <1>3, <1>6, KeysFix
<1>7. CASE ReadLine
  BY <1>1, <1>2, <1>3, <1>7, ReadLineFix
<1>8. CASE Stream \/ BridgeTurn \/ BridgeCancelled \/ BridgeSwitch \/ Act(Ask)
           \/ Act(RecorderFails)
  BY <1>1, <1>2, <1>3, <1>8, BridgeFix
<1> QED
  BY <1>4, <1>5, <1>6, <1>7, <1>8 DEF SystemNext

LEMMA SystemBegins == SystemInit => SystemInv
<1> SUFFICES ASSUME SystemInit PROVE SystemInv
  OBVIOUS
<1>1. Init /\ BridgeInv
  BY CoreInit, ViewInit, LedgerInit DEF SystemInit, BridgeInv
<1>2. 1 \in Threads
  BY BridgeAssumption DEF Threads
<1>3. /\ session.thread = 1 /\ adapter.counter = 0 /\ adapter.current = 0 /\ turnId = 0
      /\ requests = 0 /\ request = 0 /\ task = "none" /\ loop = "reading" /\ made = 1
  <2>1. session.thread = 1
    BY <1>1, <1>2, RestoredEffect DEF Init, BridgeInv, CoreInv, CoreTypes, SessionTypes
  <2> QED
    BY <1>1, <2>1 DEF Init, NewAdapter
<1>4. Misc
  BY <1>3 DEF Misc
<1>5. /\ ui = [thread |-> 0, turns |-> <<>>, queue |-> <<>>, slot |-> 0, buffer |-> <<>>,
               picking |-> FALSE, offers |-> {}]
      /\ shown = [disabled |-> FALSE, busy |-> FALSE, picking |-> FALSE, offers |-> {},
                  request |-> 0]
      /\ typed = 0 /\ sends = 0 /\ streamed = 0 /\ running = 0 /\ early = FALSE /\ cmds = <<>>
  BY DEF SystemInit
<1>6. PICK e : e = Event("thread.started", 1)
  OBVIOUS
<1>7. e.type = "thread.started" /\ e.thread = 1 /\ ~Terminal(e)
  BY <1>6 DEF Event, Terminal
<1>8. IsSeq(evts) /\ Len(evts) = 1 /\ evts[1] = e
  <2>1. evts = <<e>>
    BY <1>1, <1>6 DEF SystemInit, Init
  <2>2. <<e>> \in Seq({e}) /\ Len(<<e>>) = 1 /\ <<e>>[1] = e
    OBVIOUS
  <2> QED
    BY <2>1, <2>2 DEF IsSeq
<1>9. IsSeq(cmds) /\ Len(cmds) = 0
  <2>1. <<>> \in Seq({}) /\ Len(<<>>) = 0
    OBVIOUS
  <2> QED
    BY <1>5, <2>1 DEF IsSeq
<1>10. /\ ui \in UiState /\ ui.thread = 0 /\ ui.turns = <<>> /\ ui.queue = <<>> /\ ui.slot = 0
       /\ ui.buffer = <<>>
  <2>1. <<>> \in Seq(Entry) /\ <<>> \in Seq(Asked) /\ <<>> \in Seq(Prompts)
    OBVIOUS
  <2> QED
    BY <1>5, <2>1 DEF UiState
<1>11. shown \in Handlers /\ shown.request = 0 /\ ~shown.busy
  BY <1>5, BridgeAssumption DEF Handlers
<1>12. ClientTypes
  <2>1. 0 \in 0..MaxInputs /\ 0 \in 0..MaxSends /\ 0 \in 0..MaxDeltas /\ 0 <= 0
    BY BridgeAssumption, ClientAssumption
  <2> QED
    BY <1>5, <1>8, <1>9, <1>10, <1>11, <2>1 DEF ClientTypes
<1>13. \A j \in 1..Len(cmds) : FALSE
  BY <1>9
<1>14. LineTypes
  BY <1>13 DEF LineTypes
<1>15. PICK z : z = [thread |-> 0, open |-> 0, last |-> 0, failed |-> FALSE, fresh |-> TRUE,
                     ask |-> 0, asked |-> 0, seen |-> 0]
  OBVIOUS
<1>16. /\ z \in Sight /\ z.thread = 0 /\ z.open = 0 /\ z.last = 0 /\ z.ask = 0 /\ z.asked = 0
       /\ z.seen = 0
  <2>1. 0 \in 0..MaxInputs /\ 0 \in 0..MaxRequests /\ 0 \in 0..MaxDeltas /\ 0 <= 0
    BY BridgeAssumption, ClientAssumption
  <2> QED
    BY <1>15, <2>1 DEF Sight
<1>17. PICK m : m = Move(z, e)
  OBVIOUS
<1>18. Legal(z, e)
  BY <1>2, <1>7, <1>16, BridgeAssumption DEF Legal, Types, Threads
<1>19. m \in Sight /\ Moved(z, e, m)
  BY <1>16, <1>17, <1>18, MoveSound, MoveFields
<1>20. m.thread = 1 /\ m.open = 0 /\ m.last = 0 /\ m.ask = 0 /\ m.asked = 0 /\ m.seen = 0
  BY <1>7, <1>16, <1>19 DEF Moved
<1> DEFINE vs == [i \in 0..1 |-> IF i = 0 THEN z ELSE m]
<1>21. vs[0] = z /\ vs[1] = m
  OBVIOUS
<1> HIDE DEF vs
<1>22. Trail(vs, evts)
  <2>1. \A i \in 0..1 : i = 0 \/ i = 1
    OBVIOUS
  <2>2. \A i \in 1..1 : i = 1 /\ i - 1 = 0
    OBVIOUS
  <2> QED
    BY <1>8, <1>16, <1>17, <1>18, <1>19, <1>21, <2>1, <2>2 DEF Trail
<1>23. Leads(vs[Len(evts)])
  BY <1>3, <1>5, <1>8, <1>20, <1>21 DEF Leads
<1>24. Shows(vs[0])
  <2>1. Fit(ui, z) /\ FitQueue(ui, z)
    BY <1>10, <1>16, FitEmpty DEF FitQueue
  <2> QED
    BY <1>11, <1>16, <1>21, <2>1 DEF Shows
<1>25. \A i \in 1..Len(evts) : evts[i].type = "thread.started"
  BY <1>7, <1>8
<1>26. Asking(vs)
  BY <1>3, <1>8, <1>13, <1>20, <1>21, <1>25
     DEF Asking, NextAsked, AnswersSent, Undecided, AnswerComes
<1>27. Timely(vs[0])
  <2>1. Slotted /\ Single /\ Aimed
    BY <1>3, <1>13, <1>25 DEF Slotted, Single, Aimed, Sent, Live
  <2>2. Blocked(z)
    BY <1>11, <1>16 DEF Blocked
  <2>3. Told(ui.turns)
    <3>1. DOMAIN <<>> = {}
      OBVIOUS
    <3> QED
      BY <1>10, <3>1 DEF Told
  <2> QED
    BY <1>21, <2>1, <2>2, <2>3 DEF Timely
<1> QED
  BY <1>1, <1>4, <1>12, <1>14, <1>22, <1>23, <1>24, <1>26, <1>27 DEF SystemInv, Base, Sees

-------------------------------------------------------------------------------
(* Results.                                                                *)

(* In every reachable state the lines and events under way lead from what  *)
(* the client shows to what the bridge does: whatever the hooks have yet   *)
(* to be told, and whatever has been typed meanwhile.                      *)
THEOREM SystemHolds == SystemSpec => []SystemInv
<1>1. SystemInv /\ [SystemNext]_<<vars, clientVars>> => SystemInv'
  BY SystemKept
<1> QED
  BY <1>1, SystemBegins, PTL DEF SystemSpec

(* The bridge behind the pipes does what it does alone: all that is proved *)
(* of TuiBridge holds with the client that tui/src is.                     *)
THEOREM SystemIsBridge == SystemSpec => Spec
<1>1. SystemInit => Init
  BY DEF SystemInit
<1>2. SystemInv /\ [SystemNext]_<<vars, clientVars>> => [Next]_vars
  BY SystemStep DEF SystemInv, Base
<1> QED
  BY <1>1, <1>2, SystemHolds, PTL DEF SystemSpec, Spec

(* State of the hooks, and no more lines in the pipe than were written.    *)
THEOREM ClientTypesHold == SystemSpec => []ClientTypeOK
<1>1. SystemInv => ClientTypeOK
  BY DEF SystemInv, Base, ClientTypes, ClientTypeOK, UiState, Handlers, Asked
<1> QED
  BY <1>1, SystemHolds, PTL

LEMMA SeenAll ==
  ASSUME Base, NEW vs, Sees(vs), evts = <<>>
  PROVE  \E v \in Sight : /\ Fields(v) /\ Leads(v) /\ Shows(v)
                          /\ Undecided(v, v.ask) /\ AnswerComes(v)
<1>1. Len(evts) = 0
  BY SeqShape DEF Base, ClientTypes
<1>2. PICK v : v = vs[0] /\ v = vs[Len(evts)]
  BY <1>1
<1>3. v \in Sight /\ Fields(v) /\ Leads(v)
  BY <1>2, LastSight
<1>4. Shows(v) /\ Undecided(v, v.ask) /\ AnswerComes(v)
  BY <1>2 DEF Sees, Asking
<1> QED
  BY <1>3, <1>4

(* useTurns: a client that has read everything shows the bridge's thread   *)
(* and open turn, over every switch, hydration and failure.                *)
THEOREM ClientShowsBridge == SystemSpec => []ClientAgrees
<1>1. SystemInv => ClientAgrees
  <2> SUFFICES ASSUME SystemInv, evts = <<>>
               PROVE  /\ ui.thread = view.thread
                      /\ {ui.turns[i].id : i \in Opened} = {view.open} \ {0}
    BY DEF ClientAgrees
  <2>1. Base
    BY DEF SystemInv
  <2>2. PICK v \in Sight : Fields(v) /\ Leads(v) /\ Shows(v)
    BY <2>1, SeenAll DEF SystemInv
  <2>3. v.thread = view.thread /\ v.open = view.open
    BY <2>1, <2>2, BridgeFacts DEF Base, Leads
  <2>4. /\ ui.thread = v.thread
        /\ Opened # {} <=> v.open # 0
        /\ v.open # 0 => {ui.turns[i].id : i \in Opened} = {v.open}
    BY <2>1, <2>2, ShownOpen DEF Base, ClientTypes, Shows, Fit
  <2> QED
    BY <2>3, <2>4
<1> QED
  BY <1>1, SystemHolds, PTL

(* useApprovalQueue: the user is asked exactly for what the turn waits     *)
(* for, once no event and no line is under way.                            *)
THEOREM NobodyWaits == SystemSpec => []Askable
<1>1. SystemInv => Askable
  <2> DEFINE queued == {ui.queue[i].request : i \in DOMAIN ui.queue}
  <2> SUFFICES ASSUME SystemInv, evts = <<>>, cmds = <<>>
               PROVE  queued = IF request # 0 /\ answer = "none" THEN {request} ELSE {}
    BY DEF Askable
  <2>1. PICK v \in Sight : /\ Fields(v) /\ Leads(v) /\ Shows(v)
                           /\ Undecided(v, v.ask) /\ AnswerComes(v)
    BY SeenAll DEF SystemInv
  <2>2. CASE ui.queue = <<>>
    <3>1. DOMAIN ui.queue = {}
      <4>1. DOMAIN <<>> = {}
        OBVIOUS
      <4> QED
        BY <2>2, <4>1
    <3>2. ~(request # 0 /\ answer = "none")
      <4> SUFFICES ASSUME request # 0, answer = "none" PROVE FALSE
        OBVIOUS
      <4>1. request = v.ask /\ v.ask <= v.asked
        BY <2>1 DEF Leads, Fields
      <4>2. Settled(v, request)
        BY <3>1, <4>1 DEF Settled
      <4>3. PICK j \in 1..Len(cmds) : cmds[j].do = "respond"
        BY <2>1, <4>2 DEF AnswerComes
      <4>4. Len(cmds) = 0
        BY SeqShape DEF SystemInv, Base, ClientTypes
      <4> QED
        BY <4>3, <4>4
    <3> QED
      BY <3>1, <3>2
  <2>3. CASE ui.queue # <<>>
    <3>1. PICK q : q = [request |-> v.ask, turn |-> v.open]
      OBVIOUS
    <3>2. v.ask # 0 /\ ui.queue = <<q>> /\ q.request = v.ask
      BY <2>1, <2>3, <3>1 DEF Shows, FitQueue
    <3>3. DOMAIN ui.queue = {1} /\ ui.queue[1] = q
      <4>1. DOMAIN <<q>> = {1} /\ <<q>>[1] = q
        OBVIOUS
      <4> QED
        BY <3>2, <4>1
    <3>4. ~Settled(v, v.ask)
      BY <3>2, <3>3 DEF Settled
    <3>5. request = v.ask /\ answer = "none"
      BY <2>1, <3>2, <3>4 DEF Undecided
    <3>6. queued = {v.ask}
      BY <3>2, <3>3
    <3> HIDE DEF queued
    <3> QED
      BY <3>2, <3>5, <3>6
  <2> QED
    BY <2>2, <2>3
<1> QED
  BY <1>1, SystemHolds, PTL

(* pendingUserInput: unless its timer gave up too soon, a turn is shown    *)
(* with the prompt that it runs.                                           *)
THEOREM PromptsShownRight == SystemSpec => []PromptShown
<1>1. SystemInv => PromptShown
  BY DEF SystemInv, Sees, Timely, Told, PromptShown
<1> QED
  BY <1>1, SystemHolds, PTL

(* app.tsx: up to the same limit no prompt is dropped in silence, and an   *)
(* interrupt cancels the turn it was pressed for and no other.             *)
THEOREM KeysReachTarget == SystemSpec => []KeysAimed
<1>1. SystemInv => KeysAimed
  <2> SUFFICES ASSUME SystemInv, ~early, cmds # <<>>
               PROVE  /\ Head(cmds).do = "prompt" => ~Live
                      /\ Head(cmds).do = "interrupt" /\ Live =>
                           /\ Head(cmds).arg # 0
                           /\ Head(cmds).arg = view.open
                           /\ Head(cmds).how = view.thread
    BY DEF KeysAimed, PromptsTaken, InterruptAimed
  <2>1. Base /\ Single /\ Aimed
    BY DEF SystemInv, Sees, Timely
  <2>2. 1 \in 1..Len(cmds) /\ cmds[1] = Head(cmds)
    BY <2>1, Taken DEF Base, ClientTypes
  <2>3. view.thread = session.thread /\ view.open = turnId
    BY <2>1, BridgeFacts DEF Base
  <2> QED
    BY <2>1, <2>2, <2>3 DEF Single, Aimed, Sent
<1> QED
  BY <1>1, SystemHolds, PTL

(* useTurns: while the thread is the same, entries of turns that have      *)
(* ended are neither moved nor changed, but for the error of a turn that   *)
(* has failed.                                                             *)
THEOREM EndedTurnsKept == SystemSpec => EndedTurnsFixed
<1>1. SystemInv /\ [SystemNext]_<<vars, clientVars>> =>
        [ui'.thread = ui.thread =>
           \A i \in DOMAIN ui.turns :
             ui.turns[i].state # "active" =>
               i \in DOMAIN ui'.turns /\ Stays(ui.turns[i], ui'.turns[i])]_<<vars, clientVars>>
  BY SystemKept DEF Fixed, Kept
<1> QED
  BY <1>1, SystemHolds, PTL DEF SystemSpec, EndedTurnsFixed

===============================================================================
