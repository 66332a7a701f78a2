---------------------------- MODULE AgentTurnProofs ----------------------------
(***************************************************************************)
(* Proofs about AgentTurn, for any number of items and restarts and any    *)
(* compaction thresholds and budget.                                       *)
(***************************************************************************)
EXTENDS AgentTurn, DataInduction, FiniteSetTheorems, SequenceTheorems, TLAPS

(* What run_turn creates: neither placeholders nor summaries.              *)
NewKinds == {"context", "user", "skill", "assistant", "call", "output"}

NewItem == [kind : NewKinds, id : 0..MaxItems]

Record == NewItem \union Marks \union Compactions

-------------------------------------------------------------------------------
(* Replay, record by record.                                               *)

(* The fold over the first n records, as a function of the positions that  *)
(* are to be taken.                                                        *)
IsFold(f, records, n) ==
  f = [z \in SUBSET (1..n) |->
         IF z = {} THEN <<>> ELSE Apply(f[z \ {Max(z)}], records[Max(z)])]

(* There is one: it grows by a record at a time.                           *)
LEMMA FoldExists == \A records : \A n \in Nat : \E f : IsFold(f, records, n)
<1> SUFFICES ASSUME NEW records PROVE \A n \in Nat : \E f : IsFold(f, records, n)
  OBVIOUS
<1> DEFINE T == {n \in Nat : ~\E f : IsFold(f, records, n)}
<1> SUFFICES ASSUME T # {} PROVE FALSE
  OBVIOUS
<1>1. PICK m \in T : \A k \in T : m <= k
  <2>1. T \subseteq Nat
    OBVIOUS
  <2> HIDE DEF T
  <2> QED
    BY <2>1, Least
<1>2. m # 0
  <2> DEFINE f == [z \in SUBSET (1..0) |-> <<>>]
  <2>1. \A z \in SUBSET (1..0) : z = {}
    OBVIOUS
  <2>2. IsFold(f, records, 0)
    BY <2>1 DEF IsFold
  <2> QED
    BY <2>2
<1>3. PICK g : IsFold(g, records, m - 1)
  <2>1. m - 1 \in Nat /\ ~(m <= m - 1)
    BY <1>2
  <2> QED
    BY <1>1, <2>1
<1> DEFINE f == [z \in SUBSET (1..m) |->
                   IF m \in z THEN Apply(g[z \ {m}], records[m]) ELSE g[z]]
<1>4. IsFold(f, records, m)
  <2> SUFFICES ASSUME NEW z \in SUBSET (1..m)
               PROVE  f[z] = IF z = {} THEN <<>>
                             ELSE Apply(f[z \ {Max(z)}], records[Max(z)])
    BY DEF IsFold
  <2>1. CASE m \in z
    <3>1. Max(z) \in z /\ \A i \in z : i <= Max(z)
      BY <2>1, MaxOfPositions
    <3>2. Max(z) = m
      <4>1. Max(z) \in 1..m /\ m <= Max(z) /\ m \in Nat
        BY <1>1, <2>1, <3>1
      <4> QED
        BY <4>1
    <3>3. f[z \ {m}] = g[z \ {m}]
      OBVIOUS
    <3> QED
      BY <2>1, <3>2, <3>3
  <2>2. CASE m \notin z
    <3>1. z \in SUBSET (1..(m - 1)) /\ f[z] = g[z]
      BY <2>2
    <3>2. CASE z = {}
      BY <1>3, <3>1, <3>2 DEF IsFold
    <3>3. CASE z # {}
      <4>1. Max(z) \in z
        BY <3>3, MaxOfPositions
      <4>2. f[z \ {Max(z)}] = g[z \ {Max(z)}]
        BY <2>2
      <4> HIDE DEF f
      <4>3. g[z] = Apply(g[z \ {Max(z)}], records[Max(z)])
        BY <1>3, <3>1, <3>3 DEF IsFold
      <4> QED
        BY <3>1, <3>3, <4>2, <4>3
    <3> QED
      BY <3>2, <3>3
  <2> QED
    BY <2>1, <2>2
<1> QED
  BY <1>4

(* One position more applies one record more.                              *)
LEMMA FoldStep ==
  ASSUME NEW f, NEW records, NEW n \in Nat, IsFold(f, records, n), NEW k \in 1..n
  PROVE  f[1..k] = Apply(f[1..(k - 1)], records[k]) /\ f[1..0] = <<>>
<1>1. 1..k \in SUBSET (1..n) /\ 1..0 \in SUBSET (1..n) /\ 1..0 = {} /\ k \in 1..k
  OBVIOUS
<1>2. Max(1..k) \in 1..k /\ \A i \in 1..k : i <= Max(1..k)
  BY <1>1, MaxOfPositions
<1>3. Max(1..k) = k /\ (1..k) \ {k} = 1..(k - 1)
  BY <1>2
<1> QED
  BY <1>1, <1>3 DEF IsFold

(* The same records give the same fold, however many follow.               *)
Agree(a, b, n) == \A i \in 1..n : a[i] = b[i]

(* Two folds over the same records give the same result, position by       *)
(* position.                                                               *)
LEMMA FoldPrefix ==
  ASSUME NEW f, NEW g, NEW a, NEW b, NEW u \in Nat, NEW v \in Nat, u <= v,
         IsFold(f, a, u), IsFold(g, b, v), Agree(a, b, u)
  PROVE  f[1..u] = g[1..u]
<1> DEFINE T == {k \in 0..u : f[1..k] # g[1..k]}
<1> SUFFICES ASSUME T # {} PROVE FALSE
  OBVIOUS
<1>1. PICK k \in T : \A j \in T : k <= j
  <2>1. T \subseteq Nat
    OBVIOUS
  <2> HIDE DEF T
  <2> QED
    BY <2>1, Least
<1>2. k # 0
  <2>1. f[1..0] = <<>> /\ g[1..0] = <<>>
    <3>1. 1..0 = {} /\ 1..0 \in SUBSET (1..u) /\ 1..0 \in SUBSET (1..v)
      OBVIOUS
    <3> QED
      BY <3>1 DEF IsFold
  <2> QED
    BY <2>1
<1>3. k \in 1..u /\ k \in 1..v /\ f[1..k] # g[1..k]
  BY <1>2
<1>4. f[1..(k - 1)] = g[1..(k - 1)]
  <2>1. k - 1 \in 0..u /\ ~(k <= k - 1)
    BY <1>3
  <2> QED
    BY <1>1, <2>1
<1>5. f[1..k] = Apply(f[1..(k - 1)], a[k]) /\ g[1..k] = Apply(g[1..(k - 1)], b[k])
  BY <1>3, FoldStep
<1> QED
  BY <1>3, <1>4, <1>5 DEF Agree

(* Replay is what such a fold gives at the last position.                  *)
LEMMA ReplayIsFold ==
  ASSUME NEW records, NEW n \in Nat, DOMAIN records = 1..n
  PROVE  \E f : IsFold(f, records, n) /\ Replay(records) = f[1..n]
<1> DEFINE G(it) == [z \in SUBSET DOMAIN records |->
                       IF z = {} THEN <<>> ELSE Apply(it[z \ {Max(z)}], records[Max(z)])]
           it == CHOOSE i : i = G(i)
<1>1. Replay(records) = it[DOMAIN records]
  BY Zenon DEF Replay, FoldLeft, MapThenFoldSet
<1>2. \E i : i = G(i)
  <2>1. PICK f : IsFold(f, records, n)
    BY FoldExists
  <2>2. f = G(f)
    BY <2>1 DEF IsFold
  <2> QED
    BY <2>2
<1>3. it = G(it)
  BY <1>2
<1> HIDE DEF it
<1>4. IsFold(it, records, n)
  BY <1>3 DEF IsFold
<1> QED
  BY <1>1, <1>4

(* Replay starts from nothing and applies one record after the other.      *)
LEMMA ReplayEmpty == Replay(<<>>) = <<>>
<1> DEFINE none == <<>>
<1>1. DOMAIN none = 1..0 /\ 0 \in Nat
  OBVIOUS
<1>2. PICK f : IsFold(f, none, 0) /\ Replay(none) = f[1..0]
  <2> HIDE DEF none
  <2> QED
    BY <1>1, ReplayIsFold
<1>3. 1..0 \in SUBSET (1..0) /\ 1..0 = {}
  OBVIOUS
<1> QED
  BY <1>2, <1>3 DEF IsFold

(* One record more, applied to what was replayed before it.                *)
LEMMA ReplayAppend ==
  ASSUME NEW S, NEW records \in Seq(S), NEW r \in S
  PROVE  Replay(Append(records, r)) = Apply(Replay(records), r)
<1> DEFINE n == Len(records)
           more == Append(records, r)
<1>1. /\ n \in Nat /\ DOMAIN records = 1..n /\ DOMAIN more = 1..(n + 1)
      /\ more[n + 1] = r /\ \A i \in 1..n : records[i] = more[i]
  BY AppendProperties
<1> HIDE DEF n, more
<1>2. PICK f : IsFold(f, records, n) /\ Replay(records) = f[1..n]
  BY <1>1, ReplayIsFold
<1> DEFINE p == n + 1
<1>3. /\ p \in Nat /\ n <= p /\ p \in 1..p /\ p - 1 = n
      /\ DOMAIN more = 1..p /\ more[p] = r
  BY <1>1
<1> HIDE DEF p
<1>4. PICK g : IsFold(g, more, p) /\ Replay(more) = g[1..p]
  BY <1>3, ReplayIsFold
<1>5. f[1..n] = g[1..n]
  <2>1. /\ n \in Nat /\ p \in Nat /\ n <= p
        /\ IsFold(f, records, n) /\ IsFold(g, more, p) /\ Agree(records, more, n)
    BY <1>1, <1>2, <1>3, <1>4 DEF Agree
  <2>2. \A u, v \in Nat :
          u <= v /\ IsFold(f, records, u) /\ IsFold(g, more, v) /\ Agree(records, more, u)
            => f[1..u] = g[1..u]
    BY FoldPrefix
  <2> QED
    BY <2>1, <2>2
<1>6. g[1..p] = Apply(g[1..n], more[p])
  <2>1. g[1..p] = Apply(g[1..(p - 1)], more[p])
    BY <1>3, <1>4, FoldStep
  <2> QED
    BY <1>3, <2>1
<1> QED
  BY <1>1, <1>2, <1>3, <1>4, <1>5, <1>6 DEF more

-------------------------------------------------------------------------------
(* What Replay makes of items, marks and compactions.                      *)

(* An element moves out of the second sequence.                            *)
LEMMA ConcatAppend ==
  ASSUME NEW S, NEW a \in Seq(S), NEW b \in Seq(S), NEW e \in S
  PROVE  a \o Append(b, e) = Append(a \o b, e)
<1>1. Append(b, e) = b \o <<e>> /\ Append(a \o b, e) = (a \o b) \o <<e>>
  BY AppendIsConcat, ConcatProperties
<1>2. <<e>> \in Seq(S)
  OBVIOUS
<1> QED
  BY <1>1, <1>2, ConcatAssociative

(* What run_turn creates is an item and a record, and no compaction.       *)
LEMMA NewIsItem ==
  ASSUME NEW r \in NewItem
  PROVE  /\ r \in Item /\ r \in Record
         /\ r.kind \in NewKinds /\ r.kind \in Kinds /\ r.kind # "compaction"
<1>1. r.kind \in NewKinds /\ r.id \in 0..MaxItems /\ r = [kind |-> r.kind, id |-> r.id]
  BY DEF NewItem
<1>2. r.kind \in Kinds
  BY <1>1 DEF NewKinds, Kinds
<1> QED
  BY <1>1, <1>2 DEF Item, Record, NewKinds

(* Two sequences in one.                                                   *)
LEMMA Joined ==
  ASSUME NEW S, NEW a \in Seq(S), NEW b \in Seq(S)
  PROVE  /\ a \o b \in Seq(S) /\ Len(a \o b) = Len(a) + Len(b)
         /\ \A i \in 1..Len(a) : (a \o b)[i] = a[i]
         /\ \A i \in (Len(a) + 1)..Len(a \o b) :
              (a \o b)[i] = b[i - Len(a)] /\ i - Len(a) \in 1..Len(b)
  OBVIOUS

(* One summary in place of the items from+1..e.                            *)
Shortened(h, r, from, e) ==
  /\ from < e /\ e <= Len(h)
  /\ Len(r) = from + 1 + Len(h) - e
  /\ \A i \in 1..from : r[i] = h[i]
  /\ r[from + 1].kind = "summary"
  /\ \A i \in (e + 1)..Len(h) : r[i + from + 1 - e] = h[i]
  /\ \A i \in (from + 2)..Len(r) : r[i] = h[i + e - from - 1]

(* What replace_range_with_system_summary leaves.                          *)
LEMMA ReplaceShape ==
  ASSUME NEW h \in Seq(Item), NEW from \in Nat, NEW to \in Nat, NEW id \in 0..MaxItems
  PROVE  /\ Replace(h, from, to, id) \in Seq(Item)
         /\ \/ Replace(h, from, to, id) = h
            \/ \E e \in Nat : Shortened(h, Replace(h, from, to, id), from, e)
<1> DEFINE e == Min({to, Len(h)})
           s == [kind |-> "summary", id |-> id]
           a == SubSeq(h, 1, from)
           b == SubSeq(h, e + 1, Len(h))
           r == a \o <<s>> \o b
<1>1. e \in Nat /\ e <= to /\ e <= Len(h)
  <2>1. Len(h) \in Nat
    OBVIOUS
  <2>2. \E x \in {to, Len(h)} : \A y \in {to, Len(h)} : x =< y
    BY <2>1
  <2>3. e \in {to, Len(h)} /\ \A y \in {to, Len(h)} : e =< y
    BY <2>2 DEF Min
  <2> QED
    BY <2>1, <2>3
<1>2. Replace(h, from, to, id) = IF e <= from THEN h ELSE r
  BY DEF Replace
<1> HIDE DEF e
<1>3. CASE e <= from
  BY <1>2, <1>3
<1>4. CASE ~(e <= from)
  <2>1. s \in Item
    BY DEF Item, Kinds
  <2>2. a \in Seq(Item) /\ Len(a) = from /\ \A i \in 1..from : a[i] = h[i]
    BY <1>1, <1>4
  <2>3. b \in Seq(Item) /\ Len(b) = Len(h) - e /\ \A i \in 1..(Len(h) - e) : b[i] = h[i + e]
    BY <1>1, <1>4
  <2>4. s.kind = "summary"
    OBVIOUS
  <2> DEFINE c == a \o <<s>>
  <2>5. /\ c \in Seq(Item) /\ Len(c) = from + 1 /\ c[from + 1] = s
        /\ \A i \in 1..from : c[i] = h[i]
    <3>1. <<s>> \in Seq(Item) /\ Len(<<s>>) = 1 /\ <<s>>[1] = s
      BY <2>1
    <3> HIDE DEF a, s
    <3>2. /\ c \in Seq(Item) /\ Len(c) = Len(a) + Len(<<s>>)
          /\ \A i \in 1..Len(a) : c[i] = a[i]
          /\ \A i \in (Len(a) + 1)..Len(c) : c[i] = <<s>>[i - Len(a)]
      BY <2>2, <3>1, Joined
    <3> QED
      BY <2>2, <3>1, <3>2
  <2>6. r = c \o b
    OBVIOUS
  <2> HIDE DEF b, c, s
  <2>7. /\ c \o b \in Seq(Item) /\ Len(c \o b) = Len(c) + Len(b)
        /\ \A i \in 1..(Len(c) + Len(b)) :
              (c \o b)[i] = IF i <= Len(c) THEN c[i] ELSE b[i - Len(c)]
    BY <2>3, <2>5, ConcatProperties
  <2> HIDE DEF r
  <2>8. /\ r \in Seq(Item) /\ Len(r) = from + 1 + Len(h) - e
        /\ \A i \in 1..from : r[i] = h[i]
        /\ r[from + 1] = s
        /\ \A i \in (from + 2)..Len(r) : r[i] = b[i - from - 1]
    <3>1. from \in Nat /\ Len(h) - e \in Nat /\ Len(h) \in Nat /\ e \in Nat
      BY <1>1, <1>4
    <3>2. /\ r \in Seq(Item) /\ Len(r) = from + 1 + (Len(h) - e)
          /\ \A i \in 1..Len(r) : r[i] = IF i <= from + 1 THEN c[i] ELSE b[i - (from + 1)]
      BY <2>3, <2>5, <2>6, <2>7
    <3> HIDE DEF a
    <3>3. ASSUME NEW i \in 1..from PROVE r[i] = h[i]
      <4>1. i \in 1..Len(r) /\ i <= from + 1
        BY <3>1, <3>2
      <4>2. r[i] = c[i]
        BY <3>2, <4>1
      <4> QED
        BY <2>5, <4>2
    <3>4. r[from + 1] = s
      <4>1. from + 1 \in 1..Len(r)
        BY <3>1, <3>2
      <4> QED
        BY <2>5, <3>2, <4>1
    <3>5. ASSUME NEW i \in (from + 2)..Len(r) PROVE r[i] = b[i - from - 1]
      <4>1. i \in 1..Len(r) /\ ~(i <= from + 1) /\ i - (from + 1) = i - from - 1
        BY <3>1, <3>2
      <4> QED
        BY <3>2, <4>1
    <3> QED
      BY <3>1, <3>2, <3>3, <3>4, <3>5
  <2>9. \A i \in (from + 2)..Len(r) : r[i] = h[i + e - from - 1]
    <3> SUFFICES ASSUME NEW i \in (from + 2)..Len(r) PROVE r[i] = h[i + e - from - 1]
      OBVIOUS
    <3>1. i - from - 1 \in 1..(Len(h) - e) /\ (i - from - 1) + e = i + e - from - 1
      BY <1>1, <2>8
    <3> QED
      BY <2>3, <2>8, <3>1
  <2>10. \A i \in (e + 1)..Len(h) : r[i + from + 1 - e] = h[i]
    <3> SUFFICES ASSUME NEW i \in (e + 1)..Len(h) PROVE r[i + from + 1 - e] = h[i]
      OBVIOUS
    <3>1. /\ i + from + 1 - e \in (from + 2)..Len(r)
          /\ (i + from + 1 - e) + e - from - 1 = i
      BY <1>1, <2>8
    <3> QED
      BY <2>9, <3>1
  <2>11. from < e
    BY <1>1, <1>4
  <2>12. Replace(h, from, to, id) = r
    BY <1>2, <1>4 DEF r
  <2> QED
    <3>1. Shortened(h, r, from, e)
      BY <1>1, <2>4, <2>8, <2>9, <2>10, <2>11 DEF Shortened
    <3> QED
      BY <1>1, <2>8, <2>12, <3>1
<1> QED
  BY <1>3, <1>4

(* The history a ledger is replayed to consists of items.                  *)
LEMMA ReplayType == \A records \in Seq(Record) : Replay(records) \in Seq(Item)
<1> DEFINE T == {n \in Nat : \E s \in Seq(Record) : Len(s) = n /\ Replay(s) \notin Seq(Item)}
<1> SUFFICES ASSUME T # {} PROVE FALSE
  <2> SUFFICES ASSUME NEW s \in Seq(Record), Replay(s) \notin Seq(Item) PROVE T # {}
    OBVIOUS
  <2>1. Len(s) \in T
    OBVIOUS
  <2> QED
    BY <2>1
<1>1. PICK m \in T : \A k \in T : m <= k
  <2>1. T \subseteq Nat
    OBVIOUS
  <2> HIDE DEF T
  <2> QED
    BY <2>1, Least
<1>2. PICK s \in Seq(Record) : Len(s) = m /\ Replay(s) \notin Seq(Item)
  BY <1>1
<1>3. s # <<>>
  BY <1>2, ReplayEmpty
<1>4. PICK t \in Seq(Record), r \in Record : s = Append(t, r)
  BY <1>2, <1>3, SequenceEmptyOrAppend
<1>5. Len(t) \in Nat /\ ~(m <= Len(t))
  BY <1>2, <1>4
<1>6. Replay(t) \in Seq(Item)
  BY <1>1, <1>5
<1>7. Replay(s) = Apply(Replay(t), r)
  BY <1>4, ReplayAppend
<1>8. Apply(Replay(t), r) \in Seq(Item)
  <2>1. CASE r \in Compactions
    <3>1. /\ r.kind = "compaction" /\ r.from \in Nat /\ r.to \in Nat /\ r.id \in 0..MaxItems
      BY <2>1 DEF Compactions
    <3> QED
      BY <1>6, <3>1, ReplaceShape DEF Apply
  <2>2. CASE r \in NewItem
    BY <1>6, <2>2, NewIsItem DEF Apply
  <2>3. CASE r \in Marks
    BY <1>6, <2>3 DEF Apply, Marks, Kinds
  <2> QED
    BY <2>1, <2>2, <2>3 DEF Record
<1> QED
  BY <1>2, <1>7, <1>8

(* Items are appended, as they were to the history.                        *)
LEMMA ReplayItems ==
  ASSUME NEW records \in Seq(Record)
  PROVE  \A items \in Seq(NewItem) :
           records \o items \in Seq(Record) /\ Replay(records \o items) = Replay(records) \o items
<1> DEFINE Holds(s) == records \o s \in Seq(Record) /\ Replay(records \o s) = Replay(records) \o s
           T == {n \in Nat : \E s \in Seq(NewItem) : Len(s) = n /\ ~Holds(s)}
<1>t. T \subseteq Nat
  OBVIOUS
<1> SUFFICES ASSUME T # {} PROVE FALSE
  <2> SUFFICES ASSUME NEW s \in Seq(NewItem), ~Holds(s) PROVE T # {}
    OBVIOUS
  <2> HIDE DEF Holds
  <2>1. Len(s) \in T
    OBVIOUS
  <2> QED
    BY <2>1
<1>1. PICK m \in T : \A k \in T : m <= k
  <2> HIDE DEF T
  <2> QED
    BY <1>t, Least
<1>2. PICK s \in Seq(NewItem) : Len(s) = m /\ ~Holds(s)
  <2> HIDE DEF Holds
  <2> QED
    BY <1>1
<1>3. Replay(records) \in Seq(Item)
  BY ReplayType
<1>4. s # <<>>
  <2>1. Holds(<<>>)
    BY <1>3, ConcatEmptySeq
  <2> QED
    BY <1>2, <2>1
<1>5. PICK t \in Seq(NewItem), r \in NewItem : s = Append(t, r)
  BY <1>2, <1>4, SequenceEmptyOrAppend
<1>6. Holds(t)
  <2>1. Len(t) \in Nat /\ ~(m <= Len(t))
    BY <1>2, <1>5
  <2> HIDE DEF Holds
  <2> QED
    BY <1>1, <2>1
<1>7. /\ r \in Record /\ r \in Item /\ r.kind \in Kinds /\ r.kind # "compaction"
      /\ t \in Seq(Record) /\ t \in Seq(Item)
  <2>1. NewItem \subseteq Record /\ NewItem \subseteq Item
    BY NewIsItem
  <2>2. t \in Seq(Record) /\ t \in Seq(Item)
    BY <2>1, SeqMonotonic
  <2> QED
    BY <2>2, NewIsItem
<1>8. records \o s = Append(records \o t, r)
  <2> HIDE DEF T, Holds
  <2>1. records \o Append(t, r) = Append(records \o t, r)
    BY <1>7, ConcatAppend
  <2> QED
    BY <1>5, <2>1, Zenon
<1>9. Replay(records \o s) = Append(Replay(records) \o t, r)
  BY <1>6, <1>7, <1>8, ReplayAppend DEF Apply
<1>10. Replay(records) \o s = Append(Replay(records) \o t, r)
  <2> HIDE DEF T, Holds
  <2>1. Replay(records) \o Append(t, r) = Append(Replay(records) \o t, r)
    BY <1>3, <1>7, ConcatAppend
  <2> QED
    BY <1>5, <2>1, Zenon
<1>11. records \o s \in Seq(Record)
  BY <1>6, <1>7, <1>8
<1> QED
  BY <1>2, <1>9, <1>10, <1>11

(* The summaries of a history are its first items.                         *)
SummariesFirst(h) ==
  \E s \in 0..Len(h) : \A i \in DOMAIN h : h[i].kind = "summary" <=> i <= s

(* ... and so they are in what any part of the ledger is replayed to.      *)
PrefixShape(records) == \A n \in 0..Len(records) : SummariesFirst(Replay(SubSeq(records, 1, n)))

(* A ledger that another one is the beginning of.                          *)
Grown(old, new) ==
  /\ new \in Seq(Record)
  /\ PrefixShape(new)
  /\ Len(old) <= Len(new)
  /\ \A n \in 0..Len(old) : SubSeq(new, 1, n) = SubSeq(old, 1, n)

(* New items come after all summaries.                                     *)
LEMMA FirstItems ==
  ASSUME NEW h \in Seq(Item), SummariesFirst(h), NEW items \in Seq(NewItem)
  PROVE  SummariesFirst(h \o items) /\ h \o items \in Seq(Item)
<1>1. PICK s \in 0..Len(h) : \A i \in DOMAIN h : h[i].kind = "summary" <=> i <= s
  BY DEF SummariesFirst
<1>2. items \in Seq(Item)
  <2>1. NewItem \subseteq Item
    BY NewIsItem
  <2> QED
    BY <2>1, SeqMonotonic
<1>3. /\ h \o items \in Seq(Item) /\ Len(h \o items) = Len(h) + Len(items)
      /\ DOMAIN (h \o items) = 1..(Len(h) + Len(items))
      /\ \A i \in 1..Len(h) : (h \o items)[i] = h[i]
      /\ \A i \in (Len(h) + 1)..(Len(h) + Len(items)) : (h \o items)[i] = items[i - Len(h)]
  BY <1>2
<1>4. \A i \in DOMAIN items : items[i].kind # "summary"
  <2>1. \A i \in DOMAIN items : items[i] \in NewItem
    OBVIOUS
  <2> QED
    BY <2>1, NewIsItem DEF NewKinds
<1>5. ASSUME NEW i \in DOMAIN (h \o items) PROVE (h \o items)[i].kind = "summary" <=> i <= s
  <2>1. CASE i \in 1..Len(h)
    BY <1>1, <1>3, <2>1
  <2>2. CASE i \in (Len(h) + 1)..(Len(h) + Len(items))
    <3>1. i - Len(h) \in DOMAIN items /\ ~(i <= s)
      BY <1>1, <2>2
    <3> QED
      BY <1>3, <1>4, <2>2, <3>1
  <2> QED
    BY <1>3, <2>1, <2>2
<1>6. s \in 0..Len(h \o items)
  BY <1>1, <1>3
<1> QED
  BY <1>3, <1>5, <1>6 DEF SummariesFirst

(* A ledger grows by one record ...                                        *)
LEMMA GrownBy ==
  ASSUME NEW l \in Seq(Record), PrefixShape(l), NEW r \in Record,
         SummariesFirst(Apply(Replay(l), r))
  PROVE  Grown(l, Append(l, r))
<1> DEFINE m == Append(l, r)
<1>1. m \in Seq(Record) /\ Len(m) = Len(l) + 1 /\ \A i \in 1..Len(l) : m[i] = l[i]
  OBVIOUS
<1>2. ASSUME NEW n \in 0..Len(l) PROVE SubSeq(m, 1, n) = SubSeq(l, 1, n)
  BY <1>1
<1>3. SubSeq(m, 1, Len(m)) = m /\ Replay(m) = Apply(Replay(l), r)
  BY <1>1, SubSeqFull, ReplayAppend
<1> HIDE DEF m
<1>4. ASSUME NEW n \in 0..Len(m) PROVE SummariesFirst(Replay(SubSeq(m, 1, n)))
  <2>1. CASE n \in 0..Len(l)
    BY <1>2, <2>1 DEF PrefixShape
  <2>2. CASE n = Len(m)
    BY <1>3, <2>2
  <2> QED
    BY <1>1, <2>1, <2>2
<1> QED
  BY <1>1, <1>2, <1>4 DEF Grown, PrefixShape, m

(* ... or by some items, ...                                               *)
LEMMA GrownByItems ==
  ASSUME NEW l \in Seq(Record), PrefixShape(l), NEW items \in Seq(NewItem)
  PROVE  Grown(l, l \o items)
<1> DEFINE m == l \o items
<1>1. items \in Seq(Record)
  <2>1. NewItem \subseteq Record
    BY NewIsItem
  <2> QED
    BY <2>1, SeqMonotonic
<1>2. /\ m \in Seq(Record) /\ Len(m) = Len(l) + Len(items) /\ Len(items) \in Nat
      /\ \A i \in 1..Len(l) : m[i] = l[i]
  BY <1>1
<1>3. ASSUME NEW n \in 0..Len(l) PROVE SubSeq(m, 1, n) = SubSeq(l, 1, n)
  <2> HIDE DEF m
  <2> QED
    BY <1>2
<1>4. ASSUME NEW n \in 0..Len(m) PROVE SummariesFirst(Replay(SubSeq(m, 1, n)))
  <2>1. CASE n \in 0..Len(l)
    BY <1>3, <2>1 DEF PrefixShape
  <2>2. CASE n \in (Len(l) + 1)..Len(m)
    <3> DEFINE some == SubSeq(items, 1, n - Len(l))
    <3>1. some \in Seq(NewItem)
      BY <1>2, <2>2
    <3>2. SubSeq(m, 1, n) = l \o some
      <4>1. n - Len(l) \in 1..Len(items)
        BY <1>2, <2>2
      <4> QED
        BY <1>1, <1>2, <2>2, <4>1
    <3>3. SummariesFirst(Replay(l))
      <4>1. SubSeq(l, 1, Len(l)) = l /\ Len(l) \in 0..Len(l)
        BY SubSeqFull
      <4> QED
        BY <4>1 DEF PrefixShape
    <3> HIDE DEF some
    <3>4. Replay(l \o some) = Replay(l) \o some /\ Replay(l) \in Seq(Item)
      BY <3>1, ReplayItems, ReplayType
    <3> QED
      BY <3>1, <3>2, <3>3, <3>4, FirstItems
  <2> QED
    BY <1>2, <2>1, <2>2
<1> HIDE DEF m
<1> QED
  BY <1>2, <1>3, <1>4 DEF Grown, PrefixShape, m

(* ... step by step.                                                       *)
LEMMA GrownTwice ==
  ASSUME NEW a \in Seq(Record), NEW b, NEW c, Grown(a, b), Grown(b, c)
  PROVE  Grown(a, c)
<1>1. b \in Seq(Record)
  BY DEF Grown
<1>2. \A n \in 0..Len(a) : n \in 0..Len(b)
  BY <1>1 DEF Grown
<1> QED
  BY <1>1, <1>2 DEF Grown

(* A crash leaves a beginning of it.                                       *)
LEMMA CutShape ==
  ASSUME NEW l \in Seq(Record), PrefixShape(l), NEW n \in 0..Len(l)
  PROVE  /\ SubSeq(l, 1, n) \in Seq(Record)
         /\ Len(SubSeq(l, 1, n)) = n
         /\ \A k \in 0..n : SubSeq(SubSeq(l, 1, n), 1, k) = SubSeq(l, 1, k)
         /\ PrefixShape(SubSeq(l, 1, n))
<1> DEFINE m == SubSeq(l, 1, n)
<1>1. m \in Seq(Record) /\ Len(m) = n /\ \A i \in 1..n : m[i] = l[i]
  OBVIOUS
<1> HIDE DEF m
<1>2. ASSUME NEW k \in 0..n PROVE SubSeq(m, 1, k) = SubSeq(l, 1, k)
  BY <1>1
<1>3. PrefixShape(m)
  <2> SUFFICES ASSUME NEW k \in 0..Len(m) PROVE SummariesFirst(Replay(SubSeq(m, 1, k)))
    BY DEF PrefixShape
  <2>1. k \in 0..n /\ k \in 0..Len(l)
    BY <1>1
  <2> QED
    BY <1>2, <2>1 DEF PrefixShape
<1> QED
  BY <1>1, <1>2, <1>3 DEF m

-------------------------------------------------------------------------------
(* Counting turns.                                                         *)

(* A turn mark counts one, any other record nothing.                       *)
LEMMA TurnsAppend ==
  ASSUME NEW l \in Seq(Record), NEW r \in Record
  PROVE  /\ TurnsIn(l) \in Nat
         /\ TurnsIn(Append(l, r)) = TurnsIn(l) + (IF r.kind = "turn" THEN 1 ELSE 0)
<1> DEFINE n == Len(l)
           old == Indices(l, "turn")
           new == Indices(Append(l, r), "turn")
<1>1. n \in Nat /\ DOMAIN l = 1..n
  OBVIOUS
<1>2. old \subseteq 1..n /\ new = old \union (IF r.kind = "turn" THEN {n + 1} ELSE {})
  BY DEF Indices
<1>3. IsFiniteSet(old) /\ Cardinality(old) \in Nat
  <2>1. IsFiniteSet(1..n)
    BY <1>1, FS_Interval
  <2> HIDE DEF old, new, n
  <2> QED
    BY <1>2, <2>1, FS_Subset, FS_CardinalityType
<1>4. n + 1 \notin old
  BY <1>1, <1>2
<1> HIDE DEF n, old, new
<1>5. CASE r.kind = "turn"
  <2>1. new = old \union {n + 1}
    BY <1>2, <1>5
  <2>2. Cardinality(new) = Cardinality(old) + 1
    BY <1>3, <1>4, <2>1, FS_AddElement
  <2> QED
    BY <1>3, <1>5, <2>2 DEF TurnsIn, old, new
<1>6. CASE r.kind # "turn"
  <2>1. new = old
    BY <1>2, <1>6
  <2> QED
    BY <1>3, <1>6, <2>1 DEF TurnsIn, old, new
<1> QED
  BY <1>5, <1>6

(* Records of other kinds change nothing about those of a kind.            *)
LEMMA OtherKinds ==
  ASSUME NEW l \in Seq(Record), NEW more \in Seq(Record), NEW kind,
         \A i \in DOMAIN more : more[i].kind # kind
  PROVE  Indices(l \o more, kind) = Indices(l, kind)
<1> DEFINE m == l \o more
<1>1. /\ DOMAIN m = 1..(Len(l) + Len(more)) /\ DOMAIN l = 1..Len(l)
      /\ \A i \in 1..Len(l) : m[i] = l[i]
      /\ \A i \in (Len(l) + 1)..(Len(l) + Len(more)) :
            m[i] = more[i - Len(l)] /\ i - Len(l) \in DOMAIN more
  OBVIOUS
<1> HIDE DEF m
<1>2. \A i \in DOMAIN m : m[i].kind = kind <=> i \in DOMAIN l /\ l[i].kind = kind
  BY <1>1
<1>3. DOMAIN l \subseteq DOMAIN m
  BY <1>1
<1>4. Indices(m, kind) = Indices(l, kind)
  BY <1>2, <1>3 DEF Indices
<1> QED
  BY <1>4 DEF m

(* Items are not turns.                                                    *)
LEMMA TurnsItems ==
  ASSUME NEW l \in Seq(Record), NEW items \in Seq(NewItem)
  PROVE  TurnsIn(l \o items) = TurnsIn(l) /\ items \in Seq(Record)
<1>1. \A i \in DOMAIN items : items[i].kind # "turn"
  <2>1. \A i \in DOMAIN items : items[i] \in NewItem
    OBVIOUS
  <2> QED
    BY <2>1, NewIsItem DEF NewKinds
<1>2. items \in Seq(Record)
  <2>1. NewItem \subseteq Record
    BY NewIsItem
  <2> QED
    BY <2>1, SeqMonotonic
<1> QED
  BY <1>1, <1>2, OtherKinds DEF TurnsIn

(* A beginning of the ledger has no more turns.                            *)
LEMMA TurnsCut ==
  ASSUME NEW l \in Seq(Record), NEW n \in 0..Len(l)
  PROVE  TurnsIn(SubSeq(l, 1, n)) \in Nat /\ TurnsIn(SubSeq(l, 1, n)) <= TurnsIn(l)
<1> DEFINE m == SubSeq(l, 1, n)
<1>1. DOMAIN m = 1..n /\ DOMAIN l = 1..Len(l) /\ \A i \in 1..n : m[i] = l[i]
  OBVIOUS
<1> HIDE DEF m
<1>2. Indices(m, "turn") \subseteq Indices(l, "turn") /\ Indices(l, "turn") \subseteq 1..Len(l)
  BY <1>1 DEF Indices
<1>3. IsFiniteSet(Indices(l, "turn"))
  <2>1. IsFiniteSet(1..Len(l))
    BY FS_Interval
  <2> QED
    BY <1>2, <2>1, FS_Subset, Zenon
<1>4. /\ IsFiniteSet(Indices(m, "turn"))
      /\ Cardinality(Indices(m, "turn")) <= Cardinality(Indices(l, "turn"))
  BY <1>2, <1>3, FS_Subset
<1> QED
  BY <1>4, FS_CardinalityType DEF TurnsIn, m

-------------------------------------------------------------------------------
(* The prompt and the plan made on it.                                     *)

(* The prompt begins with the summaries of the history, at their places:   *)
(* placeholders come after calls only, and no call comes before a summary. *)
LEMMA PromptShape ==
  ASSUME NEW h \in Seq(Item), NEW s \in 0..Len(h),
         \A i \in DOMAIN h : h[i].kind = "summary" <=> i <= s
  PROVE  /\ Prompt(h) \in Seq(Item)
         /\ Len(Prompt(h)) >= Len(h)
         /\ \A i \in DOMAIN Prompt(h) : Prompt(h)[i].kind = "summary" <=> i <= s
<1> DEFINE n == Len(h)
           gap(i) == [kind |-> "missing", id |-> h[i].id]
           b == [i \in DOMAIN h |-> IF i \in Unanswered(h) THEN <<h[i], gap(i)>> ELSE <<h[i]>>]
           Good(x, k) == /\ x \in Seq(Item) /\ Len(x) >= k /\ (k <= s => Len(x) = k)
                         /\ \A i \in DOMAIN x : x[i].kind = "summary" <=> i <= s
<1>1. n \in Nat /\ DOMAIN h = 1..n
  OBVIOUS
<1>2. ASSUME NEW i \in 1..n
      PROVE  /\ b[i] \in Seq(Item) /\ Len(b[i]) >= 1
             /\ i <= s => Len(b[i]) = 1 /\ b[i][1].kind = "summary"
             /\ i > s => \A j \in DOMAIN b[i] : b[i][j].kind # "summary"
  <2>1. h[i] \in Item /\ gap(i) \in Item /\ gap(i).kind = "missing"
    <3>1. h[i] \in Item
      BY <1>1
    <3>2. h[i].id \in 0..MaxItems
      BY <3>1 DEF Item
    <3> QED
      BY <3>1, <3>2 DEF Item, Kinds
  <2>2. CASE i \in Unanswered(h)
    <3>1. b[i] = <<h[i], gap(i)>> /\ h[i].kind = "call"
      BY <1>1, <2>2 DEF Unanswered, Indices
    <3>2. i > s
      BY <1>1, <3>1
    <3> HIDE DEF b, gap
    <3> QED
      BY <2>1, <3>1, <3>2
  <2>3. CASE i \notin Unanswered(h)
    <3>1. b[i] = <<h[i]>> /\ (h[i].kind = "summary" <=> i <= s)
      BY <1>1, <2>3
    <3> HIDE DEF b, gap
    <3> QED
      BY <2>1, <3>1
  <2> QED
    BY <2>2, <2>3
<1>3. Prompt(h) = FlattenSeq(b)
  BY DEF Prompt
<1>4. Len(b) = n /\ DOMAIN b = 1..n
  <2>1. b \in Seq(Seq(Item))
    <3>1. b = [i \in 1..n |-> b[i]]
      BY <1>1
    <3> HIDE DEF b
    <3>2. b \in [1..n -> Seq(Item)]
      BY <1>2, <3>1
    <3> QED
      BY <1>1, <3>2
  <2> QED
    BY <1>1, <2>1
<1>5. CASE n = 0
  <2>1. Prompt(h) = b /\ DOMAIN b = {}
    <3> HIDE DEF b
    <3> QED
      BY <1>3, <1>4, <1>5 DEF FlattenSeq
  <2>2. b = <<>>
    BY <1>1, <1>5
  <2> HIDE DEF b
  <2> QED
    BY <1>5, <2>1, <2>2
<1> HIDE DEF b
<1>6. CASE n # 0
  <2>1. PICK f : IsFlat(f, b, n) /\ FlattenSeq(b) = f[n]
    BY <1>1, <1>4, <1>6, FlattenIsFlat
  <2> HIDE DEF n
  <2>2. ASSUME NEW k \in 1..n PROVE f[k] = IF k = 1 THEN b[k] ELSE f[k - 1] \o b[k]
    BY <2>1 DEF IsFlat
  <2> DEFINE T == {k \in 1..n : ~Good(f[k], k)}
  <2>3. T = {}
    <3> SUFFICES ASSUME T # {} PROVE FALSE
      OBVIOUS
    <3>1. PICK m \in T : \A k \in T : m <= k
      <4>1. T \subseteq Nat
        BY <1>1
      <4> HIDE DEF T
      <4> QED
        BY <4>1, Least
    <3>2. m \in 1..n /\ ~Good(f[m], m)
      OBVIOUS
    <3>3. CASE m = 1
      <4>1. f[m] = b[1]
        BY <2>2, <3>2, <3>3
      <4>2. CASE s = 0
        BY <1>2, <3>2, <3>3, <4>1, <4>2
      <4>3. CASE s # 0
        BY <1>2, <3>2, <3>3, <4>1, <4>3
      <4> QED
        BY <4>2, <4>3
    <3>4. CASE m # 1
      <4> DEFINE x == f[m - 1]
                 y == b[m]
                 z == x \o y
      <4>1. m - 1 \in 1..n /\ ~(m <= m - 1) /\ f[m] = z
        <5>1. m \in 1..n
          BY <3>2
        <5>2. m - 1 \in 1..n /\ ~(m <= m - 1)
          <6> HIDE DEF T, Good
          <6> QED
            BY <1>1, <3>4, <5>1
        <5> HIDE DEF T
        <5> QED
          BY <2>2, <3>4, <5>1, <5>2
      <4>2. Good(x, m - 1)
        BY <3>1, <4>1
      <4>3. /\ y \in Seq(Item) /\ Len(y) >= 1
            /\ m <= s => Len(y) = 1 /\ y[1].kind = "summary"
            /\ m > s => \A j \in DOMAIN y : y[j].kind # "summary"
        BY <1>2, <3>2
      <4> HIDE DEF x, y
      <4>4. /\ z \in Seq(Item) /\ Len(z) = Len(x) + Len(y)
            /\ \A i \in 1..(Len(x) + Len(y)) : z[i] = IF i <= Len(x) THEN x[i] ELSE y[i - Len(x)]
        BY <4>2, <4>3, ConcatProperties
      <4> HIDE DEF z
      <4>5. CASE m <= s
        <5>1. Len(x) = m - 1 /\ Len(y) = 1 /\ Len(z) = m
          <6>1. m \in Nat /\ m - 1 <= s
            BY <3>2, <4>5
          <6>2. Len(x) = m - 1
            BY <4>2, <6>1
          <6>3. Len(y) = 1
            BY <4>3, <4>5
          <6>4. Len(z) = Len(x) + Len(y)
            BY <4>4
          <6> HIDE DEF T, Good
          <6> QED
            BY <6>1, <6>2, <6>3, <6>4
        <5>2. \A i \in 1..m : z[i].kind = "summary" /\ i <= s
          <6> HIDE DEF T, Good
          <6> SUFFICES ASSUME NEW i \in 1..m PROVE z[i].kind = "summary" /\ i <= s
            OBVIOUS
          <6>1. m \in Nat /\ s \in Nat /\ i <= s /\ z[i] = IF i <= m - 1 THEN x[i] ELSE y[1]
            BY <1>1, <3>2, <4>4, <4>5, <5>1
          <6>2. CASE i <= m - 1
            <7>1. i \in DOMAIN x /\ i <= s /\ z[i] = x[i]
              BY <4>2, <5>1, <6>1, <6>2
            <7>2. \A j \in DOMAIN x : x[j].kind = "summary" <=> j <= s
              BY <4>2 DEF Good
            <7> QED
              BY <7>1, <7>2
          <6>3. CASE ~(i <= m - 1)
            BY <4>3, <4>5, <6>1, <6>3
          <6> QED
            BY <6>2, <6>3
        <5> QED
          BY <3>2, <4>1, <4>4, <4>5, <5>1, <5>2
      <4>6. CASE m > s
        <5>1. Len(x) >= m - 1 /\ Len(x) >= s /\ Len(z) >= m
          BY <1>1, <3>2, <4>2, <4>3, <4>4, <4>6
        <5>2. ASSUME NEW i \in DOMAIN z PROVE z[i].kind = "summary" <=> i <= s
          <6>1. CASE i <= Len(x)
            BY <4>2, <4>4, <6>1
          <6>2. CASE i > Len(x)
            <7>1. i - Len(x) \in DOMAIN y /\ ~(i <= s)
              BY <4>2, <4>3, <4>4, <5>1, <6>2
            <7> QED
              BY <4>3, <4>4, <4>6, <6>2, <7>1
          <6> QED
            BY <4>2, <4>4, <6>1, <6>2
        <5> QED
          BY <3>2, <4>1, <4>4, <4>6, <5>1, <5>2
      <4> QED
        BY <1>1, <3>2, <4>5, <4>6
    <3> QED
      BY <3>3, <3>4
  <2>4. Good(f[n], n)
    BY <1>1, <1>6, <2>3
  <2> QED
    BY <1>3, <2>1, <2>4 DEF n
<1> QED
  BY <1>5, <1>6

(* What ThresholdV1Strategy plans on a prompt: from the last summary, if   *)
(* there is one, on.                                                       *)
Planned(h, p) ==
  /\ p.from < p.to
  /\ p.from <= Len(h)
  /\ \A i \in DOMAIN h : h[i].kind = "summary" <=> i <= p.from

(* So it is whenever the strategy compacts.                                *)
LEMMA PlanMade ==
  ASSUME NEW h \in Seq(Item), SummariesFirst(h), Compactable(Prompt(h))
  PROVE  Plan(Prompt(h)) \in [from : Nat, to : Nat] /\ Planned(h, Plan(Prompt(h)))
<1> DEFINE p == Prompt(h)
           to == Len(p) - KeepRecent
           z == {0} \union {i \in Indices(p, "summary") : i <= to}
<1>1. PICK s \in 0..Len(h) : \A i \in DOMAIN h : h[i].kind = "summary" <=> i <= s
  BY DEF SummariesFirst
<1>2. /\ p \in Seq(Item) /\ Len(p) >= Len(h)
      /\ \A i \in DOMAIN p : p[i].kind = "summary" <=> i <= s
  BY <1>1, PromptShape
<1>3. Plan(p) = [from |-> Max(z), to |-> to]
  BY DEF Plan
<1>4. Len(p) > KeepRecent /\ Plan(p).to - Plan(p).from >= MinReplace
  BY DEF Compactable
<1> HIDE DEF p
<1>5. to \in Nat /\ DOMAIN p = 1..Len(p) /\ to <= Len(p)
  BY <1>2, <1>4, TurnAssumption
<1> DEFINE m == IF s <= to THEN s ELSE to
<1>6. m \in z /\ \A i \in z : i \in Nat /\ m >= i
  <2>1. \A i \in z : i = 0 \/ (i \in 1..Len(p) /\ i <= s /\ i <= to)
    BY <1>2, <1>5 DEF Indices
  <2>2. m \in z
    <3>1. m = 0 \/ m \in 1..Len(p)
      BY <1>1, <1>2, <1>5
    <3>2. m <= s /\ m <= to
      BY <1>1, <1>5
    <3> HIDE DEF m, to
    <3> QED
      BY <1>2, <1>5, <3>1, <3>2 DEF Indices
  <2> HIDE DEF z
  <2> QED
    BY <1>1, <1>5, <2>1, <2>2
<1> HIDE DEF z
<1>7. Max(z) = m
  <2>1. Max(z) \in z /\ \A i \in z : Max(z) >= i
    BY <1>6 DEF Max
  <2> HIDE DEF m
  <2> QED
    BY <1>6, <2>1
<1>8. m = s /\ s < to
  <2>1. to - m >= MinReplace
    BY <1>3, <1>4, <1>7
  <2>2. MinReplace \in Nat /\ MinReplace >= 1 /\ s \in Nat
    BY <1>1, TurnAssumption
  <2> HIDE DEF to
  <2>3. m \in Nat /\ m < to
    BY <1>5, <2>1, <2>2
  <2> QED
    BY <1>5, <2>2, <2>3
<1>9. Plan(p) = [from |-> s, to |-> to] /\ s \in Nat
  BY <1>1, <1>3, <1>7, <1>8
<1> HIDE DEF m, to
<1>10. Plan(p) \in [from : Nat, to : Nat] /\ Planned(h, Plan(p))
  BY <1>1, <1>5, <1>8, <1>9 DEF Planned
<1> QED
  BY <1>10 DEF p

(* The head of run_turn's loop.                                            *)
LEMMA LoopTopPlans ==
  ASSUME NEW h \in Seq(Item), SummariesFirst(h), LoopTop(h)
  PROVE  /\ plan' \in [from : Nat, to : Nat]
         /\ pc' \in {"sampling", "compacting"}
         /\ pc' = "compacting" => Planned(h, plan')
  BY PlanMade DEF LoopTop, NoPlan

-------------------------------------------------------------------------------
(* What a step adds to the history and the ledger.                         *)

(* The items made for some kinds, with ids of their own.                   *)
LEMMA NewItems ==
  ASSUME nextId \in Nat, NEW kinds \in Seq(NewKinds), nextId + Len(kinds) <= MaxItems
  PROVE  /\ New(kinds) \in Seq(NewItem)
         /\ Len(New(kinds)) = Len(kinds)
         /\ \A i \in 1..Len(kinds) : New(kinds)[i] = [kind |-> kinds[i], id |-> nextId + i]
<1>1. /\ DOMAIN kinds = 1..Len(kinds) /\ Len(kinds) \in Nat
      /\ \A i \in 1..Len(kinds) : kinds[i] \in NewKinds
  OBVIOUS
<1>2. ASSUME NEW i \in 1..Len(kinds) PROVE [kind |-> kinds[i], id |-> nextId + i] \in NewItem
  BY <1>1, TurnAssumption DEF NewItem
<1>3. New(kinds) = [i \in 1..Len(kinds) |-> [kind |-> kinds[i], id |-> nextId + i]]
  BY <1>1 DEF New
<1>4. New(kinds) \in [1..Len(kinds) -> NewItem]
  BY <1>2, <1>3
<1> QED
  BY <1>1, <1>3, <1>4

(* A record that is no item leaves what is replayed alone.                 *)
LEMMA MarkAdded ==
  ASSUME NEW l \in Seq(Record), PrefixShape(l), NEW r \in Marks
  PROVE  /\ Grown(l, Append(l, r))
         /\ Replay(Append(l, r)) = Replay(l)
         /\ TurnsIn(Append(l, r)) = TurnsIn(l) + (IF r.kind = "turn" THEN 1 ELSE 0)
         /\ Indices(Append(l, r), "context") = Indices(l, "context")
<1>1. r \in Record /\ r.kind \in {"meta", "turn", "closed"}
  BY DEF Record, Marks
<1>2. Apply(Replay(l), r) = Replay(l)
  BY <1>1 DEF Apply, Kinds
<1>3. SummariesFirst(Replay(l))
  <2>1. SubSeq(l, 1, Len(l)) = l /\ Len(l) \in 0..Len(l)
    BY SubSeqFull
  <2> QED
    BY <2>1 DEF PrefixShape
<1>4. /\ Append(l, r) = l \o <<r>> /\ <<r>> \in Seq(Record)
      /\ \A i \in DOMAIN <<r>> : <<r>>[i].kind # "context"
  BY <1>1, AppendIsConcat
<1>5. Indices(Append(l, r), "context") = Indices(l, "context")
  <2>1. Indices(l \o <<r>>, "context") = Indices(l, "context")
    BY <1>4, OtherKinds
  <2> QED
    BY <1>4, <2>1, Zenon
<1> QED
  BY <1>1, <1>2, <1>3, <1>5, GrownBy, ReplayAppend, TurnsAppend

(* Items are replayed as they were added to the history.                   *)
LEMMA ItemsAdded ==
  ASSUME NEW l \in Seq(Record), PrefixShape(l), NEW items \in Seq(NewItem)
  PROVE  /\ Grown(l, l \o items)
         /\ Replay(l \o items) = Replay(l) \o items
         /\ TurnsIn(l \o items) = TurnsIn(l)
         /\ (\A i \in DOMAIN items : items[i].kind # "context")
              => Indices(l \o items, "context") = Indices(l, "context")
<1>1. items \in Seq(Record) /\ TurnsIn(l \o items) = TurnsIn(l)
  BY TurnsItems
<1>2. Grown(l, l \o items)
  BY GrownByItems
<1>3. Replay(l \o items) = Replay(l) \o items
  BY ReplayItems
<1> QED
  BY <1>1, <1>2, <1>3, OtherKinds

(* What Persist does.                                                      *)
LEMMA Persisted ==
  ASSUME history \in Seq(Item), SummariesFirst(history),
         ledger \in Seq(Record), PrefixShape(ledger),
         NEW items \in Seq(NewItem), NEW marks \in {<<>>, <<"turn">>, <<"closed">>},
         Persist(items, marks)
  PROVE  /\ recorder = "up" /\ recorder' = recorder
         /\ history' = history \o items /\ history' \in Seq(Item) /\ SummariesFirst(history')
         /\ Grown(ledger, ledger')
         /\ Replay(ledger') = Replay(ledger) \o items
         /\ TurnsIn(ledger') = TurnsIn(ledger) + (IF marks = <<"turn">> THEN 1 ELSE 0)
         /\ (\A i \in DOMAIN items : items[i].kind # "context")
              => Indices(ledger', "context") = Indices(ledger, "context")
<1> DEFINE l == ledger \o items
<1>1. /\ recorder = "up" /\ recorder' = recorder /\ history' = history \o items
      /\ ledger' = l \o [i \in DOMAIN marks |-> [kind |-> marks[i]]]
  BY DEF Persist
<1>2. history' \in Seq(Item) /\ SummariesFirst(history')
  BY <1>1, FirstItems
<1>3. /\ Grown(ledger, l) /\ Replay(l) = Replay(ledger) \o items /\ TurnsIn(l) = TurnsIn(ledger)
      /\ (\A i \in DOMAIN items : items[i].kind # "context")
           => Indices(l, "context") = Indices(ledger, "context")
  BY ItemsAdded
<1>4. l \in Seq(Record) /\ PrefixShape(l) /\ TurnsIn(l) \in Nat
  <2>1. [kind |-> "turn"] \in Record
    BY DEF Record, Marks
  <2> HIDE DEF l
  <2> QED
    BY <1>3, <2>1, TurnsAppend DEF Grown
<1> HIDE DEF l
<1>5. CASE marks = <<>>
  <2>1. [i \in DOMAIN marks |-> [kind |-> marks[i]]] = <<>>
    BY <1>5
  <2>2. ledger' = l
    BY <1>1, <1>4, <2>1, ConcatEmptySeq
  <2> QED
    BY <1>1, <1>2, <1>3, <1>4, <1>5, <2>2
<1>6. ASSUME NEW k \in {"turn", "closed"}, marks = <<k>>
      PROVE  /\ Grown(ledger, ledger')
             /\ Replay(ledger') = Replay(l)
             /\ TurnsIn(ledger') = TurnsIn(l) + (IF marks = <<"turn">> THEN 1 ELSE 0)
             /\ Indices(ledger', "context") = Indices(l, "context")
  <2> DEFINE r == [kind |-> k]
  <2>1. [i \in DOMAIN marks |-> [kind |-> marks[i]]] = <<r>>
    BY <1>6
  <2>2. r \in Marks /\ r \in Record /\ r.kind = k
    BY DEF Marks, Record
  <2> HIDE DEF r
  <2>3. ledger' = Append(l, r)
    BY <1>1, <1>4, <2>1, <2>2, AppendIsConcat
  <2>4. marks = <<"turn">> <=> k = "turn"
    BY <1>6
  <2>5. /\ Grown(l, ledger') /\ Replay(ledger') = Replay(l)
        /\ TurnsIn(ledger') = TurnsIn(l) + (IF k = "turn" THEN 1 ELSE 0)
        /\ Indices(ledger', "context") = Indices(l, "context")
    BY <1>4, <2>2, <2>3, MarkAdded
  <2>6. Grown(ledger, ledger')
    BY <1>3, <2>5, GrownTwice
  <2> QED
    BY <2>4, <2>5, <2>6
<1>7. marks = <<>> \/ \E k \in {"turn", "closed"} : marks = <<k>>
  OBVIOUS
<1> QED
  BY <1>1, <1>2, <1>3, <1>5, <1>6, <1>7

-------------------------------------------------------------------------------
(* The inductive invariant.                                                *)

(* TypeOK, with what can be in the ledger.                                 *)
Typing ==
  /\ history \in Seq(Item)
  /\ ledger \in Seq(Record)
  /\ flushed \in 0..Len(ledger)
  /\ recorder \in {"up", "failed"}
  /\ turns \in Nat
  /\ reported \in Nat
  /\ pc \in {"idle", "sampling", "compacting", "tool", "flushing", "closing", "closed", "down",
           "lost"}
  /\ todo \in Nat
  /\ plan \in [from : Nat, to : Nat]
  /\ budget \in 0..ModelSignalBudget
  /\ nextId \in 0..MaxItems
  /\ restarts \in 0..MaxRestarts

Flags == metaWritten \in BOOLEAN /\ contextDone \in BOOLEAN

(* A tool runs for the call that ends the history; a process that is down  *)
(* has none.                                                               *)
InFlight ==
  /\ pc = "tool" => history # <<>> /\ Last(history).kind = "call"
  /\ pc \in Down => history = <<>> /\ recorder = "up" /\ restarts # 0

(* Summaries come first, in memory and on disk; a plan starts where they   *)
(* end.                                                                    *)
Shape ==
  /\ SummariesFirst(history)
  /\ PrefixShape(ledger)
  /\ pc = "compacting" => Planned(history, plan)

(* Every call is followed by its output, but for the one that is open.     *)
Paired(h, open) ==
  \A i \in Indices(h, "call") :
    \/ i < Len(h) /\ h[i + 1].kind = "output" /\ h[i + 1].id = h[i].id
    \/ open /\ i = Len(h)

AnswerInv == recorder = "up" /\ restarts = 0 => Paired(history, pc = "tool")

(* A turn that waits for its flush is in the ledger and not yet reported.  *)
ReportInv ==
  /\ reported <= TurnsIn(SubSeq(ledger, 1, flushed))
  /\ pc = "flushing" => reported < TurnsIn(ledger)

(* Only a session that has not had its context yet can add it.             *)
ContextInv ==
  /\ \A i, j \in Indices(ledger, "context") : i = j
  /\ ~contextDone /\ pc \notin Down => Indices(ledger, "context") = {}

(* The records kept beside the history always rebuild it.                  *)
Matches == Live => Replay(ledger) = history /\ TurnsIn(ledger) = turns

TurnInv ==
  /\ Typing /\ Flags /\ InFlight /\ Shape
  /\ Matches /\ AnswerInv /\ ReportInv /\ ContextInv

-------------------------------------------------------------------------------
(* The items that the steps of a turn create.                              *)

(* A part that may be left out.                                            *)
LEMMA Optional ==
  ASSUME NEW S, NEW c \in BOOLEAN, NEW kind \in S
  PROVE  /\ If(c, <<kind>>) \in Seq(S)
         /\ Len(If(c, <<kind>>)) = (IF c THEN 1 ELSE 0)
         /\ c => If(c, <<kind>>)[1] = kind
<1>1. CASE c
  <2>1. If(c, <<kind>>) = <<kind>>
    BY <1>1 DEF If
  <2>2. <<kind>> \in Seq(S) /\ Len(<<kind>>) = 1 /\ <<kind>>[1] = kind
    OBVIOUS
  <2> QED
    BY <1>1, <2>1, <2>2
<1>2. CASE ~c
  <2>1. If(c, <<kind>>) = <<>>
    BY <1>2 DEF If
  <2>2. <<>> \in Seq(S) /\ Len(<<>>) = 0
    OBVIOUS
  <2> QED
    BY <1>2, <2>1, <2>2
<1> QED
  BY <1>1, <1>2

(* One kind on its own.                                                    *)
LEMMA Single ==
  ASSUME NEW S, NEW kind \in S
  PROVE  <<kind>> \in Seq(S) /\ Len(<<kind>>) = 1 /\ <<kind>>[1] = kind
  OBVIOUS

(* The first items of a turn: the context at most once, and first.         *)
LEMMA StartKinds ==
  ASSUME NEW c \in BOOLEAN, NEW skill \in BOOLEAN,
         NEW kinds, kinds = If(c, <<"context">>) \o <<"user">> \o If(skill, <<"skill">>)
  PROVE  /\ kinds \in Seq(NewKinds)
         /\ \A i \in 1..Len(kinds) :
              kinds[i] # "call" /\ (kinds[i] = "context" => c /\ i = 1)
<1> DEFINE p == If(c, <<"context">>)
           u == <<"user">>
           q == If(skill, <<"skill">>)
           m == p \o u
<1>1. /\ "context" \in NewKinds /\ "user" \in NewKinds /\ "skill" \in NewKinds
      /\ "context" # "call" /\ "user" # "call" /\ "skill" # "call"
      /\ "context" # "user" /\ "context" # "skill"
  BY DEF NewKinds
<1>2. p \in Seq(NewKinds) /\ Len(p) = (IF c THEN 1 ELSE 0) /\ (c => p[1] = "context")
  BY <1>1, Optional
<1>3. u \in Seq(NewKinds) /\ Len(u) = 1 /\ u[1] = "user"
  BY <1>1, Single
<1>4. q \in Seq(NewKinds) /\ Len(q) = (IF skill THEN 1 ELSE 0) /\ (skill => q[1] = "skill")
  BY <1>1, Optional
<1>5. kinds = m \o q
  OBVIOUS
<1> HIDE DEF p, u, q
<1>6. /\ m \in Seq(NewKinds) /\ Len(m) = Len(p) + 1
      /\ \A i \in 1..Len(m) : m[i] # "call" /\ m[i] # "skill" /\ (m[i] = "context" => c /\ i = 1)
  <2>1. /\ m \in Seq(NewKinds) /\ Len(m) = Len(p) + Len(u)
        /\ \A i \in 1..Len(p) : m[i] = p[i]
        /\ \A i \in (Len(p) + 1)..Len(m) : m[i] = u[i - Len(p)] /\ i - Len(p) \in 1..Len(u)
    BY <1>2, <1>3, Joined
  <2> HIDE DEF m
  <2>2. \A i \in 1..Len(p) : i = 1 /\ c /\ p[i] = "context"
    BY <1>2
  <2>3. \A i \in 1..Len(u) : u[i] = "user"
    BY <1>3
  <2>4. \A i \in 1..Len(m) : i \in 1..Len(p) \/ i \in (Len(p) + 1)..Len(m)
    BY <1>2, <1>3, <2>1
  <2>5. "user" # "skill" /\ "context" # "skill"
    OBVIOUS
  <2> QED
    BY <1>1, <1>3, <2>1, <2>2, <2>3, <2>4, <2>5
<1> HIDE DEF m
<1>7. /\ kinds \in Seq(NewKinds) /\ Len(kinds) = Len(m) + Len(q)
      /\ \A i \in 1..Len(m) : kinds[i] = m[i]
      /\ \A i \in (Len(m) + 1)..Len(kinds) : kinds[i] = q[i - Len(m)] /\ i - Len(m) \in 1..Len(q)
  <2>1. m \in Seq(NewKinds) /\ q \in Seq(NewKinds)
    BY <1>4, <1>6
  <2>2. /\ m \o q \in Seq(NewKinds) /\ Len(m \o q) = Len(m) + Len(q)
        /\ \A i \in 1..Len(m) : (m \o q)[i] = m[i]
        /\ \A i \in (Len(m) + 1)..Len(m \o q) :
             (m \o q)[i] = q[i - Len(m)] /\ i - Len(m) \in 1..Len(q)
    BY <2>1, Joined
  <2> QED
    BY <2>2, <1>5, Zenon
<1>8. \A i \in 1..Len(q) : q[i] = "skill"
  BY <1>4
<1>9. \A i \in 1..Len(kinds) : i \in 1..Len(m) \/ i \in (Len(m) + 1)..Len(kinds)
  BY <1>4, <1>6, <1>7
<1> QED
  BY <1>1, <1>6, <1>7, <1>8, <1>9

(* A final answer: text or nothing.                                        *)
LEMMA FinalKinds ==
  ASSUME NEW text \in BOOLEAN, NEW kinds, kinds = If(text, <<"assistant">>)
  PROVE  /\ kinds \in Seq(NewKinds)
         /\ \A i \in 1..Len(kinds) : kinds[i] # "call" /\ kinds[i] # "context"
<1>1. "assistant" \in NewKinds /\ "assistant" # "call" /\ "assistant" # "context"
  BY DEF NewKinds
<1>2. /\ kinds \in Seq(NewKinds) /\ Len(kinds) = (IF text THEN 1 ELSE 0)
      /\ text => kinds[1] = "assistant"
  BY <1>1, Optional
<1> QED
  BY <1>1, <1>2

(* An answer that names skills, and perhaps their message.                 *)
LEMMA SignalKinds ==
  ASSUME NEW skill \in BOOLEAN, NEW kinds, kinds = <<"assistant">> \o If(skill, <<"skill">>)
  PROVE  /\ kinds \in Seq(NewKinds)
         /\ \A i \in 1..Len(kinds) : kinds[i] # "call" /\ kinds[i] # "context"
<1> DEFINE p == <<"assistant">>
           q == If(skill, <<"skill">>)
<1>1. /\ "assistant" \in NewKinds /\ "assistant" # "call" /\ "assistant" # "context"
      /\ "skill" \in NewKinds /\ "skill" # "call" /\ "skill" # "context"
  BY DEF NewKinds
<1>2. p \in Seq(NewKinds) /\ Len(p) = 1 /\ p[1] = "assistant"
  BY <1>1, Single
<1>3. q \in Seq(NewKinds) /\ Len(q) = (IF skill THEN 1 ELSE 0) /\ (skill => q[1] = "skill")
  BY <1>1, Optional
<1>4. kinds = p \o q
  OBVIOUS
<1> HIDE DEF p, q
<1>5. /\ kinds \in Seq(NewKinds) /\ Len(kinds) = Len(p) + Len(q)
      /\ \A i \in 1..Len(p) : kinds[i] = p[i]
      /\ \A i \in (Len(p) + 1)..Len(kinds) : kinds[i] = q[i - Len(p)] /\ i - Len(p) \in 1..Len(q)
  <2>1. p \in Seq(NewKinds) /\ q \in Seq(NewKinds)
    BY <1>2, <1>3
  <2>2. /\ p \o q \in Seq(NewKinds) /\ Len(p \o q) = Len(p) + Len(q)
        /\ \A i \in 1..Len(p) : (p \o q)[i] = p[i]
        /\ \A i \in (Len(p) + 1)..Len(p \o q) :
             (p \o q)[i] = q[i - Len(p)] /\ i - Len(p) \in 1..Len(q)
    BY <2>1, Joined
  <2> QED
    BY <2>2, <1>4, Zenon
<1>6. \A i \in 1..Len(kinds) : i \in 1..Len(p) \/ i \in (Len(p) + 1)..Len(kinds)
  BY <1>2, <1>3, <1>5
<1>7. /\ \A i \in 1..Len(p) : p[i] = "assistant"
      /\ \A i \in 1..Len(q) : q[i] = "skill"
  BY <1>2, <1>3
<1> QED
  BY <1>1, <1>5, <1>6, <1>7

(* An answer with tool calls: the first call comes last.                   *)
LEMMA CallKinds ==
  ASSUME NEW text \in BOOLEAN, NEW kinds, kinds = If(text, <<"assistant">>) \o <<"call">>
  PROVE  /\ kinds \in Seq(NewKinds) /\ Len(kinds) >= 1 /\ kinds[Len(kinds)] = "call"
         /\ \A i \in 1..Len(kinds) : (kinds[i] = "call" => i = Len(kinds)) /\ kinds[i] # "context"
<1> DEFINE p == If(text, <<"assistant">>)
           q == <<"call">>
<1>1. /\ "assistant" \in NewKinds /\ "assistant" # "call" /\ "assistant" # "context"
      /\ "call" \in NewKinds /\ "call" # "context"
  BY DEF NewKinds
<1>2. p \in Seq(NewKinds) /\ Len(p) = (IF text THEN 1 ELSE 0) /\ (text => p[1] = "assistant")
  BY <1>1, Optional
<1>3. q \in Seq(NewKinds) /\ Len(q) = 1 /\ q[1] = "call"
  BY <1>1, Single
<1>4. kinds = p \o q
  OBVIOUS
<1> HIDE DEF p, q
<1>5. /\ kinds \in Seq(NewKinds) /\ Len(kinds) = Len(p) + Len(q)
      /\ \A i \in 1..Len(p) : kinds[i] = p[i]
      /\ \A i \in (Len(p) + 1)..Len(kinds) : kinds[i] = q[i - Len(p)] /\ i - Len(p) \in 1..Len(q)
  <2>1. p \in Seq(NewKinds) /\ q \in Seq(NewKinds)
    BY <1>2, <1>3
  <2>2. /\ p \o q \in Seq(NewKinds) /\ Len(p \o q) = Len(p) + Len(q)
        /\ \A i \in 1..Len(p) : (p \o q)[i] = p[i]
        /\ \A i \in (Len(p) + 1)..Len(p \o q) :
             (p \o q)[i] = q[i - Len(p)] /\ i - Len(p) \in 1..Len(q)
    BY <2>1, Joined
  <2> QED
    BY <2>2, <1>4, Zenon
<1>6. \A i \in 1..Len(kinds) : i \in 1..Len(p) \/ i = Len(kinds)
  BY <1>2, <1>3, <1>5
<1>7. Len(kinds) = Len(p) + 1 /\ kinds[Len(kinds)] = "call"
  BY <1>2, <1>3, <1>5
<1>8. \A i \in 1..Len(p) : p[i] = "assistant"
  BY <1>2
<1> QED
  BY <1>1, <1>2, <1>5, <1>6, <1>7, <1>8

(* The output of the call in flight.                                       *)
LEMMA OutputMade ==
  ASSUME NEW h \in Seq(Item), h # <<>>
  PROVE  /\ OutputOf(h) \in Seq(NewItem) /\ Len(OutputOf(h)) = 1
         /\ OutputOf(h)[1].kind = "output" /\ OutputOf(h)[1].id = h[Len(h)].id
<1>1. h[Len(h)].id \in 0..MaxItems
  <2>1. h[Len(h)] \in Item
    OBVIOUS
  <2> QED
    BY <2>1 DEF Item
<1>2. OutputOf(h) = <<[kind |-> "output", id |-> h[Len(h)].id]>>
  BY DEF OutputOf, Last
<1>3. [kind |-> "output", id |-> h[Len(h)].id] \in NewItem
  BY <1>1 DEF NewItem, NewKinds
<1> QED
  BY <1>2, <1>3

(* The next call that is dispatched.                                       *)
LEMMA OneCall ==
  ASSUME nextId \in Nat, nextId + 1 <= MaxItems
  PROVE  /\ New(<<"call">>) \in Seq(NewItem) /\ Len(New(<<"call">>)) = 1
         /\ New(<<"call">>)[1].kind = "call"
<1> DEFINE kinds == <<"call">>
<1>1. "call" \in NewKinds
  BY DEF NewKinds
<1>2. kinds \in Seq(NewKinds) /\ Len(kinds) = 1 /\ kinds[1] = "call"
  BY <1>1, Single
<1> HIDE DEF kinds
<1>3. /\ New(kinds) \in Seq(NewItem) /\ Len(New(kinds)) = 1
      /\ New(kinds)[1] = [kind |-> kinds[1], id |-> nextId + 1]
  <2>1. nextId + Len(kinds) <= MaxItems
    BY <1>2
  <2>2. /\ New(kinds) \in Seq(NewItem) /\ Len(New(kinds)) = Len(kinds)
        /\ \A i \in 1..Len(kinds) : New(kinds)[i] = [kind |-> kinds[i], id |-> nextId + i]
    BY <1>2, <2>1, NewItems
  <2> QED
    BY <1>2, <2>2
<1> QED
  BY <1>2, <1>3 DEF kinds

-------------------------------------------------------------------------------
(* The steps, by what they do to the history and the ledger.               *)

(* Neither changes ...                                                     *)
Keeping ==
  /\ UNCHANGED <<history, ledger, turns, nextId, flags>>
  /\ recorder' = "up" => recorder = "up"
  /\ pc \in Down => recorder' = recorder
  /\ pc' \in {"flushing", "down", "lost", "tool"} => pc' = pc
  /\ pc' = "compacting" => pc = "compacting" /\ plan' = plan
  /\ pc \in {"closed", "down", "lost"} => pc' = pc
  /\ recorder' = "up" /\ pc = "tool" => pc' = "tool"
  /\ plan' \in {plan, NoPlan}
  /\ \/ UNCHANGED <<flushed, reported>>
     \/ flushed' = Len(ledger) /\ reported' = reported /\ pc' # "flushing"
     \/ pc = "flushing" /\ flushed' = Len(ledger) /\ reported' = reported + 1 /\ pc' # "flushing"

(* ... or items and marks are added to both.                               *)
Says(items, marks) ==
  /\ Persist(items, marks)
  /\ \A i \in DOMAIN items : items[i].kind # "context"
  /\ turns' = turns + (IF marks = <<"turn">> THEN 1 ELSE 0)
  /\ pc' = "flushing" => marks = <<"turn">>
  /\ pc \notin {"closed", "down", "lost"} /\ pc' \notin {"closed", "down", "lost"}
  /\ pc' = "compacting" => Planned(history', plan')
  /\ pc' = "tool" => items # <<>> /\ items[Len(items)].kind = "call"
  /\ Paired(history, pc = "tool") => Paired(history', pc' = "tool")
  /\ nextId' \in 0..MaxItems
  /\ plan' \in [from : Nat, to : Nat]
  /\ UNCHANGED <<flushed, reported, flags>>

Saying ==
  \E items \in Seq(NewItem), marks \in {<<>>, <<"turn">>, <<"closed">>} : Says(items, marks)

(* Items without a call leave no call open.                                *)
LEMMA PairedPlain ==
  ASSUME NEW h \in Seq(Item), Paired(h, FALSE), NEW items \in Seq(NewItem), NEW open \in BOOLEAN,
         \A i \in 1..Len(items) : items[i].kind = "call" => open /\ i = Len(items)
  PROVE  Paired(h \o items, open)
<1> DEFINE m == h \o items
<1>1. /\ m \in Seq(Item) /\ Len(m) = Len(h) + Len(items) /\ DOMAIN m = 1..Len(m)
      /\ \A i \in 1..Len(h) : m[i] = h[i]
      /\ \A i \in (Len(h) + 1)..Len(m) : m[i] = items[i - Len(h)] /\ i - Len(h) \in 1..Len(items)
  <2>1. items \in Seq(Item)
    <3>1. NewItem \subseteq Item
      BY NewIsItem
    <3> QED
      BY <3>1, SeqMonotonic
  <2> QED
    BY <2>1
<1> HIDE DEF m
<1>2. SUFFICES ASSUME NEW i \in 1..Len(m), m[i].kind = "call"
               PROVE  \/ i < Len(m) /\ m[i + 1].kind = "output" /\ m[i + 1].id = m[i].id
                      \/ open /\ i = Len(m)
  BY <1>1 DEF Paired, Indices, m
<1>3. CASE i \in 1..Len(h)
  <2>1. i < Len(h) /\ h[i + 1].kind = "output" /\ h[i + 1].id = h[i].id
    BY <1>1, <1>2, <1>3 DEF Paired, Indices
  <2> QED
    BY <1>1, <1>2, <1>3, <2>1
<1>4. CASE i \in (Len(h) + 1)..Len(m)
  <2> DEFINE k == i - Len(h)
  <2>1. k \in 1..Len(items) /\ items[k].kind = "call"
    BY <1>1, <1>2, <1>4
  <2>2. open /\ k = Len(items)
    BY <2>1
  <2> QED
    BY <1>1, <2>1, <2>2
<1> QED
  BY <1>1, <1>2, <1>3, <1>4

(* The output of the call in flight closes it.                             *)
LEMMA PairedOutput ==
  ASSUME NEW h \in Seq(Item), Paired(h, TRUE), h # <<>>
  PROVE  Paired(h \o OutputOf(h), FALSE) /\ h \o OutputOf(h) \in Seq(Item)
<1> DEFINE m == h \o OutputOf(h)
<1>1. /\ m \in Seq(Item) /\ Len(m) = Len(h) + 1 /\ DOMAIN m = 1..Len(m)
      /\ \A i \in 1..Len(h) : m[i] = h[i]
      /\ m[Len(h) + 1].kind = "output" /\ m[Len(h) + 1].id = h[Len(h)].id
  <2> DEFINE o == OutputOf(h)
  <2>1. o \in Seq(Item) /\ Len(o) = 1 /\ o[1].kind = "output" /\ o[1].id = h[Len(h)].id
    <3>1. NewItem \subseteq Item
      BY NewIsItem
    <3> QED
      BY <3>1, OutputMade, SeqMonotonic
  <2> HIDE DEF o
  <2>2. /\ h \o o \in Seq(Item) /\ Len(h \o o) = Len(h) + 1
        /\ \A i \in 1..Len(h) : (h \o o)[i] = h[i]
        /\ (h \o o)[Len(h) + 1] = o[1]
    <3>1. /\ h \o o \in Seq(Item) /\ Len(h \o o) = Len(h) + Len(o)
          /\ \A i \in 1..Len(h) : (h \o o)[i] = h[i]
          /\ \A i \in (Len(h) + 1)..Len(h \o o) :
               (h \o o)[i] = o[i - Len(h)] /\ i - Len(h) \in 1..Len(o)
      BY <2>1, Joined
    <3>2. Len(h) + 1 \in (Len(h) + 1)..Len(h \o o) /\ Len(h) + 1 - Len(h) = 1
      BY <2>1, <3>1
    <3> QED
      BY <2>1, <3>1, <3>2
  <2> QED
    BY <2>1, <2>2 DEF o
<1> HIDE DEF m
<1>2. SUFFICES ASSUME NEW i \in 1..Len(m), m[i].kind = "call"
               PROVE  i < Len(m) /\ m[i + 1].kind = "output" /\ m[i + 1].id = m[i].id
  BY <1>1 DEF Paired, Indices, m
<1>3. i \in 1..Len(h) /\ h[i].kind = "call"
  BY <1>1, <1>2
<1>4. \/ i < Len(h) /\ h[i + 1].kind = "output" /\ h[i + 1].id = h[i].id
      \/ i = Len(h)
  BY <1>3 DEF Paired, Indices
<1> QED
  BY <1>1, <1>3, <1>4

(* What an answer of the model adds.                                       *)
LEMMA Answer ==
  ASSUME Typing, SummariesFirst(history), PrefixShape(ledger),
         NEW kinds \in Seq(NewKinds), Fresh(Len(kinds)), NEW open \in BOOLEAN,
         \A i \in 1..Len(kinds) :
           (kinds[i] = "call" => open /\ i = Len(kinds)) /\ kinds[i] # "context",
         NEW marks \in {<<>>, <<"turn">>, <<"closed">>}, Persist(New(kinds), marks)
  PROVE  /\ New(kinds) \in Seq(NewItem) /\ Len(New(kinds)) = Len(kinds)
         /\ \A i \in 1..Len(kinds) : New(kinds)[i].kind = kinds[i]
         /\ \A i \in DOMAIN New(kinds) : New(kinds)[i].kind # "context"
         /\ history' \in Seq(Item) /\ SummariesFirst(history')
         /\ nextId' \in 0..MaxItems
         /\ Paired(history, FALSE) => Paired(history', open)
<1> DEFINE items == New(kinds)
<1>1. nextId \in 0..MaxItems /\ history \in Seq(Item) /\ ledger \in Seq(Record)
  BY DEF Typing
<1>2. MaxItems \in Nat /\ nextId \in Nat /\ nextId + Len(kinds) <= MaxItems
      /\ nextId' = nextId + Len(kinds)
  BY <1>1, TurnAssumption DEF Fresh
<1>3. /\ items \in Seq(NewItem) /\ Len(items) = Len(kinds)
      /\ \A i \in 1..Len(kinds) : items[i] = [kind |-> kinds[i], id |-> nextId + i]
  BY <1>2, NewItems
<1> HIDE DEF items
<1>4. ASSUME NEW i \in 1..Len(kinds) PROVE items[i].kind = kinds[i]
  <2>1. items[i] = [kind |-> kinds[i], id |-> nextId + i]
    BY <1>3
  <2>2. [kind |-> kinds[i], id |-> nextId + i].kind = kinds[i]
    OBVIOUS
  <2> QED
    BY <2>1, <2>2, Zenon
<1>5. /\ history' = history \o items /\ history' \in Seq(Item) /\ SummariesFirst(history')
  BY <1>1, <1>3, Persisted DEF items
<1>6. Paired(history, FALSE) => Paired(history \o items, open)
  <2>1. \A i \in 1..Len(items) : items[i].kind = "call" => open /\ i = Len(items)
    BY <1>3, <1>4
  <2> QED
    BY <1>1, <1>3, <2>1, PairedPlain
<1>7. DOMAIN items = 1..Len(kinds)
  BY <1>3
<1>8. nextId' \in 0..MaxItems
  BY <1>2
<1> QED
  BY <1>3, <1>4, <1>5, <1>6, <1>7, <1>8 DEF items

(* No marks, turn.completed, session.closed.                               *)
LEMMA MarkLists ==
  /\ <<>> \in {<<>>, <<"turn">>, <<"closed">>}
  /\ <<"turn">> \in {<<>>, <<"turn">>, <<"closed">>}
  /\ <<"closed">> \in {<<>>, <<"turn">>, <<"closed">>}
  /\ <<>> # <<"turn">> /\ <<"closed">> # <<"turn">>
<1>1. <<"turn">>[1] = "turn" /\ <<"closed">>[1] = "closed" /\ Len(<<"turn">>) = 1
  OBVIOUS
<1>2. Len(<<>>) = 0
  OBVIOUS
<1>3. <<>> # <<"turn">>
  BY <1>1, <1>2
<1>4. <<"closed">> # <<"turn">>
  BY <1>1
<1> QED
  BY <1>3, <1>4

(* What the model's answer does.                                           *)
LEMMA FinalSays ==
  ASSUME Typing, SummariesFirst(history), PrefixShape(ledger),
         NEW text \in BOOLEAN, SampleFinal(text)
  PROVE  Saying
<1> DEFINE kinds == If(text, <<"assistant">>)
           items == New(kinds)
<1>1. /\ kinds \in Seq(NewKinds)
      /\ \A i \in 1..Len(kinds) : kinds[i] # "call" /\ kinds[i] # "context"
  BY FinalKinds
<1>2. /\ pc = "sampling" /\ Fresh(Len(kinds)) /\ Persist(items, <<"turn">>) /\ turns' = turns + 1
      /\ pc' = "flushing" /\ plan' = plan /\ UNCHANGED <<flushed, reported, flags>>
  BY DEF SampleFinal, EndTurn, turn, flags
<1> HIDE DEF kinds
<1>3. /\ items \in Seq(NewItem) /\ \A i \in DOMAIN items : items[i].kind # "context"
      /\ nextId' \in 0..MaxItems /\ (Paired(history, FALSE) => Paired(history', FALSE))
  BY <1>1, <1>2, Answer, MarkLists
<1> HIDE DEF items
<1>4. plan' \in [from : Nat, to : Nat]
  BY <1>2 DEF Typing
<1>5. (pc = "tool") = FALSE /\ (pc' = "tool") = FALSE
  BY <1>2
<1>6. Says(items, <<"turn">>)
  BY <1>2, <1>3, <1>4, <1>5 DEF Says
<1> QED
  BY <1>3, <1>6, MarkLists DEF Saying

(* An answer that names skills says its items and goes round again.        *)
LEMMA SignalsSay ==
  ASSUME Typing, SummariesFirst(history), PrefixShape(ledger),
         NEW skill \in BOOLEAN, SampleSignals(skill)
  PROVE  Saying
<1> DEFINE kinds == <<"assistant">> \o If(skill, <<"skill">>)
           items == New(kinds)
<1>1. /\ kinds \in Seq(NewKinds)
      /\ \A i \in 1..Len(kinds) : kinds[i] # "call" /\ kinds[i] # "context"
  BY SignalKinds
<1>2. /\ pc = "sampling" /\ Fresh(Len(kinds)) /\ Persist(items, <<>>) /\ turns' = turns
      /\ LoopTop(history') /\ UNCHANGED <<flushed, reported, flags>>
  BY DEF SampleSignals, flags
<1> HIDE DEF kinds
<1>3. /\ items \in Seq(NewItem) /\ \A i \in DOMAIN items : items[i].kind # "context"
      /\ nextId' \in 0..MaxItems /\ (Paired(history, FALSE) => Paired(history', FALSE))
      /\ history' \in Seq(Item) /\ SummariesFirst(history')
  BY <1>1, <1>2, Answer, MarkLists
<1> HIDE DEF items
<1>4. /\ plan' \in [from : Nat, to : Nat] /\ pc' \in {"sampling", "compacting"}
      /\ pc' = "compacting" => Planned(history', plan')
  BY <1>2, <1>3, LoopTopPlans
<1>5. (pc = "tool") = FALSE /\ (pc' = "tool") = FALSE
  BY <1>2, <1>4
<1>6. turns \in Nat /\ turns' = turns + (IF <<>> = <<"turn">> THEN 1 ELSE 0)
  BY <1>2, MarkLists DEF Typing
<1>7. Says(items, <<>>)
  BY <1>2, <1>3, <1>4, <1>5, <1>6 DEF Says
<1> QED
  BY <1>3, <1>7, MarkLists DEF Saying

(* An answer with tool calls leaves the first of them open.                *)
LEMMA ToolsSay ==
  ASSUME Typing, SummariesFirst(history), PrefixShape(ledger),
         NEW text \in BOOLEAN, NEW more \in 0..1, SampleTools(text, more)
  PROVE  Saying
<1> DEFINE kinds == If(text, <<"assistant">>) \o <<"call">>
           items == New(kinds)
<1>1. /\ kinds \in Seq(NewKinds) /\ Len(kinds) >= 1 /\ kinds[Len(kinds)] = "call"
      /\ \A i \in 1..Len(kinds) : (kinds[i] = "call" => i = Len(kinds)) /\ kinds[i] # "context"
  BY CallKinds
<1>2. /\ pc = "sampling" /\ Fresh(Len(kinds)) /\ Persist(items, <<>>) /\ turns' = turns
      /\ pc' = "tool" /\ plan' = plan /\ UNCHANGED <<flushed, reported, flags>>
  BY DEF SampleTools, flags
<1> HIDE DEF kinds
<1>3. /\ items \in Seq(NewItem) /\ \A i \in DOMAIN items : items[i].kind # "context"
      /\ nextId' \in 0..MaxItems /\ (Paired(history, FALSE) => Paired(history', TRUE))
      /\ Len(items) = Len(kinds) /\ \A i \in 1..Len(kinds) : items[i].kind = kinds[i]
  BY <1>1, <1>2, Answer, MarkLists
<1> HIDE DEF items
<1>4. items # <<>> /\ items[Len(items)].kind = "call"
  <2>1. Len(kinds) \in 1..Len(kinds) /\ Len(items) \in Nat
    BY <1>1, <1>3
  <2> QED
    BY <1>1, <1>3, <2>1
<1>5. (pc = "tool") = FALSE /\ (pc' = "tool") = TRUE
  BY <1>2
<1>6. turns' = turns + (IF <<>> = <<"turn">> THEN 1 ELSE 0) /\ plan' \in [from : Nat, to : Nat]
  BY <1>2, MarkLists DEF Typing
<1>7. Says(items, <<>>)
  BY <1>2, <1>3, <1>4, <1>5, <1>6 DEF Says
<1> QED
  BY <1>3, <1>7, MarkLists DEF Saying

(* A step of a tool: its output, and the next call if there is one.        *)
LEMMA ToolOutput ==
  ASSUME Typing, InFlight, SummariesFirst(history), pc = "tool"
  PROVE  /\ history \in Seq(Item) /\ history # <<>>
         /\ OutputOf(history) \in Seq(NewItem) /\ Len(OutputOf(history)) = 1
         /\ OutputOf(history)[1].kind = "output"
         /\ history \o OutputOf(history) \in Seq(Item)
         /\ Paired(history, TRUE) => Paired(history \o OutputOf(history), FALSE)
<1>1. history \in Seq(Item) /\ history # <<>>
  BY DEF Typing, InFlight
<1>2. /\ OutputOf(history) \in Seq(NewItem) /\ Len(OutputOf(history)) = 1
      /\ OutputOf(history)[1].kind = "output"
  BY <1>1, OutputMade
<1>3. OutputOf(history) \in Seq(Item)
  <2>1. NewItem \subseteq Item
    BY NewIsItem
  <2> QED
    BY <1>2, <2>1, SeqMonotonic
<1>4. history \o OutputOf(history) \in Seq(Item)
  BY <1>1, <1>3, Joined
<1> QED
  BY <1>1, <1>2, <1>4, PairedOutput

(* The output alone.                                                       *)
LEMMA OutputSays ==
  ASSUME Typing, InFlight, SummariesFirst(history), PrefixShape(ledger), pc = "tool",
         NEW marks \in {<<>>, <<"turn">>, <<"closed">>}, Persist(OutputOf(history), marks)
  PROVE  /\ OutputOf(history) \in Seq(NewItem)
         /\ \A i \in DOMAIN OutputOf(history) : OutputOf(history)[i].kind # "context"
         /\ history' \in Seq(Item) /\ SummariesFirst(history')
         /\ Paired(history, TRUE) => Paired(history', FALSE)
<1> DEFINE items == OutputOf(history)
<1>1. /\ history \in Seq(Item) /\ items \in Seq(NewItem) /\ Len(items) = 1
      /\ items[1].kind = "output" /\ (Paired(history, TRUE) => Paired(history \o items, FALSE))
  BY ToolOutput
<1>2. history' = history \o items
  BY DEF Persist
<1> HIDE DEF items
<1>3. \A i \in DOMAIN items : items[i].kind # "context"
  <2>1. \A i \in DOMAIN items : i = 1
    BY <1>1
  <2> QED
    BY <1>1, <2>1
<1>4. history' \in Seq(Item) /\ SummariesFirst(history')
  BY <1>1, <1>2, FirstItems
<1> QED
  BY <1>1, <1>2, <1>3, <1>4 DEF items

(* A tool that returns: its output closes the call, the next one opens.    *)
LEMMA ReturnSays ==
  ASSUME Typing, InFlight, SummariesFirst(history), PrefixShape(ledger), ToolReturns
  PROVE  Saying
<1>1. /\ pc = "tool" /\ UNCHANGED <<flushed, reported, flags>> /\ turns' = turns
      /\ turns' = turns + (IF <<>> = <<"turn">> THEN 1 ELSE 0)
  BY MarkLists DEF ToolReturns, flags, Typing
<1>2. CASE todo > 0 /\ Fresh(1) /\ Persist(OutputOf(history) \o New(<<"call">>), <<>>)
           /\ UNCHANGED <<pc, plan>>
  <2> DEFINE o == OutputOf(history)
             c == New(<<"call">>)
             items == o \o c
             m == history \o o
  <2>1. /\ history \in Seq(Item) /\ o \in Seq(NewItem) /\ Len(o) = 1 /\ o[1].kind = "output"
        /\ m \in Seq(Item) /\ (Paired(history, TRUE) => Paired(m, FALSE))
    BY <1>1, ToolOutput
  <2>2. /\ nextId \in 0..MaxItems /\ nextId + 1 <= MaxItems /\ nextId' = nextId + 1
        /\ MaxItems \in Nat
    BY <1>2, TurnAssumption DEF Typing, Fresh
  <2>3. c \in Seq(NewItem) /\ Len(c) = 1 /\ c[1].kind = "call"
    BY <2>2, OneCall
  <2> HIDE DEF o, c
  <2>4. /\ items \in Seq(NewItem) /\ Len(items) = Len(o) + Len(c)
        /\ \A i \in 1..Len(o) : items[i] = o[i]
        /\ \A i \in (Len(o) + 1)..Len(items) : items[i] = c[i - Len(o)] /\ i - Len(o) \in 1..Len(c)
    BY <2>1, <2>3, Joined
  <2>5. history' = history \o items
    BY <1>2 DEF Persist, o, c
  <2>6. history' = m \o c
    <3>1. NewItem \subseteq Item
      BY NewIsItem
    <3>2. o \in Seq(Item) /\ c \in Seq(Item)
      BY <2>1, <2>3, <3>1, SeqMonotonic
    <3> QED
      BY <2>1, <2>5, <3>2, ConcatAssociative
  <2>7. Paired(history, TRUE) => Paired(history', TRUE)
    <3>1. \A i \in 1..Len(c) : c[i].kind = "call" => i = Len(c)
      BY <2>3
    <3> HIDE DEF m
    <3> QED
      BY <2>1, <2>3, <2>6, <3>1, PairedPlain
  <2> HIDE DEF items, m
  <2>8. /\ \A i \in DOMAIN items : items[i].kind # "context"
        /\ items # <<>> /\ items[Len(items)].kind = "call"
    <3>1. items \in Seq(NewItem) /\ Len(items) = 2 /\ items[1] = o[1] /\ items[2] = c[1]
      BY <2>1, <2>3, <2>4
    <3>2. DOMAIN items = 1..2
      BY <3>1
    <3>3. \A i \in 1..2 : i = 1 \/ i = 2
      OBVIOUS
    <3>4. items[1].kind = "output" /\ items[2].kind = "call" /\ items # <<>>
      <4>1. items # <<>>
        <5>1. Len(<<>>) = 0 /\ 0 # 2
          OBVIOUS
        <5> QED
          BY <3>1, <5>1, Zenon
      <4> QED
        BY <2>1, <2>3, <3>1, <4>1, Zenon
    <3>5. \A i \in DOMAIN items : items[i].kind \in {"output", "call"}
      BY <3>2, <3>3, <3>4, Zenon
    <3> QED
      BY <3>1, <3>4, <3>5
  <2>9. nextId' \in 0..MaxItems /\ plan' \in [from : Nat, to : Nat] /\ pc' = "tool"
    BY <1>1, <1>2, <2>2 DEF Typing
  <2>10. (pc = "tool") = TRUE /\ (pc' = "tool") = TRUE
    BY <1>1, <2>9
  <2>11. Persist(items, <<>>)
    BY <1>2 DEF items, o, c
  <2>12. Says(items, <<>>)
    BY <1>1, <2>7, <2>8, <2>9, <2>10, <2>11 DEF Says
  <2> QED
    BY <2>4, <2>12, MarkLists DEF Saying
<1>3. CASE todo = 0 /\ Persist(OutputOf(history), <<>>) /\ LoopTop(history') /\ nextId' = nextId
  <2> DEFINE items == OutputOf(history)
  <2>1. /\ items \in Seq(NewItem) /\ \A i \in DOMAIN items : items[i].kind # "context"
        /\ history' \in Seq(Item) /\ SummariesFirst(history')
        /\ (Paired(history, TRUE) => Paired(history', FALSE))
    BY <1>1, <1>3, OutputSays, MarkLists
  <2>2. /\ plan' \in [from : Nat, to : Nat] /\ pc' \in {"sampling", "compacting"}
        /\ pc' = "compacting" => Planned(history', plan')
    BY <1>3, <2>1, LoopTopPlans
  <2>3. (pc = "tool") = TRUE /\ (pc' = "tool") = FALSE
    BY <1>1, <2>2
  <2>4. nextId' \in 0..MaxItems
    BY <1>3 DEF Typing
  <2>5. Persist(items, <<>>)
    BY <1>3
  <2> HIDE DEF items
  <2>6. Says(items, <<>>)
    BY <1>1, <2>1, <2>2, <2>3, <2>4, <2>5 DEF Says
  <2> QED
    BY <2>1, <2>6, MarkLists DEF Saying
<1> QED
  BY <1>2, <1>3 DEF ToolReturns

(* A tool that aborts: its synthetic output closes the call and the turn.  *)
LEMMA AbortSays ==
  ASSUME Typing, InFlight, SummariesFirst(history), PrefixShape(ledger), ToolAborts
  PROVE  Saying
<1> DEFINE items == OutputOf(history)
<1>1. /\ pc = "tool" /\ Persist(items, <<"turn">>) /\ turns' = turns + 1 /\ pc' = "flushing"
      /\ plan' = plan /\ nextId' = nextId /\ UNCHANGED <<flushed, reported, flags>>
  BY DEF ToolAborts, EndTurn, flags
<1>2. /\ items \in Seq(NewItem) /\ \A i \in DOMAIN items : items[i].kind # "context"
      /\ (Paired(history, TRUE) => Paired(history', FALSE))
  BY <1>1, OutputSays, MarkLists
<1> HIDE DEF items
<1>3. plan' \in [from : Nat, to : Nat] /\ nextId' \in 0..MaxItems
  BY <1>1 DEF Typing
<1>4. (pc = "tool") = TRUE /\ (pc' = "tool") = FALSE
  BY <1>1
<1>5. Says(items, <<"turn">>)
  BY <1>1, <1>2, <1>3, <1>4 DEF Says
<1> QED
  BY <1>2, <1>5, MarkLists DEF Saying

(* An interrupt closes the call in flight or changes nothing.              *)
LEMMA InterruptSays ==
  ASSUME Typing, InFlight, SummariesFirst(history), PrefixShape(ledger), Interrupt
  PROVE  Saying \/ Keeping
<1>1. /\ pc' = "idle" /\ plan' = NoPlan /\ nextId' = nextId /\ turns' = turns
      /\ UNCHANGED <<flushed, reported, flags>>
  BY DEF Interrupt, flags
<1>2. CASE pc \in {"sampling", "compacting", "flushing"} /\ UNCHANGED <<history, ledger, recorder>>
  BY <1>1, <1>2 DEF Keeping
<1>3. CASE pc = "tool" /\ Persist(OutputOf(history), <<>>)
  <2> DEFINE items == OutputOf(history)
  <2>1. /\ items \in Seq(NewItem) /\ \A i \in DOMAIN items : items[i].kind # "context"
        /\ (Paired(history, TRUE) => Paired(history', FALSE))
    BY <1>3, OutputSays, MarkLists
  <2>2. Persist(items, <<>>)
    BY <1>3
  <2> HIDE DEF items
  <2>3. plan' \in [from : Nat, to : Nat] /\ nextId' \in 0..MaxItems
    BY <1>1 DEF Typing, NoPlan
  <2>4. (pc = "tool") = TRUE /\ (pc' = "tool") = FALSE
    BY <1>1, <1>3
  <2>5. turns' = turns + (IF <<>> = <<"turn">> THEN 1 ELSE 0)
    BY <1>1, MarkLists DEF Typing
  <2>6. Says(items, <<>>)
    BY <1>1, <1>3, <2>1, <2>2, <2>3, <2>4, <2>5 DEF Says
  <2> QED
    BY <2>1, <2>6, MarkLists DEF Saying
<1> QED
  BY <1>2, <1>3 DEF Interrupt

(* close_rollout adds its mark and no item.                                *)
LEMMA CloseSays ==
  ASSUME Typing, SummariesFirst(history), PrefixShape(ledger), Close
  PROVE  Saying
<1> DEFINE items == <<>>
<1>1. /\ pc = "idle" /\ Persist(items, <<"closed">>) /\ turns' = turns /\ pc' = "closing"
      /\ plan' = plan /\ nextId' = nextId /\ UNCHANGED <<flushed, reported, flags>>
  BY DEF Close, turn, flags
<1>2. items \in Seq(NewItem) /\ \A i \in DOMAIN items : items[i].kind # "context"
  OBVIOUS
<1>3. history' = history
  <2>1. history \in Seq(Item) /\ history' = history \o items
    BY <1>1 DEF Persist, Typing
  <2> QED
    BY <2>1, ConcatEmptySeq
<1> HIDE DEF items
<1>4. plan' \in [from : Nat, to : Nat] /\ nextId' \in 0..MaxItems
  BY <1>1 DEF Typing
<1>5. (pc = "tool") = FALSE /\ (pc' = "tool") = FALSE
  BY <1>1
<1>6. turns' = turns + (IF <<"closed">> = <<"turn">> THEN 1 ELSE 0)
  BY <1>1, MarkLists DEF Typing
<1>7. Paired(history, pc = "tool") => Paired(history', pc' = "tool")
  BY <1>3, <1>5, Zenon
<1>8. Says(items, <<"closed">>)
  BY <1>1, <1>2, <1>4, <1>6, <1>7 DEF Says
<1> QED
  BY <1>2, <1>8, MarkLists DEF Saying

-------------------------------------------------------------------------------
(* Every step keeps history and ledger, says something, or is one of five. *)
LEMMA StepKinds ==
  ASSUME Typing, InFlight, SummariesFirst(history), PrefixShape(ledger), [Next]_vars
  PROVE  \/ Keeping \/ Saying \/ \E skill \in BOOLEAN : StartTurn(skill)
         \/ CompactionDone \/ PersistRaises \/ Restart \/ Resume
<1>1. ASSUME SampleFails PROVE Keeping
  BY <1>1 DEF SampleFails, Keeping, flags
<1>2. ASSUME FlushDone PROVE Keeping
  BY <1>2 DEF FlushDone, Keeping, flags, turn
<1>3. ASSUME CloseDone PROVE Keeping
  BY <1>3 DEF CloseDone, Keeping, flags, turn
<1>4. ASSUME RecorderFails PROVE Keeping
  BY <1>4 DEF RecorderFails, Keeping, flags, turn, Down
<1>5. ASSUME UNCHANGED vars PROVE Keeping
  BY <1>5 DEF vars, Keeping, flags
<1>6. ASSUME Sample PROVE Saying \/ Keeping
  BY <1>1, <1>6, FinalSays, SignalsSay, ToolsSay DEF Sample
<1>7. ASSUME ToolReturns \/ ToolAborts \/ Close PROVE Saying
  BY <1>7, ReturnSays, AbortSays, CloseSays
<1>8. ASSUME Interrupt PROVE Saying \/ Keeping
  BY <1>8, InterruptSays
<1> QED
  BY <1>2, <1>3, <1>4, <1>5, <1>6, <1>7, <1>8 DEF Next, Quiet, ReplayRaises

-------------------------------------------------------------------------------
(* The invariant, kind of step by kind of step.                            *)

(* What is left of it once the control state is typed.                     *)
Held ==
  /\ history \in Seq(Item)
  /\ ledger \in Seq(Record)
  /\ flushed \in 0..Len(ledger)
  /\ turns \in Nat
  /\ reported \in Nat
  /\ plan \in [from : Nat, to : Nat]
  /\ nextId \in 0..MaxItems
  /\ InFlight /\ Shape /\ Matches /\ AnswerInv /\ ReportInv /\ ContextInv

(* The control state of every step.                                        *)
LEMMA ControlStep ==
  ASSUME Typing, Flags, [Next]_vars
  PROVE  /\ recorder' \in {"up", "failed"}
         /\ pc' \in {"idle", "sampling", "compacting", "tool", "flushing", "closing", "closed",
                      "down", "lost"}
         /\ todo' \in Nat
         /\ budget' \in 0..ModelSignalBudget
         /\ restarts' \in 0..MaxRestarts /\ restarts' >= restarts
         /\ Flags'
<1> DEFINE Control ==
             /\ recorder' \in {"up", "failed"}
             /\ pc' \in {"idle", "sampling", "compacting", "tool", "flushing", "closing", "closed",
                      "down", "lost"}
             /\ todo' \in Nat
             /\ budget' \in 0..ModelSignalBudget
             /\ restarts' \in 0..MaxRestarts /\ restarts' >= restarts
<1>1. /\ MaxRestarts \in Nat /\ ModelSignalBudget \in Nat
  BY TurnAssumption
<1>2. ASSUME NEW skill \in BOOLEAN, StartTurn(skill) PROVE Control
  BY <1>1, <1>2 DEF StartTurn, LoopTop, Typing
<1>3. ASSUME CompactionDone PROVE Control
  BY <1>1, <1>3 DEF CompactionDone, Typing
<1>4. ASSUME NEW text \in BOOLEAN, SampleFinal(text) PROVE Control
  BY <1>1, <1>4 DEF SampleFinal, EndTurn, Persist, turn, Typing
<1>5. ASSUME NEW skill \in BOOLEAN, SampleSignals(skill) PROVE Control
  BY <1>1, <1>5 DEF SampleSignals, Persist, LoopTop, Typing
<1>6. ASSUME NEW text \in BOOLEAN, NEW more \in 0..1, SampleTools(text, more) PROVE Control
  BY <1>1, <1>6 DEF SampleTools, Persist, Typing
<1>7. ASSUME SampleFails PROVE Control
  BY <1>1, <1>7 DEF SampleFails, Typing
<1>8. ASSUME ToolReturns PROVE Control
  BY <1>1, <1>8 DEF ToolReturns, Persist, LoopTop, Typing
<1>9. ASSUME ToolAborts PROVE Control
  BY <1>1, <1>9 DEF ToolAborts, EndTurn, Persist, Typing
<1>10. ASSUME FlushDone PROVE Control
  BY <1>1, <1>10 DEF FlushDone, turn, Typing
<1>11. ASSUME Interrupt PROVE Control
  BY <1>1, <1>11 DEF Interrupt, Persist, Typing
<1>12. ASSUME Close PROVE Control
  BY <1>1, <1>12 DEF Close, Persist, turn, Typing
<1>13. ASSUME CloseDone PROVE Control
  BY <1>1, <1>13 DEF CloseDone, turn, Typing
<1>14. ASSUME RecorderFails PROVE Control
  BY <1>1, <1>14 DEF RecorderFails, turn, Typing
<1>15. ASSUME PersistRaises PROVE Control
  BY <1>1, <1>15 DEF PersistRaises, Typing
<1>16. ASSUME Restart PROVE Control
  BY <1>1, <1>16 DEF Restart, Typing, AfterCrash, Down
<1>17. ASSUME Resume PROVE Control
  BY <1>1, <1>17 DEF Resume, turn, Typing
<1>18. ASSUME UNCHANGED vars PROVE Control
  BY <1>1, <1>18 DEF vars, Typing
<1>19. Control
  BY <1>2, <1>3, <1>4, <1>5, <1>6, <1>7, <1>8, <1>9, <1>10, <1>11, <1>12, <1>13, <1>14, <1>15,
     <1>16, <1>17, <1>18 DEF Next, Sample, Quiet, ReplayRaises
<1>20. ASSUME NEW skill \in BOOLEAN, StartTurn(skill) PROVE Flags'
  BY <1>20 DEF StartTurn, Flags
<1>21. ASSUME PersistRaises PROVE Flags'
  BY <1>21 DEF PersistRaises, Flags
<1>22. ASSUME Restart \/ Resume PROVE Flags'
  BY <1>22 DEF Restart, Resume, Flags
<1>23. ASSUME UNCHANGED flags PROVE Flags'
  BY <1>23 DEF flags, Flags
<1>24. ASSUME Sample PROVE UNCHANGED flags
  BY <1>24 DEF Sample, SampleFinal, SampleSignals, SampleTools, SampleFails
<1>25. ASSUME ToolReturns \/ ToolAborts \/ FlushDone \/ Interrupt PROVE UNCHANGED flags
  BY <1>25 DEF ToolReturns, ToolAborts, FlushDone, Interrupt
<1>26. ASSUME CompactionDone \/ Close \/ CloseDone \/ RecorderFails PROVE UNCHANGED flags
  BY <1>26 DEF CompactionDone, Close, CloseDone, RecorderFails
<1>27. ASSUME UNCHANGED vars PROVE UNCHANGED flags
  BY <1>27 DEF vars, flags
<1>28. Flags'
  BY <1>20, <1>21, <1>22, <1>23, <1>24, <1>25, <1>26, <1>27 DEF Next, Quiet, ReplayRaises
<1> QED
  BY <1>19, <1>28

(* The whole ledger is a beginning of it.                                  *)
LEMMA WholeLedger ==
  ASSUME NEW l \in Seq(Record)
  PROVE  SubSeq(l, 1, Len(l)) = l
  OBVIOUS

(* Steps that keep history and ledger: a flush may be acknowledged.        *)
LEMMA KeepingHolds ==
  ASSUME TurnInv, Keeping, restarts' \in Nat, restarts' >= restarts
  PROVE  Held'
<1>1. /\ history' = history /\ ledger' = ledger /\ turns' = turns /\ nextId' = nextId
      /\ contextDone' = contextDone
  BY DEF Keeping, flags
<1>2. /\ history \in Seq(Item) /\ ledger \in Seq(Record) /\ flushed \in 0..Len(ledger)
      /\ turns \in Nat /\ reported \in Nat /\ plan \in [from : Nat, to : Nat]
      /\ nextId \in 0..MaxItems /\ restarts \in Nat
  BY DEF TurnInv, Typing
<1>3. flushed' \in 0..Len(ledger') /\ reported' \in Nat /\ plan' \in [from : Nat, to : Nat]
  BY <1>1, <1>2 DEF Keeping, NoPlan
<1>4. InFlight'
  BY <1>1, <1>2 DEF Keeping, InFlight, TurnInv, Down
<1>5. Shape'
  BY <1>1 DEF Keeping, Shape, TurnInv
<1>6. Matches'
  BY <1>1 DEF Keeping, Matches, Live, TurnInv
<1>7. AnswerInv'
  <2> SUFFICES ASSUME recorder' = "up", restarts' = 0 PROVE Paired(history', pc' = "tool")
    BY DEF AnswerInv
  <2>1. recorder = "up" /\ restarts = 0
    BY <1>2 DEF Keeping
  <2>2. (pc' = "tool") = (pc = "tool")
    BY DEF Keeping
  <2>3. Paired(history, pc = "tool")
    BY <2>1 DEF TurnInv, AnswerInv
  <2> QED
    BY <1>1, <2>2, <2>3, Zenon
<1>8. ReportInv'
  <2>1. /\ TurnsIn(SubSeq(ledger, 1, flushed)) \in Nat
        /\ TurnsIn(SubSeq(ledger, 1, flushed)) <= TurnsIn(ledger)
    BY <1>2, TurnsCut
  <2>2. SubSeq(ledger, 1, Len(ledger)) = ledger /\ TurnsIn(ledger) \in Nat
    <3>1. Len(ledger) \in 0..Len(ledger)
      BY <1>2
    <3> QED
      BY <1>2, <3>1, WholeLedger, TurnsCut
  <2>3. /\ reported <= TurnsIn(SubSeq(ledger, 1, flushed))
        /\ pc = "flushing" => reported < TurnsIn(ledger)
    BY DEF TurnInv, ReportInv
  <2>4. CASE UNCHANGED <<flushed, reported>>
    BY <1>1, <2>3, <2>4 DEF ReportInv, Keeping
  <2>5. CASE flushed' = Len(ledger) /\ reported' = reported /\ pc' # "flushing"
    <3>1. SubSeq(ledger', 1, flushed') = ledger
      BY <1>1, <2>2, <2>5, Zenon
    <3>2. TurnsIn(SubSeq(ledger', 1, flushed')) = TurnsIn(ledger)
      BY <3>1, Zenon
    <3>3. reported' <= TurnsIn(ledger)
      BY <1>2, <2>1, <2>2, <2>3, <2>5
    <3> QED
      BY <2>5, <3>2, <3>3 DEF ReportInv
  <2>6. CASE /\ pc = "flushing" /\ flushed' = Len(ledger) /\ reported' = reported + 1
             /\ pc' # "flushing"
    <3>1. SubSeq(ledger', 1, flushed') = ledger
      BY <1>1, <2>2, <2>6, Zenon
    <3>2. TurnsIn(SubSeq(ledger', 1, flushed')) = TurnsIn(ledger)
      BY <3>1, Zenon
    <3>3. reported' <= TurnsIn(ledger)
      BY <1>2, <2>2, <2>3, <2>6
    <3> QED
      BY <2>6, <3>2, <3>3 DEF ReportInv
  <2> QED
    BY <2>4, <2>5, <2>6 DEF Keeping
<1>9. ContextInv'
  BY <1>1 DEF Keeping, ContextInv, TurnInv, Down
<1> QED
  BY <1>1, <1>2, <1>3, <1>4, <1>5, <1>6, <1>7, <1>8, <1>9 DEF Held

(* Steps that add the same items to both.                                  *)
LEMMA SayingHolds ==
  ASSUME TurnInv, Saying, restarts' \in Nat, restarts' >= restarts
  PROVE  Held'
<1>1. PICK items \in Seq(NewItem), marks \in {<<>>, <<"turn">>, <<"closed">>} : Says(items, marks)
  BY DEF Saying
<1>2. /\ history \in Seq(Item) /\ ledger \in Seq(Record) /\ flushed \in 0..Len(ledger)
      /\ turns \in Nat /\ reported \in Nat /\ restarts \in Nat
  BY DEF TurnInv, Typing
<1>3. SummariesFirst(history) /\ PrefixShape(ledger)
  BY DEF TurnInv, Shape
<1>4. /\ Persist(items, marks) /\ \A i \in DOMAIN items : items[i].kind # "context"
      /\ turns' = turns + (IF marks = <<"turn">> THEN 1 ELSE 0)
      /\ pc' = "flushing" => marks = <<"turn">>
      /\ pc \notin {"closed", "down", "lost"} /\ pc' \notin {"closed", "down", "lost"}
      /\ pc' = "compacting" => Planned(history', plan')
      /\ pc' = "tool" => items # <<>> /\ items[Len(items)].kind = "call"
      /\ nextId' \in 0..MaxItems /\ plan' \in [from : Nat, to : Nat]
      /\ flushed' = flushed /\ reported' = reported /\ contextDone' = contextDone
  BY <1>1 DEF Says, flags
<1>5. /\ recorder = "up" /\ recorder' = recorder
      /\ history' = history \o items /\ history' \in Seq(Item) /\ SummariesFirst(history')
      /\ Grown(ledger, ledger') /\ Replay(ledger') = Replay(ledger) \o items
      /\ TurnsIn(ledger') = TurnsIn(ledger) + (IF marks = <<"turn">> THEN 1 ELSE 0)
      /\ Indices(ledger', "context") = Indices(ledger, "context")
  BY <1>2, <1>3, <1>4, Persisted
<1>6. /\ ledger' \in Seq(Record) /\ PrefixShape(ledger') /\ Len(ledger) <= Len(ledger')
      /\ SubSeq(ledger', 1, flushed) = SubSeq(ledger, 1, flushed)
  BY <1>2, <1>5 DEF Grown
<1>7. flushed' \in 0..Len(ledger') /\ turns' \in Nat
  BY <1>2, <1>4, <1>6
<1>8. InFlight'
  <2> SUFFICES ASSUME pc' = "tool" PROVE history' # <<>> /\ Last(history').kind = "call"
    BY <1>4 DEF InFlight, Down
  <2>1. items # <<>> /\ items[Len(items)].kind = "call"
    BY <1>4
  <2>2. Len(items) \in Nat /\ Len(items) >= 1
    BY <2>1
  <2>3. items \in Seq(Item)
    <3>1. NewItem \subseteq Item
      BY NewIsItem
    <3> QED
      BY <3>1, SeqMonotonic
  <2>4. /\ Len(history \o items) = Len(history) + Len(items)
        /\ \A i \in (Len(history) + 1)..Len(history \o items) :
             (history \o items)[i] = items[i - Len(history)] /\ i - Len(history) \in 1..Len(items)
    BY <1>2, <2>3, Joined
  <2>5. Len(history') = Len(history) + Len(items) /\ history'[Len(history')] = items[Len(items)]
    BY <1>2, <1>5, <2>2, <2>4
  <2> QED
    BY <1>2, <1>5, <2>1, <2>2, <2>5 DEF Last
<1>9. Shape'
  BY <1>4, <1>5, <1>6 DEF Shape
<1>10. Matches'
  <2>1. Live
    BY <1>4, <1>5 DEF Live
  <2>2. Replay(ledger) = history /\ TurnsIn(ledger) = turns
    BY <2>1 DEF TurnInv, Matches
  <2> QED
    BY <1>4, <1>5, <2>2 DEF Matches
<1>11. AnswerInv'
  <2> SUFFICES ASSUME recorder' = "up", restarts' = 0 PROVE Paired(history', pc' = "tool")
    BY DEF AnswerInv
  <2>1. Paired(history, pc = "tool")
    BY <1>2, <1>5 DEF TurnInv, AnswerInv
  <2> QED
    BY <1>1, <2>1 DEF Says
<1>12. ReportInv'
  <2>1. /\ TurnsIn(SubSeq(ledger, 1, flushed)) \in Nat /\ TurnsIn(ledger) \in Nat
        /\ TurnsIn(SubSeq(ledger, 1, flushed)) <= TurnsIn(ledger)
    <3>1. Len(ledger) \in 0..Len(ledger) /\ SubSeq(ledger, 1, Len(ledger)) = ledger
      BY <1>2, WholeLedger
    <3>2. TurnsIn(ledger) \in Nat
      BY <1>2, <3>1, TurnsCut
    <3> QED
      BY <1>2, <3>2, TurnsCut
  <2>2. reported <= TurnsIn(SubSeq(ledger, 1, flushed))
    BY DEF TurnInv, ReportInv
  <2>3. reported <= TurnsIn(SubSeq(ledger', 1, flushed'))
    BY <1>4, <1>6, <2>2
  <2>4. pc' = "flushing" => reported' < TurnsIn(ledger')
    BY <1>2, <1>4, <1>5, <2>1, <2>2
  <2> QED
    BY <1>4, <2>3, <2>4 DEF ReportInv
<1>13. ContextInv'
  BY <1>4, <1>5 DEF ContextInv, TurnInv, Down
<1> QED
  BY <1>2, <1>4, <1>5, <1>6, <1>7, <1>8, <1>9, <1>10, <1>11, <1>12, <1>13 DEF Held

(* The first step of a turn: its meta record, then its items.              *)
LEMMA StartHolds ==
  ASSUME TurnInv, NEW skill \in BOOLEAN, StartTurn(skill), restarts' \in Nat, restarts' >= restarts
  PROVE  Held'
<1> DEFINE c == ~contextDone
           kinds == If(c, <<"context">>) \o <<"user">> \o If(skill, <<"skill">>)
           items == New(kinds)
           meta == If(~metaWritten, <<[kind |-> "meta"]>>)
           l == ledger \o meta
<1>1. /\ history \in Seq(Item) /\ ledger \in Seq(Record) /\ flushed \in 0..Len(ledger)
      /\ turns \in Nat /\ reported \in Nat /\ restarts \in Nat /\ nextId \in 0..MaxItems
      /\ MaxItems \in Nat
  BY TurnAssumption DEF TurnInv, Typing
<1>2. SummariesFirst(history) /\ PrefixShape(ledger)
  BY DEF TurnInv, Shape
<1>3. c \in BOOLEAN
  OBVIOUS
<1>4. /\ pc = "idle" /\ recorder = "up" /\ nextId + Len(kinds) <= MaxItems
      /\ nextId' = nextId + Len(kinds)
      /\ history' = history \o items /\ ledger' = ledger \o meta \o items
      /\ contextDone' = TRUE /\ LoopTop(history')
      /\ UNCHANGED <<flushed, recorder, turns, reported>>
  BY DEF StartTurn, Fresh
<1>5. /\ kinds \in Seq(NewKinds)
      /\ \A i \in 1..Len(kinds) : kinds[i] # "call" /\ (kinds[i] = "context" => c /\ i = 1)
  BY <1>3, StartKinds
<1>6. c <=> ~contextDone
  OBVIOUS
<1> HIDE DEF kinds, c
<1>7. /\ items \in Seq(NewItem) /\ Len(items) = Len(kinds)
      /\ \A i \in 1..Len(kinds) : items[i] = [kind |-> kinds[i], id |-> nextId + i]
  BY <1>1, <1>4, <1>5, NewItems
<1>8. ASSUME NEW i \in 1..Len(items)
      PROVE  items[i].kind # "call" /\ (items[i].kind = "context" => c /\ i = 1)
  <2>1. items[i] = [kind |-> kinds[i], id |-> nextId + i]
    BY <1>7
  <2>2. [kind |-> kinds[i], id |-> nextId + i].kind = kinds[i]
    OBVIOUS
  <2>3. items[i].kind = kinds[i]
    BY <2>1, <2>2, Zenon
  <2> QED
    BY <1>5, <1>7, <2>3
<1> HIDE DEF items
<1>9. history' \in Seq(Item) /\ SummariesFirst(history')
  BY <1>1, <1>2, <1>4, <1>7, FirstItems
<1>10. /\ Grown(ledger, l) /\ Replay(l) = Replay(ledger) /\ TurnsIn(l) = TurnsIn(ledger)
       /\ Indices(l, "context") = Indices(ledger, "context")
  <2>1. CASE metaWritten
    <3>1. meta = <<>>
      BY <2>1 DEF If
    <3>2. l = ledger
      BY <1>1, <3>1, ConcatEmptySeq
    <3>3. Grown(ledger, ledger)
      BY <1>1, <1>2 DEF Grown
    <3> QED
      BY <3>2, <3>3, Zenon
  <2>2. CASE ~metaWritten
    <3> DEFINE r == [kind |-> "meta"]
    <3>1. meta = <<r>>
      BY <2>2 DEF If
    <3>2. r \in Marks /\ r \in Record /\ r.kind # "turn"
      BY DEF Marks, Record
    <3> HIDE DEF r, meta
    <3>3. l = Append(ledger, r)
      BY <1>1, <3>1, <3>2, AppendIsConcat
    <3>4. /\ Grown(ledger, l) /\ Replay(l) = Replay(ledger)
          /\ TurnsIn(l) = TurnsIn(ledger) + (IF r.kind = "turn" THEN 1 ELSE 0)
          /\ Indices(l, "context") = Indices(ledger, "context")
      BY <1>1, <1>2, <3>2, <3>3, MarkAdded
    <3>5. TurnsIn(ledger) \in Nat
      BY <1>1, <3>2, TurnsAppend
    <3> QED
      BY <3>2, <3>4, <3>5
  <2> QED
    BY <2>1, <2>2
<1>11. ledger' = l \o items
  BY <1>4
<1> HIDE DEF l, meta
<1>12. l \in Seq(Record) /\ PrefixShape(l)
  BY <1>10 DEF Grown
<1>13. /\ Grown(l, ledger') /\ Replay(ledger') = Replay(l) \o items /\ TurnsIn(ledger') = TurnsIn(l)
       /\ (\A i \in DOMAIN items : items[i].kind # "context")
             => Indices(ledger', "context") = Indices(l, "context")
  BY <1>7, <1>11, <1>12, ItemsAdded
<1>14. Grown(ledger, ledger')
  BY <1>1, <1>10, <1>13, GrownTwice
<1>15. /\ ledger' \in Seq(Record) /\ PrefixShape(ledger') /\ Len(ledger) <= Len(ledger')
       /\ SubSeq(ledger', 1, flushed) = SubSeq(ledger, 1, flushed)
  BY <1>1, <1>14 DEF Grown
<1>16. /\ plan' \in [from : Nat, to : Nat] /\ pc' \in {"sampling", "compacting"}
       /\ pc' = "compacting" => Planned(history', plan')
  BY <1>4, <1>9, LoopTopPlans
<1>17. flushed' \in 0..Len(ledger') /\ nextId' \in 0..MaxItems
  BY <1>1, <1>4, <1>5, <1>15
<1>18. InFlight' /\ Shape'
  BY <1>9, <1>15, <1>16 DEF InFlight, Shape, Down
<1>19. Matches'
  <2>1. Replay(ledger) = history /\ TurnsIn(ledger) = turns
    BY <1>4 DEF TurnInv, Matches, Live
  <2> QED
    BY <1>4, <1>10, <1>13, <2>1 DEF Matches
<1>20. AnswerInv'
  <2> SUFFICES ASSUME recorder' = "up", restarts' = 0 PROVE Paired(history', pc' = "tool")
    BY DEF AnswerInv
  <2>1. (pc = "tool") = FALSE /\ (pc' = "tool") = FALSE
    BY <1>4, <1>16
  <2>2. Paired(history, FALSE)
    <3>1. recorder = "up" /\ restarts = 0
      BY <1>1, <1>4
    <3>2. Paired(history, pc = "tool")
      BY <3>1 DEF TurnInv, AnswerInv
    <3> QED
      BY <2>1, <3>2, Zenon
  <2>3. \A i \in 1..Len(items) : items[i].kind = "call" => FALSE /\ i = Len(items)
    BY <1>8
  <2>4. Paired(history \o items, FALSE)
    BY <1>1, <1>7, <2>2, <2>3, PairedPlain
  <2> QED
    BY <1>4, <2>1, <2>4, Zenon
<1>21. ReportInv'
  <2>1. reported <= TurnsIn(SubSeq(ledger, 1, flushed))
    BY DEF TurnInv, ReportInv
  <2> QED
    BY <1>4, <1>15, <1>16, <2>1 DEF ReportInv
<1>22. ContextInv'
  <2>1. \A i, j \in Indices(ledger, "context") : i = j
    BY DEF TurnInv, ContextInv
  <2>2. CASE contextDone
    <3>1. \A i \in DOMAIN items : items[i].kind # "context"
      BY <1>6, <1>7, <1>8, <2>2
    <3> QED
      BY <1>4, <1>10, <1>13, <2>1, <3>1 DEF ContextInv
  <2>3. CASE ~contextDone
    <3>1. Indices(l, "context") = {}
      BY <1>4, <1>10, <2>3 DEF TurnInv, ContextInv, Down
    <3>2. items \in Seq(Record)
      BY <1>1, <1>7, TurnsItems
    <3>3. /\ ledger' \in Seq(Record) /\ Len(ledger') = Len(l) + Len(items)
          /\ \A i \in 1..Len(l) : ledger'[i] = l[i]
          /\ \A i \in (Len(l) + 1)..Len(ledger') :
               ledger'[i] = items[i - Len(l)] /\ i - Len(l) \in 1..Len(items)
      <4>1. /\ l \o items \in Seq(Record) /\ Len(l \o items) = Len(l) + Len(items)
            /\ \A i \in 1..Len(l) : (l \o items)[i] = l[i]
            /\ \A i \in (Len(l) + 1)..Len(l \o items) :
                 (l \o items)[i] = items[i - Len(l)] /\ i - Len(l) \in 1..Len(items)
        BY <1>12, <3>2, Joined
      <4> QED
        BY <1>11, <4>1, Zenon
    <3>4. ASSUME NEW i \in Indices(ledger', "context") PROVE i = Len(l) + 1
      <4>1. i \in 1..Len(ledger') /\ ledger'[i].kind = "context"
        BY <3>3 DEF Indices
      <4>2. CASE i \in 1..Len(l)
        <5>1. i \in Indices(l, "context")
          BY <1>12, <3>3, <4>1, <4>2 DEF Indices
        <5> QED
          BY <3>1, <5>1
      <4>3. CASE i \in (Len(l) + 1)..Len(ledger')
        <5> DEFINE k == i - Len(l)
        <5>1. k \in 1..Len(items) /\ items[k].kind = "context"
          BY <3>3, <4>1, <4>3
        <5>2. k = 1
          BY <1>8, <5>1
        <5> QED
          BY <1>12, <4>1, <5>2
      <4> QED
        BY <1>12, <4>1, <4>2, <4>3
    <3> QED
      BY <1>4, <3>4 DEF ContextInv
  <2> QED
    BY <2>2, <2>3
<1> QED
  BY <1>1, <1>4, <1>9, <1>15, <1>16, <1>17, <1>18, <1>19, <1>20, <1>21, <1>22 DEF Held

(* A compaction leaves the summaries where they are, adds one after them,  *)
(* and breaks no pair of a call and its output.                            *)
LEMMA CompactionShape ==
  ASSUME NEW h \in Seq(Item), NEW p \in [from : Nat, to : Nat], Planned(h, p),
         NEW id \in 0..MaxItems
  PROVE  /\ Replace(h, p.from, p.to, id) \in Seq(Item)
         /\ SummariesFirst(Replace(h, p.from, p.to, id))
         /\ Paired(h, FALSE) => Paired(Replace(h, p.from, p.to, id), FALSE)
         /\ Summaries(h) \subseteq Summaries(Replace(h, p.from, p.to, id))
<1> DEFINE r == Replace(h, p.from, p.to, id)
           from == p.from
<1>1. /\ from \in Nat /\ p.to \in Nat /\ from <= Len(h)
      /\ \A i \in DOMAIN h : h[i].kind = "summary" <=> i <= from
  BY DEF Planned
<1>2. r \in Seq(Item) /\ (r = h \/ \E e \in Nat : Shortened(h, r, from, e))
  BY <1>1, ReplaceShape
<1> HIDE DEF r, from
<1>3. CASE r = h
  <2>1. SummariesFirst(h)
    BY <1>1 DEF SummariesFirst
  <2> QED
    BY <1>2, <1>3, <2>1 DEF r, from
<1>4. ASSUME NEW e \in Nat, Shortened(h, r, from, e)
      PROVE  /\ SummariesFirst(r)
             /\ Paired(h, FALSE) => Paired(r, FALSE)
             /\ Summaries(h) \subseteq Summaries(r)
  <2>1. /\ from < e /\ e <= Len(h) /\ Len(r) = from + 1 + Len(h) - e
        /\ \A i \in 1..from : r[i] = h[i]
        /\ r[from + 1].kind = "summary"
        /\ \A i \in (from + 2)..Len(r) : r[i] = h[i + e - from - 1]
    BY <1>4 DEF Shortened
  <2>2. DOMAIN r = 1..Len(r) /\ DOMAIN h = 1..Len(h) /\ Len(r) \in Nat /\ Len(h) \in Nat
    BY <1>2
  <2>3. ASSUME NEW i \in (from + 2)..Len(r)
        PROVE  /\ i + e - from - 1 \in (e + 1)..Len(h)
               /\ r[i] = h[i + e - from - 1] /\ r[i].kind # "summary"
    <3>1. i + e - from - 1 \in (e + 1)..Len(h) /\ i + e - from - 1 \in 1..Len(h)
          /\ ~(i + e - from - 1 <= from)
      BY <1>1, <2>1, <2>2
    <3>2. r[i] = h[i + e - from - 1]
      BY <2>1
    <3> QED
      BY <1>1, <2>2, <3>1, <3>2
  <2>4. SummariesFirst(r)
    <3> DEFINE s == from + 1
    <3>1. s \in 0..Len(r)
      BY <1>1, <2>1, <2>2
    <3>2. ASSUME NEW i \in DOMAIN r PROVE r[i].kind = "summary" <=> i <= s
      <4>1. CASE i \in 1..from
        BY <1>1, <2>1, <2>2, <4>1
      <4>2. CASE i = from + 1
        BY <1>1, <2>1, <4>2
      <4>3. CASE i \in (from + 2)..Len(r)
        <5>1. ~(i <= s)
          BY <1>1, <4>3
        <5> QED
          BY <2>3, <4>3, <5>1
      <4> QED
        BY <1>1, <2>2, <4>1, <4>2, <4>3
    <3> HIDE DEF s
    <3> QED
      BY <3>1, <3>2 DEF SummariesFirst
  <2>5. ASSUME Paired(h, FALSE) PROVE Paired(r, FALSE)
    <3> SUFFICES ASSUME NEW i \in 1..Len(r), r[i].kind = "call"
                 PROVE  i < Len(r) /\ r[i + 1].kind = "output" /\ r[i + 1].id = r[i].id
      BY <2>2 DEF Paired, Indices
    <3> DEFINE k == i + e - from - 1
    <3>1. i \notin 1..from /\ i # from + 1
      <4>1. CASE i \in 1..from
        <5>1. r[i] = h[i] /\ i \in DOMAIN h /\ i <= from
          BY <1>1, <2>1, <2>2, <4>1
        <5>2. r[i].kind = "summary"
          BY <1>1, <5>1
        <5> QED
          BY <5>2
      <4>2. CASE i = from + 1
        BY <2>1, <4>2
      <4> QED
        BY <4>1, <4>2
    <3>2. i \in (from + 2)..Len(r)
      BY <1>1, <2>2, <3>1
    <3>3. k \in (e + 1)..Len(h) /\ r[i] = h[k]
      BY <2>3, <3>2
    <3>4. k < Len(h) /\ h[k + 1].kind = "output" /\ h[k + 1].id = h[k].id
      <4>1. k \in 1..Len(h) /\ h[k].kind = "call"
        BY <2>1, <2>2, <3>3
      <4> HIDE DEF k
      <4> QED
        BY <2>2, <2>5, <4>1 DEF Paired, Indices
    <3>5. i < Len(r) /\ i + 1 \in (from + 2)..Len(r) /\ (i + 1) + e - from - 1 = k + 1
      <4>1. i + e - from - 1 < Len(h)
        BY <3>4
      <4> QED
        BY <1>1, <2>1, <2>2, <3>2, <4>1
    <3>6. r[i + 1] = h[k + 1]
      BY <2>1, <3>5
    <3> QED
      BY <3>3, <3>4, <3>5, <3>6
  <2>6. Summaries(h) \subseteq Summaries(r)
    <3> SUFFICES ASSUME NEW i \in Indices(h, "summary") PROVE h[i] \in Summaries(r)
      BY DEF Summaries
    <3>1. i \in 1..from /\ i \in 1..Len(r)
      BY <1>1, <2>1, <2>2 DEF Indices
    <3>2. r[i] = h[i] /\ h[i].kind = "summary"
      BY <2>1, <3>1 DEF Indices
    <3>3. i \in Indices(r, "summary")
      BY <2>2, <3>1, <3>2 DEF Indices
    <3> QED
      BY <3>2, <3>3 DEF Summaries
  <2> QED
    BY <2>4, <2>5, <2>6
<1>5. /\ SummariesFirst(r) /\ (Paired(h, FALSE) => Paired(r, FALSE))
      /\ Summaries(h) \subseteq Summaries(r)
  BY <1>2, <1>3, <1>4 DEF r, from
<1> QED
  BY <1>2, <1>5 DEF r, from

(* A compaction: the ledger gets the record of what the history underwent. *)
LEMMA CompactionHolds ==
  ASSUME TurnInv, CompactionDone, restarts' \in Nat, restarts' >= restarts
  PROVE  Held'
<1> DEFINE r == [kind |-> "compaction", from |-> plan.from, to |-> plan.to, id |-> nextId']
           h == Replace(history, plan.from, plan.to, nextId')
<1>1. /\ history \in Seq(Item) /\ ledger \in Seq(Record) /\ flushed \in 0..Len(ledger)
      /\ turns \in Nat /\ reported \in Nat /\ restarts \in Nat /\ nextId \in 0..MaxItems
      /\ plan \in [from : Nat, to : Nat] /\ MaxItems \in Nat
  BY TurnAssumption DEF TurnInv, Typing
<1>2. /\ pc = "compacting" /\ recorder = "up" /\ nextId + 1 <= MaxItems /\ nextId' = nextId + 1
      /\ history' = h /\ ledger' = Append(ledger, r) /\ pc' = "sampling" /\ plan' = NoPlan
      /\ contextDone' = contextDone
      /\ UNCHANGED <<flushed, recorder, turns, reported>>
  BY DEF CompactionDone, Fresh, flags
<1>3. PrefixShape(ledger) /\ Planned(history, plan)
  BY <1>2 DEF TurnInv, Shape
<1>4. nextId' \in 0..MaxItems
  BY <1>1, <1>2
<1>5. h \in Seq(Item) /\ SummariesFirst(h) /\ (Paired(history, FALSE) => Paired(h, FALSE))
  BY <1>1, <1>3, <1>4, CompactionShape
<1>6. Replay(ledger) = history /\ TurnsIn(ledger) = turns
  BY <1>2 DEF TurnInv, Matches, Live
<1>7. /\ r \in Record /\ r.kind = "compaction" /\ r.from = plan.from /\ r.to = plan.to
      /\ r.id = nextId'
  BY <1>1, <1>4 DEF Record, Compactions
<1> HIDE DEF r
<1>8. Apply(history, r) = h
  BY <1>7 DEF Apply
<1> HIDE DEF h
<1>9. Replay(ledger') = h
  BY <1>1, <1>2, <1>6, <1>7, <1>8, ReplayAppend
<1>10. Grown(ledger, ledger')
  <2>1. SummariesFirst(Apply(Replay(ledger), r))
    BY <1>5, <1>6, <1>8, Zenon
  <2> QED
    BY <1>1, <1>2, <1>3, <1>7, <2>1, GrownBy
<1>11. /\ ledger' \in Seq(Record) /\ PrefixShape(ledger') /\ Len(ledger) <= Len(ledger')
       /\ SubSeq(ledger', 1, flushed) = SubSeq(ledger, 1, flushed)
  BY <1>1, <1>10 DEF Grown
<1>12. TurnsIn(ledger') = TurnsIn(ledger)
  BY <1>1, <1>2, <1>7, TurnsAppend
<1>13. Indices(ledger', "context") = Indices(ledger, "context")
  <2>1. ledger' = ledger \o <<r>>
    BY <1>1, <1>2, <1>7, AppendIsConcat
  <2>2. <<r>> \in Seq(Record) /\ \A i \in DOMAIN <<r>> : <<r>>[i].kind # "context"
    BY <1>7
  <2> QED
    BY <1>1, <2>1, <2>2, OtherKinds
<1>14. flushed' \in 0..Len(ledger') /\ plan' \in [from : Nat, to : Nat]
  BY <1>1, <1>2, <1>11 DEF NoPlan
<1>15. InFlight' /\ Shape'
  BY <1>2, <1>5, <1>11 DEF InFlight, Shape, Down
<1>16. Matches'
  BY <1>2, <1>6, <1>9, <1>12 DEF Matches
<1>17. AnswerInv'
  <2> SUFFICES ASSUME recorder' = "up", restarts' = 0 PROVE Paired(history', pc' = "tool")
    BY DEF AnswerInv
  <2>1. recorder = "up" /\ restarts = 0
    BY <1>1, <1>2
  <2>2. Paired(history, pc = "tool")
    BY <2>1 DEF TurnInv, AnswerInv
  <2>3. (pc = "tool") = FALSE /\ (pc' = "tool") = FALSE
    BY <1>2
  <2>4. Paired(history, FALSE)
    BY <2>2, <2>3, Zenon
  <2> QED
    BY <1>2, <1>5, <2>3, <2>4, Zenon
<1>18. ReportInv'
  <2>1. reported <= TurnsIn(SubSeq(ledger, 1, flushed))
    BY DEF TurnInv, ReportInv
  <2> QED
    BY <1>2, <1>11, <2>1 DEF ReportInv
<1>19. ContextInv'
  BY <1>2, <1>13 DEF ContextInv, TurnInv, Down
<1> QED
  BY <1>1, <1>2, <1>4, <1>5, <1>11, <1>14, <1>15, <1>16, <1>17, <1>18, <1>19 DEF Held

(* Items added to a history leave its summaries in it.                     *)
LEMMA SummariesStay ==
  ASSUME NEW h \in Seq(Item), NEW items \in Seq(NewItem)
  PROVE  Summaries(h) \subseteq Summaries(h \o items)
<1> DEFINE m == h \o items
<1>1. items \in Seq(Item)
  <2>1. NewItem \subseteq Item
    BY NewIsItem
  <2> QED
    BY <2>1, SeqMonotonic
<1>2. m \in Seq(Item) /\ Len(m) = Len(h) + Len(items) /\ \A i \in 1..Len(h) : m[i] = h[i]
  BY <1>1, Joined
<1> HIDE DEF m
<1>3. ASSUME NEW i \in Indices(h, "summary") PROVE h[i] \in Summaries(m)
  <2>1. i \in 1..Len(h) /\ h[i].kind = "summary"
    BY DEF Indices
  <2>2. i \in 1..Len(m) /\ m[i] = h[i]
    BY <1>1, <1>2, <2>1
  <2>3. i \in Indices(m, "summary")
    BY <1>2, <2>1, <2>2 DEF Indices
  <2> QED
    BY <2>2, <2>3 DEF Summaries
<1> QED
  BY <1>3 DEF Summaries, m

(* One item of a kind that run_turn creates.                               *)
LEMMA OneItem ==
  ASSUME nextId \in Nat, nextId + 1 <= MaxItems, NEW kind \in NewKinds
  PROVE  New(<<kind>>) \in Seq(NewItem)
<1> DEFINE kinds == <<kind>>
<1>1. kinds \in Seq(NewKinds) /\ Len(kinds) = 1
  BY Single
<1> HIDE DEF kinds
<1>2. New(kinds) \in Seq(NewItem)
  BY <1>1, NewItems
<1> QED
  BY <1>2 DEF kinds

(* What a step that raises leaves in memory.                               *)
LEMMA RaisesHistory ==
  ASSUME TurnInv, PersistRaises
  PROVE  /\ history' \in Seq(Item) /\ SummariesFirst(history')
         /\ turns' \in Nat /\ nextId' \in 0..MaxItems
         /\ Summaries(history) \subseteq Summaries(history')
<1>1. /\ history \in Seq(Item) /\ turns \in Nat /\ nextId \in 0..MaxItems
      /\ plan \in [from : Nat, to : Nat] /\ MaxItems \in Nat /\ SummariesFirst(history)
  BY TurnAssumption DEF TurnInv, Typing, Shape
<1>2. ASSUME NEW items \in Seq(NewItem), history' = history \o items
      PROVE  /\ history' \in Seq(Item) /\ SummariesFirst(history')
             /\ Summaries(history) \subseteq Summaries(history')
  <2>1. history' \in Seq(Item) /\ SummariesFirst(history')
    BY <1>1, <1>2, FirstItems
  <2> QED
    BY <1>1, <1>2, <2>1, SummariesStay
<1>3. ASSUME NEW kind \in NewKinds, Fresh(1), history' = history \o New(<<kind>>)
      PROVE  \E items \in Seq(NewItem) : history' = history \o items
  <2>1. nextId \in Nat /\ nextId + 1 <= MaxItems
    BY <1>1, <1>3 DEF Fresh
  <2> QED
    BY <1>3, <2>1, OneItem
<1>4. /\ "user" \in NewKinds /\ "context" \in NewKinds /\ "assistant" \in NewKinds
      /\ "call" \in NewKinds
  BY DEF NewKinds
<1>5. ASSUME Fresh(1) PROVE nextId' \in 0..MaxItems
  BY <1>1, <1>5 DEF Fresh
<1>6. CASE /\ pc = "idle" /\ turns' = turns
           /\ \/ Fresh(1) /\ history' = history \o New(<<"context">>)
              \/ Fresh(1) /\ history' = history \o New(<<"user">>)
              \/ history' = history /\ nextId' = nextId
  <2>1. ASSUME NEW kind \in NewKinds, Fresh(1), history' = history \o New(<<kind>>)
        PROVE  /\ history' \in Seq(Item) /\ SummariesFirst(history')
               /\ turns' \in Nat /\ nextId' \in 0..MaxItems
               /\ Summaries(history) \subseteq Summaries(history')
    <3>1. PICK items \in Seq(NewItem) : history' = history \o items
      BY <1>3, <2>1
    <3> QED
      BY <1>1, <1>2, <1>5, <1>6, <2>1, <3>1
  <2>2. CASE history' = history /\ nextId' = nextId
    BY <1>1, <1>6, <2>2
  <2> QED
    BY <1>4, <1>6, <2>1, <2>2
<1>7. CASE /\ pc = "sampling"
           /\ \/ Fresh(1) /\ history' = history \o New(<<"assistant">>) /\ turns' = turns
              \/ Fresh(1) /\ history' = history \o New(<<"call">>) /\ turns' = turns
              \/ turns' = turns + 1 /\ history' = history /\ nextId' = nextId
  <2>1. ASSUME NEW kind \in NewKinds, Fresh(1), history' = history \o New(<<kind>>), turns' = turns
        PROVE  /\ history' \in Seq(Item) /\ SummariesFirst(history')
               /\ turns' \in Nat /\ nextId' \in 0..MaxItems
               /\ Summaries(history) \subseteq Summaries(history')
    <3>1. PICK items \in Seq(NewItem) : history' = history \o items
      BY <1>3, <2>1
    <3> QED
      BY <1>1, <1>2, <1>5, <2>1, <3>1
  <2>2. CASE turns' = turns + 1 /\ history' = history /\ nextId' = nextId
    BY <1>1, <2>2
  <2> QED
    BY <1>4, <1>7, <2>1, <2>2
<1>8. CASE /\ pc = "compacting" /\ Fresh(1) /\ turns' = turns
           /\ history' = Replace(history, plan.from, plan.to, nextId')
  <2>1. Planned(history, plan)
    BY <1>8 DEF TurnInv, Shape
  <2> QED
    BY <1>1, <1>5, <1>8, <2>1, CompactionShape
<1>9. CASE /\ pc = "tool" /\ history' = history \o OutputOf(history)
           /\ turns' = turns /\ nextId' = nextId
  <2>1. OutputOf(history) \in Seq(NewItem)
    BY <1>1, <1>9, ToolOutput DEF TurnInv
  <2> QED
    BY <1>1, <1>2, <1>9, <2>1
<1> QED
  BY <1>6, <1>7, <1>8, <1>9 DEF PersistRaises

(* A step that raises moves the history alone, and recording is over.      *)
LEMMA RaisesHolds ==
  ASSUME TurnInv, PersistRaises, restarts' \in Nat, restarts' >= restarts
  PROVE  Held'
<1>1. /\ history' \in Seq(Item) /\ SummariesFirst(history')
      /\ turns' \in Nat /\ nextId' \in 0..MaxItems
  BY RaisesHistory
<1>2. /\ recorder = "failed" /\ recorder' = recorder /\ ledger' = ledger /\ flushed' = flushed
      /\ reported' = reported /\ pc' = "idle" /\ plan' = NoPlan /\ pc \notin Down
      /\ ~contextDone' => ~contextDone
  BY DEF PersistRaises, Down
<1>3. /\ ledger \in Seq(Record) /\ flushed \in 0..Len(ledger) /\ reported \in Nat
      /\ PrefixShape(ledger)
  BY DEF TurnInv, Typing, Shape
<1>4. plan' \in [from : Nat, to : Nat]
  BY <1>2 DEF NoPlan
<1>5. InFlight' /\ Matches' /\ AnswerInv'
  BY <1>2 DEF InFlight, Matches, Live, AnswerInv, Down
<1>6. Shape'
  BY <1>1, <1>2, <1>3 DEF Shape
<1>7. ReportInv'
  BY <1>2 DEF ReportInv, TurnInv
<1>8. ContextInv'
  BY <1>2 DEF ContextInv, TurnInv
<1> QED
  BY <1>1, <1>2, <1>3, <1>4, <1>5, <1>6, <1>7, <1>8 DEF Held

(* A crash: a beginning of the ledger survives, with all that was flushed. *)
LEMMA RestartHolds ==
  ASSUME TurnInv, Restart
  PROVE  Held'
<1>1. /\ ledger \in Seq(Record) /\ flushed \in 0..Len(ledger) /\ reported \in Nat
      /\ restarts \in Nat /\ nextId \in 0..MaxItems /\ PrefixShape(ledger)
  BY DEF TurnInv, Typing, Shape
<1>2. /\ flushed' = Len(ledger') /\ history' = <<>> /\ turns' = 0 /\ recorder' = "up"
      /\ pc' \in Down /\ plan' = NoPlan /\ restarts' = restarts + 1
      /\ reported' = reported /\ nextId' = nextId
  BY DEF Restart, AfterCrash
<1>3. PICK n \in flushed..Len(ledger) : ledger' = SubSeq(ledger, 1, n)
  BY DEF Restart
<1>4. n \in 0..Len(ledger) /\ flushed \in 0..n
  BY <1>1
<1>5. /\ ledger' \in Seq(Record) /\ Len(ledger') = n /\ PrefixShape(ledger')
      /\ SubSeq(ledger', 1, flushed) = SubSeq(ledger, 1, flushed)
      /\ SubSeq(ledger', 1, n) = SubSeq(ledger, 1, n)
  <2>1. /\ SubSeq(ledger, 1, n) \in Seq(Record) /\ Len(SubSeq(ledger, 1, n)) = n
        /\ \A k \in 0..n : SubSeq(SubSeq(ledger, 1, n), 1, k) = SubSeq(ledger, 1, k)
        /\ PrefixShape(SubSeq(ledger, 1, n))
    BY <1>1, <1>4, CutShape
  <2>2. n \in 0..n
    BY <1>4
  <2> QED
    BY <1>3, <1>4, <2>1, <2>2, Zenon
<1>6. /\ history' \in Seq(Item) /\ flushed' \in 0..Len(ledger') /\ turns' \in Nat
      /\ plan' \in [from : Nat, to : Nat]
  BY <1>2, <1>4, <1>5 DEF NoPlan
<1>7. SummariesFirst(history')
  BY <1>2 DEF SummariesFirst
<1>8. InFlight' /\ Shape' /\ Matches' /\ AnswerInv'
  BY <1>1, <1>2, <1>5, <1>7 DEF InFlight, Shape, Matches, Live, AnswerInv, Down
<1>9. ReportInv'
  <2>1. reported <= TurnsIn(SubSeq(ledger', 1, flushed))
    BY <1>5 DEF TurnInv, ReportInv
  <2>2. /\ TurnsIn(SubSeq(ledger', 1, flushed)) \in Nat
        /\ TurnsIn(SubSeq(ledger', 1, flushed)) <= TurnsIn(ledger')
    BY <1>4, <1>5, TurnsCut
  <2>3. SubSeq(ledger', 1, flushed') = ledger'
    BY <1>2, <1>5, WholeLedger
  <2>4. /\ TurnsIn(ledger') \in Nat
        /\ TurnsIn(SubSeq(ledger', 1, flushed')) = TurnsIn(ledger')
    <3>1. Len(ledger') \in 0..Len(ledger')
      BY <1>4, <1>5
    <3>2. TurnsIn(SubSeq(ledger', 1, Len(ledger'))) \in Nat
      BY <1>5, <3>1, TurnsCut
    <3> QED
      BY <1>2, <2>3, <3>2, Zenon
  <2>5. reported <= TurnsIn(ledger')
    BY <1>1, <2>1, <2>2, <2>4
  <2> QED
    BY <1>2, <2>4, <2>5 DEF ReportInv, Down
<1>10. ContextInv'
  <2>1. Indices(ledger', "context") \subseteq Indices(ledger, "context")
    <3> SUFFICES ASSUME NEW i \in Indices(ledger', "context") PROVE i \in Indices(ledger, "context")
      OBVIOUS
    <3>1. i \in 1..n /\ ledger'[i].kind = "context"
      BY <1>5 DEF Indices
    <3>2. ledger'[i] = ledger[i]
      BY <1>1, <1>3, <1>4, <3>1
    <3> QED
      BY <1>1, <1>4, <3>1, <3>2 DEF Indices
  <2>2. \A i, j \in Indices(ledger, "context") : i = j
    BY DEF TurnInv, ContextInv
  <2> QED
    BY <1>2, <2>1, <2>2 DEF ContextInv
<1> QED
  BY <1>1, <1>2, <1>5, <1>6, <1>8, <1>9, <1>10 DEF Held

(* A resume: the history is what the ledger replays to.                    *)
LEMMA ResumeHolds ==
  ASSUME TurnInv, Resume, restarts' \in Nat, restarts' >= restarts
  PROVE  Held'
<1>1. /\ ledger \in Seq(Record) /\ flushed \in 0..Len(ledger) /\ reported \in Nat
      /\ restarts \in Nat /\ nextId \in 0..MaxItems /\ PrefixShape(ledger)
      /\ plan \in [from : Nat, to : Nat]
  BY DEF TurnInv, Typing, Shape
<1>2. /\ pc = "down" /\ history' = Replay(ledger) /\ turns' = TurnsIn(ledger)
      /\ contextDone' = TRUE /\ pc' = "idle" /\ ledger' = ledger /\ flushed' = flushed
      /\ recorder' = recorder /\ reported' = reported /\ plan' = plan /\ nextId' = nextId
  BY DEF Resume, turn
<1>3. Len(ledger) \in 0..Len(ledger) /\ SubSeq(ledger, 1, Len(ledger)) = ledger
  BY <1>1, WholeLedger
<1>4. history' \in Seq(Item)
  BY <1>1, <1>2, ReplayType
<1>5. SummariesFirst(history')
  <2>1. SummariesFirst(Replay(SubSeq(ledger, 1, Len(ledger))))
    BY <1>1, <1>3 DEF PrefixShape
  <2> QED
    BY <1>2, <1>3, <2>1, Zenon
<1>6. turns' \in Nat
  <2>1. TurnsIn(SubSeq(ledger, 1, Len(ledger))) \in Nat
    BY <1>1, <1>3, TurnsCut
  <2> QED
    BY <1>2, <1>3, <2>1, Zenon
<1>7. restarts' # 0
  BY <1>1, <1>2 DEF TurnInv, InFlight, Down
<1>8. InFlight' /\ Shape' /\ Matches' /\ AnswerInv'
  BY <1>1, <1>2, <1>5, <1>7 DEF InFlight, Shape, Matches, AnswerInv, Down
<1>9. ReportInv'
  BY <1>2 DEF ReportInv, TurnInv
<1>10. ContextInv'
  BY <1>2 DEF ContextInv, TurnInv
<1> QED
  BY <1>1, <1>2, <1>4, <1>6, <1>8, <1>9, <1>10 DEF Held

-------------------------------------------------------------------------------
(* The theorems.                                                           *)

(* A new session.                                                          *)
LEMMA TurnStarts == Init => TurnInv
<1> SUFFICES ASSUME Init PROVE TurnInv
  OBVIOUS
<1>1. /\ history = <<>> /\ ledger = <<>> /\ flushed = 0 /\ recorder = "up" /\ turns = 0
      /\ reported = 0 /\ pc = "idle" /\ todo = 0 /\ plan = NoPlan /\ budget = 0
      /\ metaWritten = FALSE /\ contextDone = FALSE /\ nextId = 0 /\ restarts = 0
  BY DEF Init
<1>2. <<>> \in Seq(Item) /\ <<>> \in Seq(Record) /\ Len(<<>>) = 0 /\ DOMAIN <<>> = {}
  OBVIOUS
<1>3. /\ MaxItems \in Nat /\ MaxRestarts \in Nat /\ ModelSignalBudget \in Nat
  BY TurnAssumption
<1>4. Typing /\ Flags /\ InFlight
  <2>1. Flags
    BY <1>1 DEF Flags
  <2>2. /\ plan \in [from : Nat, to : Nat] /\ flushed \in 0..Len(ledger)
        /\ nextId \in 0..MaxItems /\ restarts \in 0..MaxRestarts /\ budget \in 0..ModelSignalBudget
    BY <1>1, <1>2, <1>3 DEF NoPlan
  <2>3. history \in Seq(Item) /\ ledger \in Seq(Record)
    BY <1>1, <1>2, Zenon
  <2>4. Typing
    BY <1>1, <2>2, <2>3 DEF Typing
  <2>5. InFlight
    BY <1>1 DEF InFlight, Down
  <2> QED
    BY <2>1, <2>4, <2>5
<1>5. Indices(<<>>, "turn") = {} /\ Indices(<<>>, "context") = {} /\ Indices(<<>>, "call") = {}
  BY <1>2 DEF Indices
<1>6. TurnsIn(<<>>) = 0
  BY <1>5, FS_EmptySet DEF TurnsIn
<1>7. SummariesFirst(<<>>)
  BY <1>2 DEF SummariesFirst
<1>8. Shape
  <2>1. \A n \in 0..Len(<<>>) : SubSeq(<<>>, 1, n) = <<>>
    BY <1>2
  <2>2. PrefixShape(<<>>)
    BY <1>7, <2>1, ReplayEmpty DEF PrefixShape
  <2> QED
    BY <1>1, <1>7, <2>2 DEF Shape
<1>9. Matches
  BY <1>1, <1>6, ReplayEmpty DEF Matches
<1>10. AnswerInv
  BY <1>1, <1>5 DEF AnswerInv, Paired
<1>11. ReportInv
  <2>1. SubSeq(<<>>, 1, 0) = <<>>
    OBVIOUS
  <2>2. TurnsIn(SubSeq(ledger, 1, flushed)) = 0
    BY <1>1, <1>6, <2>1, Zenon
  <2> QED
    BY <1>1, <2>2 DEF ReportInv
<1>12. ContextInv
  BY <1>1, <1>5 DEF ContextInv
<1> QED
  BY <1>4, <1>8, <1>9, <1>10, <1>11, <1>12 DEF TurnInv

(* Every step, by its kind.                                                *)
LEMMA TurnSteps == TurnInv /\ [Next]_vars => TurnInv'
<1> SUFFICES ASSUME TurnInv, [Next]_vars PROVE TurnInv'
  OBVIOUS
<1>1. Typing /\ Flags /\ InFlight /\ SummariesFirst(history) /\ PrefixShape(ledger)
  BY DEF TurnInv, Shape
<1>2. /\ recorder' \in {"up", "failed"}
      /\ pc' \in {"idle", "sampling", "compacting", "tool", "flushing", "closing", "closed", "down",
              "lost"}
      /\ todo' \in Nat /\ budget' \in 0..ModelSignalBudget
      /\ restarts' \in 0..MaxRestarts /\ restarts' >= restarts
      /\ Flags'
  BY <1>1, ControlStep
<1>3. restarts' \in Nat
  BY <1>2
<1>4. \/ Keeping \/ Saying \/ \E skill \in BOOLEAN : StartTurn(skill)
      \/ CompactionDone \/ PersistRaises \/ Restart \/ Resume
  BY <1>1, StepKinds
<1>5. Held'
  BY <1>2, <1>3, <1>4, KeepingHolds, SayingHolds, StartHolds, CompactionHolds, RaisesHolds,
     RestartHolds, ResumeHolds
<1>6. Typing'
  BY <1>2, <1>5 DEF Held, Typing
<1> QED
  BY <1>2, <1>5, <1>6 DEF Held, TurnInv

(* In every reachable state of the session, over any number of turns and   *)
(* crashes: the ledger replays to the history in memory, calls and outputs *)
(* are paired, summaries come first, reported turns are flushed, and the   *)
(* initial context was injected at most once.                              *)
THEOREM TurnHolds == Spec => []TurnInv
<1>1. Init => TurnInv
  BY TurnStarts
<1>2. TurnInv /\ [Next]_vars => TurnInv'
  BY TurnSteps
<1> QED
  BY <1>1, <1>2, PTL DEF Spec

(* Every variable has its type: history, ledger, counters and control.     *)
THEOREM TypeCorrect == Spec => []TypeOK
<1>1. TurnInv => TypeOK
  <2> SUFFICES ASSUME TurnInv PROVE TypeOK
    OBVIOUS
  <2>1. ledger \in Seq(Item \union Marks \union Compactions)
    <3>1. Record \subseteq Item \union Marks \union Compactions
      BY NewIsItem DEF Record
    <3>2. ledger \in Seq(Record)
      BY DEF TurnInv, Typing
    <3> QED
      BY <3>1, <3>2, SeqMonotonic
  <2>2. metaWritten \in BOOLEAN /\ contextDone \in BOOLEAN
    BY DEF TurnInv, Flags
  <2> QED
    BY <2>1, <2>2 DEF TurnInv, Typing, TypeOK
<1> QED
  BY <1>1, TurnHolds, PTL

(* restore_session_from_rollout rebuilds what was in memory: as long as    *)
(* recording works, the ledger replays to the history and the turn count.  *)
THEOREM LedgerReplays == Spec => []ReplayMatches
<1>1. TurnInv => ReplayMatches
  BY DEF TurnInv, Matches, ReplayMatches
<1> QED
  BY <1>1, TurnHolds, PTL

(* However a turn ends -- answered, aborted, interrupted, compacted on the *)
(* way -- no tool call is left without its output.                         *)
THEOREM CallsGetOutputs == Spec => []CallsAnswered
<1>1. TurnInv => CallsAnswered
  <2> SUFFICES ASSUME TurnInv, pc = "idle", recorder = "up", restarts = 0
               PROVE  Unanswered(history) = {}
    BY DEF CallsAnswered
  <2>1. (pc = "tool") = FALSE /\ Paired(history, pc = "tool")
    BY DEF TurnInv, AnswerInv
  <2>2. Paired(history, FALSE)
    BY <2>1, Zenon
  <2>3. history \in Seq(Item)
    BY DEF TurnInv, Typing
  <2> SUFFICES ASSUME NEW i \in Indices(history, "call")
               PROVE  \E j \in Indices(history, "output") : j > i /\ history[j].id = history[i].id
    BY DEF Unanswered
  <2>4. i < Len(history) /\ history[i + 1].kind = "output" /\ history[i + 1].id = history[i].id
    BY <2>2 DEF Paired
  <2>5. i \in 1..Len(history) /\ i + 1 \in Indices(history, "output") /\ i + 1 > i
    BY <2>3, <2>4 DEF Indices
  <2> QED
    BY <2>4, <2>5
<1> QED
  BY <1>1, TurnHolds, PTL

(* A turn reported as completed is among the flushed records, which no     *)
(* crash takes away.                                                       *)
THEOREM ReportsKept == Spec => []ReportedTurnsKept
<1>1. TurnInv => ReportedTurnsKept
  BY DEF TurnInv, ReportInv, ReportedTurnsKept
<1> QED
  BY <1>1, TurnHolds, PTL

(* The initial context enters the ledger at most once, over any number of  *)
(* crashes and resumes.                                                    *)
THEOREM ContextInjectedOnce == Spec => []ContextOnce
<1>1. TurnInv => ContextOnce
  <2> SUFFICES ASSUME TurnInv PROVE ContextOnce
    OBVIOUS
  <2> DEFINE c == Indices(ledger, "context")
  <2>1. \A i, j \in c : i = j
    BY DEF TurnInv, ContextInv
  <2> HIDE DEF c
  <2>2. CASE c = {}
    <3>1. Cardinality(c) = 0
      BY <2>2, FS_EmptySet
    <3> QED
      BY <3>1 DEF ContextOnce, c
  <2>3. CASE c # {}
    <3>1. PICK i \in c : c = {i}
      BY <2>1, <2>3
    <3>2. Cardinality(c) = 1
      BY <3>1, FS_Singleton
    <3> QED
      BY <3>2 DEF ContextOnce, c
  <2> QED
    BY <2>2, <2>3
<1> QED
  BY <1>1, TurnHolds, PTL

(* No compaction swallows the summary of an earlier one: a summary stays   *)
(* in the history until the process goes down.                             *)
THEOREM SummariesKept == Spec => SummariesSurvive
<1>1. TurnInv /\ [Next]_vars
        => [pc' \notin Down => Summaries(history) \subseteq Summaries(history')]_vars
  <2> SUFFICES ASSUME TurnInv, [Next]_vars, pc' \notin Down
               PROVE  Summaries(history) \subseteq Summaries(history')
    OBVIOUS
  <2>1. Typing /\ InFlight /\ SummariesFirst(history) /\ PrefixShape(ledger)
    BY DEF TurnInv, Shape
  <2>2. \/ Keeping \/ Saying \/ \E skill \in BOOLEAN : StartTurn(skill)
        \/ CompactionDone \/ PersistRaises \/ Restart \/ Resume
    BY <2>1, StepKinds
  <2>3. history \in Seq(Item) /\ history' \in Seq(Item)
    BY <2>1, TurnSteps DEF TurnInv, Typing
  <2>4. ASSUME NEW items \in Seq(NewItem), history' = history \o items
        PROVE  Summaries(history) \subseteq Summaries(history')
    BY <2>3, <2>4, SummariesStay
  <2>5. ASSUME Keeping PROVE Summaries(history) \subseteq Summaries(history')
    BY <2>5 DEF Keeping
  <2>6. ASSUME Saying PROVE Summaries(history) \subseteq Summaries(history')
    BY <2>4, <2>6 DEF Saying, Says, Persist
  <2>7. ASSUME NEW skill \in BOOLEAN, StartTurn(skill)
        PROVE  Summaries(history) \subseteq Summaries(history')
    <3> DEFINE c == ~contextDone
               kinds == If(c, <<"context">>) \o <<"user">> \o If(skill, <<"skill">>)
    <3>1. c \in BOOLEAN
      OBVIOUS
    <3>2. kinds \in Seq(NewKinds)
      BY <3>1, StartKinds
    <3>3. history' = history \o New(kinds) /\ nextId + Len(kinds) <= MaxItems /\ nextId \in Nat
      BY <2>1, <2>7 DEF StartTurn, Fresh, Typing
    <3> HIDE DEF kinds
    <3>4. New(kinds) \in Seq(NewItem)
      BY <3>2, <3>3, NewItems
    <3> QED
      BY <2>4, <3>3, <3>4
  <2>8. ASSUME CompactionDone PROVE Summaries(history) \subseteq Summaries(history')
    <3>1. /\ history' = Replace(history, plan.from, plan.to, nextId') /\ Planned(history, plan)
          /\ plan \in [from : Nat, to : Nat]
      BY <2>1, <2>8 DEF CompactionDone, TurnInv, Shape, Typing
    <3>2. nextId' \in 0..MaxItems
      BY TurnSteps DEF TurnInv, Typing
    <3> QED
      BY <2>3, <3>1, <3>2, CompactionShape
  <2>9. ASSUME PersistRaises PROVE Summaries(history) \subseteq Summaries(history')
    BY <2>9, RaisesHistory
  <2>10. ASSUME Resume PROVE Summaries(history) \subseteq Summaries(history')
    <3>1. history = <<>>
      BY <2>1, <2>10 DEF Resume, InFlight, Down
    <3>2. Summaries(history) = {}
      BY <3>1 DEF Summaries, Indices
    <3> QED
      BY <3>2
  <2>11. ~Restart
    BY DEF Restart, AfterCrash, Down
  <2> QED
    BY <2>2, <2>5, <2>6, <2>7, <2>8, <2>9, <2>10, <2>11
<1> QED
  BY <1>1, TurnHolds, PTL DEF Spec, SummariesSurvive
===============================================================================
