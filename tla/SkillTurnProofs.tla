---------------------------- MODULE SkillTurnProofs ----------------------------
(***************************************************************************)
(* Proofs about SkillTurn, for any skills, files, texts and answers and    *)
(* any number of turns and samplings: the text of an answer comes from one *)
(* attempt, a turn gets at most one message for a name, and a skill it     *)
(* gets is the one that the name means by the rules of discovery.          *)
(***************************************************************************)
EXTENDS SkillTurn, DataInduction, SequenceTheorems, TLAPS

-------------------------------------------------------------------------------
(* The text of an answer.                                                  *)

TextInv ==
  /\ attempt \in 1..MaxAttempts
  /\ emitted \in BOOLEAN
  /\ parts \in Seq(Part)
  /\ ~emitted => parts = <<>>
  /\ TextOnce

(* An attempt that is given up has said nothing, and a message that is     *)
(* done after deltas adds nothing.                                         *)
LEMMA TextStep == ASSUME TextInv, [Next]_vars PROVE TextInv'
<1> USE DEF TextInv, TextOnce, Part
<1>1. ASSUME NewSampling PROVE TextInv'
  <2>1. attempt' = 1 /\ emitted' = FALSE /\ parts' = <<>>
    BY <1>1 DEF NewSampling
  <2>2. 1 \in 1..MaxAttempts /\ <<>> \in Seq(Part) /\ DOMAIN <<>> = {}
    BY DEF MaxAttempts
  <2>3. DOMAIN parts' = {}
    BY <2>1, <2>2
  <2> QED
    BY <2>1, <2>2, <2>3
<1>2. ASSUME UNCHANGED sampling PROVE TextInv'
  BY <1>2 DEF sampling
<1>3. ASSUME NEW p \in Part, p.attempt = attempt, emitted', UNCHANGED attempt,
             parts' = Append(parts, p),
             p.via = "item" => \A i \in DOMAIN parts : parts[i].via # "delta"
      PROVE  TextInv'
  <2>1. /\ DOMAIN parts' = 1..(Len(parts) + 1) /\ parts' \in Seq(Part)
        /\ \A i \in 1..Len(parts) : parts'[i] = parts[i]
        /\ parts'[Len(parts) + 1] = p /\ Len(parts) \in Nat /\ DOMAIN parts = 1..Len(parts)
    BY <1>3, AppendProperties
  <2>2. TextOnce'
    BY <1>3, <2>1
  <2> QED
    BY <1>3, <2>1, <2>2
<1>4. ASSUME NEW piece \in Answers, Delta(piece) PROVE TextInv'
  <2> DEFINE p == [attempt |-> attempt, via |-> "delta", text |-> piece]
  <2>1. p \in Part /\ p.attempt = attempt /\ p.via = "delta"
    OBVIOUS
  <2> HIDE DEF p, TextInv
  <2> QED
    BY <1>3, <1>4, <2>1 DEF Delta, p
<1>5. ASSUME NEW piece \in Answers, MessageDone(piece) PROVE TextInv'
  <2> DEFINE p == [attempt |-> attempt, via |-> "item", text |-> piece]
  <2>1. p \in Part /\ p.attempt = attempt /\ p.via = "item"
    OBVIOUS
  <2>2. CASE \E i \in DOMAIN parts : parts[i].via = "delta"
    BY <1>5, <2>2 DEF MessageDone
  <2>3. CASE \A i \in DOMAIN parts : parts[i].via # "delta"
    <3>1. parts' = Append(parts, p) /\ emitted' /\ UNCHANGED attempt
      BY <1>5, <2>3 DEF MessageDone
    <3> HIDE DEF p, TextInv
    <3> QED
      BY <1>3, <2>1, <2>3, <3>1
  <2> QED
    BY <2>2, <2>3
<1>6. ASSUME CallDone \/ ResponseCompleted PROVE TextInv'
  BY <1>6 DEF CallDone, ResponseCompleted
<1>7. ASSUME StreamBreaks PROVE TextInv'
  BY <1>7 DEF StreamBreaks, MaxAttempts
<1>8. ASSUME NEW text \in Texts, StartTurn(text) PROVE TextInv'
  <2>1. NewSampling
    BY <1>8 DEF StartTurn, EndTurn
  <2> QED
    BY <1>1, <2>1
<1>9. ASSUME SamplingFails \/ CallsRound \/ Answered \/ Restart PROVE TextInv'
  <2>1. NewSampling
    BY <1>9 DEF SamplingFails, CallsRound, Answered, Restart, EndTurn
  <2> QED
    BY <1>1, <2>1
<1>10. ASSUME SignalRound PROVE TextInv'
  <2>1. NewSampling
    BY <1>10 DEF SignalRound, EndTurn
  <2> QED
    BY <1>1, <2>1
<1>11. ASSUME NEW p \in Paths, NEW f \in Edited, Edit(p, f) PROVE TextInv'
  BY <1>2, <1>11 DEF Edit
<1>12. ASSUME UNCHANGED vars PROVE TextInv'
  BY <1>2, <1>12 DEF vars
<1> HIDE DEF TextInv
<1> QED
  BY <1>4, <1>5, <1>6, <1>7, <1>8, <1>9, <1>10, <1>11, <1>12 DEF Next, Stream

(* The text of an answer is what one attempt at the stream said, once,     *)
(* however often streams break and turns fail.                             *)
THEOREM AnswersSaidOnce == Spec => []TextOnce
<1>1. Init => TextInv
  <2> SUFFICES ASSUME Init PROVE TextInv
    OBVIOUS
  <2>1. attempt = 1 /\ emitted = FALSE /\ parts = <<>>
    BY DEF Init
  <2>2. 1 \in 1..MaxAttempts /\ <<>> \in Seq(Part) /\ DOMAIN parts = {}
    BY <2>1 DEF MaxAttempts
  <2> QED
    BY <2>1, <2>2 DEF TextInv, TextOnce
<1>2. TextInv => TextOnce
  BY DEF TextInv
<1> QED
  BY <1>1, <1>2, TextStep, PTL DEF Spec

-------------------------------------------------------------------------------
(* Selecting from a sequence.                                              *)

(* The selection, position by position.                                    *)
LEMMA OnlyRun ==
  ASSUME NEW R, NEW s \in Seq(R), NEW S
  PROVE  \E r : /\ r[0] = <<>>
                /\ \A k \in 1..Len(s) :
                     r[k] = IF s[k] \in S THEN Append(r[k - 1], s[k]) ELSE r[k - 1]
                /\ Only(s, S) = r[Len(s)]
<1> DEFINE n == Len(s)
           Pick(t, x) == IF x \in S THEN Append(t, x) ELSE t
           st == [p \in Seq(R) \X (1..n) |-> Pick(p[1], s[p[2]])]
           G(it) == [z \in SUBSET DOMAIN s |->
                       IF z = {} THEN <<>> ELSE Pick(it[z \ {Max(z)}], s[Max(z)])]
           it == CHOOSE i : i = G(i)
<1>1. Only(s, S) = it[DOMAIN s]
  BY Zenon DEF Only, FoldLeft, MapThenFoldSet
<1>2. n \in Nat /\ DOMAIN s = 1..n /\ \A k \in 1..n : s[k] \in R
  OBVIOUS
<1> HIDE DEF n
<1>3. \E i : i = G(i)
  <2>1. <<>> \in Seq(R) /\ st \in [Seq(R) \X (1..n) -> Seq(R)]
    BY <1>2
  <2> HIDE DEF st
  <2>2. PICK f \in [SUBSET (1..n) -> Seq(R)] : IsTableFold(f, st, <<>>, n)
    BY <1>2, <2>1, TableFold
  <2>3. ASSUME NEW z \in SUBSET (1..n), z # {}
        PROVE  st[<<f[z \ {Max(z)}], Max(z)>>] = Pick(f[z \ {Max(z)}], s[Max(z)])
    <3>1. Max(z) \in 1..n
      BY <1>2, <2>3, MaxOfPositions
    <3> QED
      BY <2>2, <3>1 DEF st
  <2> HIDE DEF Pick
  <2>4. f = G(f)
    BY <1>2, <2>2, <2>3 DEF IsTableFold
  <2> QED
    BY <2>4
<1>4. it = G(it)
  BY <1>3
<1> HIDE DEF it, Pick
<1> DEFINE r == [k \in 0..n |-> it[1..k]]
<1>5. ASSUME NEW k \in 1..n PROVE r[k] = Pick(r[k - 1], s[k])
  <2>1. 1..k \in SUBSET DOMAIN s /\ 1..k # {} /\ Max(1..k) = k
        /\ (1..k) \ {k} = 1..(k - 1)
    BY <1>2, FirstPositions
  <2>2. \A z \in SUBSET DOMAIN s :
          it[z] = IF z = {} THEN <<>> ELSE Pick(it[z \ {Max(z)}], s[Max(z)])
    BY <1>4
  <2>3. it[1..k] = Pick(it[1..(k - 1)], s[k])
    BY <2>1, <2>2
  <2> QED
    BY <1>2, <2>3
<1>6. r[0] = <<>> /\ r[n] = Only(s, S)
  BY <1>1, <1>2, <1>4
<1> HIDE DEF r
<1> QED
  BY <1>5, <1>6 DEF n, Pick

(* t consists of elements of s in S, each taken once.                      *)
Picks(t, s, S) ==
  \E g \in [DOMAIN t -> DOMAIN s] :
    /\ \A i \in DOMAIN t : s[g[i]] \in S /\ t[i] = s[g[i]]
    /\ \A i, j \in DOMAIN t : g[i] = g[j] => i = j

(* Selecting takes no element twice.                                       *)
LEMMA OnlyPicks ==
  ASSUME NEW R, NEW s \in Seq(R), NEW S
  PROVE  Only(s, S) \in Seq(R) /\ Picks(Only(s, S), s, S)
<1> DEFINE n == Len(s)
<1>1. n \in Nat /\ DOMAIN s = 1..n /\ \A k \in 1..n : s[k] \in R
  OBVIOUS
<1> HIDE DEF n
<1>2. PICK r : /\ r[0] = <<>>
               /\ \A k \in 1..n : r[k] = IF s[k] \in S THEN Append(r[k - 1], s[k]) ELSE r[k - 1]
               /\ Only(s, S) = r[n]
  BY OnlyRun DEF n
<1> DEFINE From(g, t, k) ==
             /\ g \in [DOMAIN t -> 1..k]
             /\ \A i \in DOMAIN t : s[g[i]] \in S /\ t[i] = s[g[i]]
             /\ \A i, j \in DOMAIN t : g[i] = g[j] => i = j
           Good(k) == r[k] \in Seq(R) /\ \E g : From(g, r[k], k)
           K == {k \in 0..n : Good(k)}
<1>3. 0 \in K
  <2> DEFINE g == [i \in {} |-> 0]
  <2>1. r[0] \in Seq(R) /\ DOMAIN r[0] = {}
    BY <1>2
  <2>2. From(g, r[0], 0)
    BY <2>1
  <2> HIDE DEF g, From
  <2> QED
    BY <1>1, <2>1, <2>2
<1>4. ASSUME NEW k \in 1..n, k - 1 \in K PROVE k \in K
  <2>1. r[k - 1] \in Seq(R) /\ k \in 0..n /\ s[k] \in R
    BY <1>1, <1>4
  <2>2. PICK g : From(g, r[k - 1], k - 1)
    BY <1>4
  <2> DEFINE t == r[k - 1]
             m == Len(t)
  <2>3. m \in Nat /\ DOMAIN t = 1..m
    BY <2>1
  <2>4. \A i \in 1..m : g[i] \in 1..(k - 1)
    BY <2>2, <2>3
  <2>5. CASE s[k] \in S
    <3>1. r[k] = Append(t, s[k])
      BY <1>2, <2>5
    <3>2. /\ r[k] \in Seq(R) /\ DOMAIN r[k] = 1..(m + 1) /\ r[k][m + 1] = s[k]
          /\ \A i \in 1..m : r[k][i] = t[i]
      BY <2>1, <2>3, <3>1, AppendProperties
    <3> DEFINE h == [i \in 1..(m + 1) |-> IF i = m + 1 THEN k ELSE g[i]]
    <3> HIDE DEF t, m
    <3>3. \A i \in 1..m : h[i] = g[i] /\ g[i] \in 1..(k - 1)
      BY <2>3, <2>4
    <3>4. h[m + 1] = k /\ h \in [1..(m + 1) -> 1..k]
      BY <2>3, <2>4
    <3> HIDE DEF h
    <3>5. ASSUME NEW i \in 1..(m + 1)
          PROVE  s[h[i]] \in S /\ r[k][i] = s[h[i]]
      <4>1. CASE i = m + 1
        BY <2>5, <3>2, <3>4, <4>1
      <4>2. CASE i \in 1..m
        BY <2>2, <2>3, <3>2, <3>3, <4>2 DEF t
      <4> QED
        BY <2>3, <4>1, <4>2
    <3>6. ASSUME NEW i \in 1..(m + 1), NEW j \in 1..(m + 1), h[i] = h[j] PROVE i = j
      <4>1. \A a \in 1..m : h[a] # k
        BY <2>3, <3>3
      <4>2. CASE i \in 1..m /\ j \in 1..m
        BY <2>2, <2>3, <3>3, <3>6, <4>2 DEF t
      <4> QED
        BY <2>3, <3>4, <3>6, <4>1, <4>2
    <3>7. From(h, r[k], k)
      BY <3>2, <3>4, <3>5, <3>6
    <3> HIDE DEF From
    <3> QED
      BY <2>1, <3>2, <3>7
  <2>6. CASE s[k] \notin S
    <3>1. r[k] = t
      BY <1>2, <2>6
    <3>2. g \in [DOMAIN t -> 1..k]
      BY <2>2, <2>3, <2>4
    <3>3. From(g, t, k)
      BY <2>2, <3>2
    <3> HIDE DEF From
    <3> QED
      BY <2>1, <3>1, <3>3
  <2> QED
    BY <2>5, <2>6
<1>5. n \in K
  <2> HIDE DEF K
  <2> QED
    BY <1>1, <1>3, <1>4, EveryStep
<1> QED
  BY <1>1, <1>2, <1>5 DEF Picks

(* Two selections that exclude each other, one after the other.            *)
LEMMA JoinPicks ==
  ASSUME NEW R, NEW s \in Seq(R), NEW a \in Seq(R), NEW b \in Seq(R), NEW S, NEW T,
         Picks(a, s, S), Picks(b, s, T), S \intersect T = {}
  PROVE  a \o b \in Seq(R) /\ Picks(a \o b, s, S \union T)
<1> DEFINE m == Len(a)
           n == Len(b)
           c == a \o b
<1>1. /\ m \in Nat /\ n \in Nat /\ DOMAIN a = 1..m /\ DOMAIN b = 1..n
      /\ c \in Seq(R) /\ DOMAIN c = 1..(m + n)
      /\ \A i \in 1..(m + n) : c[i] = IF i <= m THEN a[i] ELSE b[i - m]
  BY ConcatProperties
<1> HIDE DEF m, n, c
<1>10. DOMAIN a = 1..m /\ DOMAIN b = 1..n
  BY <1>1
<1>2. PICK g \in [1..m -> DOMAIN s] :
        /\ \A i \in 1..m : s[g[i]] \in S /\ a[i] = s[g[i]]
        /\ \A i, j \in 1..m : g[i] = g[j] => i = j
  <2>1. \E g \in [DOMAIN a -> DOMAIN s] :
          /\ \A i \in DOMAIN a : s[g[i]] \in S /\ a[i] = s[g[i]]
          /\ \A i, j \in DOMAIN a : g[i] = g[j] => i = j
    BY DEF Picks
  <2> QED
    BY <1>10, <2>1
<1>3. PICK h \in [1..n -> DOMAIN s] :
        /\ \A i \in 1..n : s[h[i]] \in T /\ b[i] = s[h[i]]
        /\ \A i, j \in 1..n : h[i] = h[j] => i = j
  <2>1. \E h \in [DOMAIN b -> DOMAIN s] :
          /\ \A i \in DOMAIN b : s[h[i]] \in T /\ b[i] = s[h[i]]
          /\ \A i, j \in DOMAIN b : h[i] = h[j] => i = j
    BY DEF Picks
  <2> QED
    BY <1>10, <2>1
<1> DEFINE f == [i \in 1..(m + n) |-> IF i <= m THEN g[i] ELSE h[i - m]]
<1>4. ASSUME NEW i \in 1..(m + n)
      PROVE  \/ i \in 1..m /\ f[i] = g[i] /\ c[i] = a[i]
             \/ ~(i <= m) /\ i - m \in 1..n /\ f[i] = h[i - m] /\ c[i] = b[i - m]
  BY <1>1
<1>5. f \in [1..(m + n) -> DOMAIN s]
  <2>1. \A i \in 1..(m + n) : f[i] \in DOMAIN s
    <3> HIDE DEF f
    <3> QED
      BY <1>2, <1>3, <1>4
  <2> QED
    BY <2>1
<1> HIDE DEF f
<1>6. \A i \in 1..(m + n) : s[f[i]] \in S \union T /\ c[i] = s[f[i]]
  BY <1>2, <1>3, <1>4
<1>7. ASSUME NEW i \in 1..(m + n), NEW j \in 1..(m + n), f[i] = f[j] PROVE i = j
  <2>1. CASE i \in 1..m /\ j \in 1..m
    <3>1. f[i] = g[i] /\ f[j] = g[j]
      BY <1>1, <1>4, <2>1
    <3> QED
      BY <1>2, <1>7, <2>1, <3>1
  <2>2. CASE ~(i <= m) /\ ~(j <= m)
    <3>1. i - m \in 1..n /\ j - m \in 1..n /\ f[i] = h[i - m] /\ f[j] = h[j - m]
      BY <1>1, <1>4, <2>2
    <3>2. i - m = j - m
      BY <1>3, <1>7, <3>1
    <3> QED
      BY <1>1, <3>2
  <2>3. \A k \in 1..(m + n) : (k \in 1..m => s[f[k]] \in S) /\ (~(k <= m) => s[f[k]] \in T)
    BY <1>1, <1>2, <1>3, <1>4
  <2> QED
    BY <1>1, <1>7, <2>1, <2>2, <2>3
<1>8. c \in Seq(R) /\ DOMAIN c = 1..(m + n)
  BY <1>1
<1>9. Picks(c, s, S \union T)
  <2> DEFINE D == 1..(m + n)
  <2>1. /\ f \in [D -> DOMAIN s] /\ DOMAIN c = D
        /\ \A i \in D : s[f[i]] \in S \union T /\ c[i] = s[f[i]]
        /\ \A i, j \in D : f[i] = f[j] => i = j
    BY <1>5, <1>6, <1>7, <1>8
  <2> HIDE DEF D
  <2>2. \E k \in [D -> DOMAIN s] :
          /\ \A i \in D : s[k[i]] \in S \union T /\ c[i] = s[k[i]]
          /\ \A i, j \in D : k[i] = k[j] => i = j
    BY <2>1
  <2>3. \E k \in [DOMAIN c -> DOMAIN s] :
          /\ \A i \in DOMAIN c : s[k[i]] \in S \union T /\ c[i] = s[k[i]]
          /\ \A i, j \in DOMAIN c : k[i] = k[j] => i = j
    BY <2>1, <2>2
  <2> QED
    BY <2>3 DEF Picks
<1> QED
  BY <1>8, <1>9 DEF c

-------------------------------------------------------------------------------
(* The names in a text.                                                    *)

Mention(ms, o) == IF o.code \/ o.name \in ToSet(ms) THEN ms ELSE Append(ms, o.name)

(* Mentions, one occurrence at a time.                                     *)
LEMMA MentionsRun ==
  ASSUME NEW text \in Seq(Occurrence)
  PROVE  \E r : /\ r[0] = <<>>
                /\ \A k \in 1..Len(text) : r[k] = Mention(r[k - 1], text[k])
                /\ Mentions(text) = r[Len(text)]
<1> DEFINE n == Len(text)
           st == [p \in Seq(Names) \X (1..n) |-> Mention(p[1], text[p[2]])]
           G(it) == [z \in SUBSET DOMAIN text |->
                       IF z = {} THEN <<>> ELSE Mention(it[z \ {Max(z)}], text[Max(z)])]
           it == CHOOSE i : i = G(i)
<1>1. Mentions(text) = it[DOMAIN text]
  BY Zenon DEF Mentions, FoldLeft, MapThenFoldSet, Mention
<1>2. n \in Nat /\ DOMAIN text = 1..n /\ \A k \in 1..n : text[k].name \in Names
  <2>1. \A k \in DOMAIN text : text[k] \in Occurrence
    OBVIOUS
  <2> QED
    BY <2>1 DEF Occurrence
<1> HIDE DEF n
<1>3. \E i : i = G(i)
  <2>1. <<>> \in Seq(Names) /\ st \in [Seq(Names) \X (1..n) -> Seq(Names)]
    BY <1>2 DEF Mention
  <2> HIDE DEF st
  <2>2. PICK f \in [SUBSET (1..n) -> Seq(Names)] : IsTableFold(f, st, <<>>, n)
    BY <1>2, <2>1, TableFold
  <2>3. ASSUME NEW z \in SUBSET (1..n), z # {}
        PROVE  st[<<f[z \ {Max(z)}], Max(z)>>] = Mention(f[z \ {Max(z)}], text[Max(z)])
    <3>1. Max(z) \in 1..n
      BY <1>2, <2>3, MaxOfPositions
    <3> QED
      BY <2>2, <3>1 DEF st
  <2>4. f = G(f)
    BY <1>2, <2>2, <2>3 DEF IsTableFold
  <2> QED
    BY <2>4
<1>4. it = G(it)
  BY <1>3
<1> HIDE DEF it
<1> DEFINE r == [k \in 0..n |-> it[1..k]]
<1>5. ASSUME NEW k \in 1..n PROVE r[k] = Mention(r[k - 1], text[k])
  <2>1. 1..k \in SUBSET DOMAIN text /\ 1..k # {} /\ Max(1..k) = k
        /\ (1..k) \ {k} = 1..(k - 1)
    BY <1>2, FirstPositions
  <2>2. \A z \in SUBSET DOMAIN text :
          it[z] = IF z = {} THEN <<>> ELSE Mention(it[z \ {Max(z)}], text[Max(z)])
    BY <1>4
  <2>3. it[1..k] = Mention(it[1..(k - 1)], text[k])
    BY <2>1, <2>2
  <2> QED
    BY <1>2, <2>3
<1>6. r[0] = <<>> /\ r[n] = Mentions(text)
  BY <1>1, <1>2, <1>4
<1> HIDE DEF r
<1> QED
  BY <1>5, <1>6 DEF n

(* Names outside of code.                                                  *)
AskedIn(text) == {text[i].name : i \in {j \in DOMAIN text : ~text[j].code}}

(* Each name is mentioned once, and stands in the text outside of code.    *)
LEMMA MentionsOnce ==
  ASSUME NEW text \in Seq(Occurrence)
  PROVE  /\ Mentions(text) \in Seq(Names)
         /\ IsInjective(Mentions(text))
         /\ \A i \in DOMAIN Mentions(text) : Mentions(text)[i] \in AskedIn(text)
<1> DEFINE n == Len(text)
           heard == AskedIn(text)
           Good(ms) == /\ ms \in Seq(Names)
                       /\ \A i, j \in DOMAIN ms : ms[i] = ms[j] => i = j
                       /\ \A i \in DOMAIN ms : ms[i] \in heard
<1>1. n \in Nat /\ DOMAIN text = 1..n /\ \A k \in 1..n : text[k].name \in Names
  <2>1. \A k \in DOMAIN text : text[k] \in Occurrence
    OBVIOUS
  <2> QED
    BY <2>1 DEF Occurrence
<1>2. \A k \in 1..n : text[k].code \/ text[k].name \in heard
  BY <1>1 DEF AskedIn, Occurrence
<1> HIDE DEF n, heard
<1>3. PICK r : /\ r[0] = <<>>
               /\ \A k \in 1..n : r[k] = Mention(r[k - 1], text[k])
               /\ Mentions(text) = r[n]
  BY MentionsRun DEF n
<1> DEFINE K == {k \in 0..n : Good(r[k])}
<1>4. 0 \in K
  <2>1. r[0] \in Seq(Names) /\ DOMAIN r[0] = {}
    BY <1>3
  <2> QED
    BY <1>1, <2>1
<1>5. ASSUME NEW k \in 1..n, k - 1 \in K PROVE k \in K
  <2> DEFINE ms == r[k - 1]
             m == Len(ms)
             x == text[k].name
  <2>1. Good(ms) /\ k \in 0..n /\ m \in Nat /\ DOMAIN ms = 1..m /\ x \in Names
    BY <1>1, <1>5
  <2>2. CASE text[k].code \/ x \in ToSet(ms)
    <3>1. r[k] = ms
      BY <1>3, <2>2 DEF Mention
    <3> HIDE DEF ms, Good
    <3> QED
      BY <2>1, <3>1
  <2>3. CASE ~text[k].code /\ x \notin ToSet(ms)
    <3>1. r[k] = Append(ms, x)
      BY <1>3, <2>3 DEF Mention
    <3>2. \A i \in 1..m : ms[i] # x
      BY <2>1, <2>3 DEF ToSet
    <3>3. x \in heard
      BY <1>2, <2>3
    <3> HIDE DEF ms, m, x
    <3>4. /\ r[k] \in Seq(Names) /\ DOMAIN r[k] = 1..(m + 1) /\ r[k][m + 1] = x
          /\ \A i \in 1..m : r[k][i] = ms[i]
      BY <2>1, <3>1, AppendProperties DEF m
    <3>5. \A i \in 1..(m + 1) : i = m + 1 \/ i \in 1..m
      BY <2>1
    <3>6. Good(r[k])
      BY <2>1, <3>2, <3>3, <3>4, <3>5
    <3> HIDE DEF Good
    <3> QED
      BY <2>1, <3>6
  <2> QED
    BY <2>2, <2>3
<1>6. n \in K
  <2> HIDE DEF K
  <2>1. \A k \in 0..n : k \in K
    BY <1>1, <1>4, <1>5, EveryStep
  <2> QED
    BY <1>1, <2>1
<1> QED
  BY <1>3, <1>6 DEF IsInjective, heard

-------------------------------------------------------------------------------
(* Where skills are looked for.                                            *)

Scopes == {"repo", "user", "system"}

Root == [dir : Dirs, scope : Scopes]

Place == [path : Paths, scope : Scopes]

(* Scopes come in their order of precedence.                               *)
Ordered(s) == \A i, j \in DOMAIN s : i <= j => Rank(s[i].scope) <= Rank(s[j].scope)

(* The ranks are numbers.                                                  *)
LEMMA Ranks == Rank("repo") = 1 /\ Rank("user") = 2 /\ Rank("system") = 3
BY Zenon DEF Rank

(* The roots of the three scopes, as configured.                           *)
RootsOf(layout0, scope) ==
  [i \in DOMAIN layout0[scope] |-> [dir |-> layout0[scope][i], scope |-> scope]]

AllRoots(layout0) ==
  RootsOf(layout0, "repo") \o RootsOf(layout0, "user") \o RootsOf(layout0, "system")

(* The roots of all scopes are in the order of their scopes.               *)
LEMMA AllOrdered ==
  ASSUME NEW l \in Layout
  PROVE  AllRoots(l) \in Seq(Root) /\ Ordered(AllRoots(l))
<1> DEFINE a == RootsOf(l, "repo")
           b == RootsOf(l, "user")
           c == RootsOf(l, "system")
           m == Len(a)
           n == Len(b)
           q == Len(c)
<1>1. ASSUME NEW scope \in Scopes
      PROVE  /\ RootsOf(l, scope) \in Seq(Root)
             /\ \A i \in DOMAIN RootsOf(l, scope) : RootsOf(l, scope)[i].scope = scope
  <2>1. l[scope] \in Seq(Dirs)
    BY DEF Layout, Scopes
  <2> DEFINE d == l[scope]
  <2> HIDE DEF d
  <2>2. d \in Seq(Dirs) /\ RootsOf(l, scope) = [i \in DOMAIN d |-> [dir |-> d[i], scope |-> scope]]
    BY <2>1 DEF d, RootsOf
  <2>3. Len(d) \in Nat /\ DOMAIN d = 1..Len(d) /\ \A i \in 1..Len(d) : d[i] \in Dirs
    BY <2>2
  <2> QED
    BY <2>2, <2>3 DEF Root
<1>2. /\ a \in Seq(Root) /\ b \in Seq(Root) /\ c \in Seq(Root)
      /\ \A i \in DOMAIN a : a[i].scope = "repo"
      /\ \A i \in DOMAIN b : b[i].scope = "user"
      /\ \A i \in DOMAIN c : c[i].scope = "system"
  BY <1>1 DEF Scopes
<1> DEFINE ab == a \o b
           all == ab \o c
<1>3. AllRoots(l) = all
  BY DEF AllRoots
<1> HIDE DEF a, b, c
<1>4. /\ m \in Nat /\ n \in Nat /\ q \in Nat
      /\ DOMAIN a = 1..m /\ DOMAIN b = 1..n /\ DOMAIN c = 1..q
      /\ ab \in Seq(Root) /\ Len(ab) = m + n
      /\ \A i \in 1..(m + n) : ab[i] = IF i <= m THEN a[i] ELSE b[i - m]
  BY <1>2, ConcatProperties
<1> HIDE DEF ab
<1>5. /\ all \in Seq(Root) /\ DOMAIN all = 1..(m + n + q)
      /\ \A i \in 1..(m + n + q) : all[i] = IF i <= m + n THEN ab[i] ELSE c[i - (m + n)]
  <2>1. /\ all \in Seq(Root) /\ Len(all) = Len(ab) + Len(c)
        /\ \A i \in 1..(Len(ab) + Len(c)) : all[i] = IF i <= Len(ab) THEN ab[i] ELSE c[i - Len(ab)]
    BY <1>2, <1>4, ConcatProperties
  <2> HIDE DEF all
  <2>2. DOMAIN all = 1..Len(all)
    BY <2>1
  <2> QED
    BY <1>4, <2>1, <2>2
<1> HIDE DEF all, m, n, q
<1>6. ASSUME NEW i \in 1..(m + n + q)
      PROVE  all[i].scope = IF i <= m THEN "repo" ELSE IF i <= m + n THEN "user" ELSE "system"
  <2>1. CASE i <= m
    <3>1. i \in 1..m /\ i \in 1..(m + n) /\ i <= m + n
      BY <1>4, <2>1
    <3>2. all[i] = a[i]
      BY <1>4, <1>5, <2>1, <3>1
    <3> QED
      BY <1>2, <1>4, <2>1, <3>1, <3>2
  <2>2. CASE ~(i <= m) /\ i <= m + n
    <3>1. i - m \in 1..n /\ i \in 1..(m + n)
      BY <1>4, <2>2
    <3>2. all[i] = b[i - m]
      BY <1>4, <1>5, <2>2, <3>1
    <3> QED
      BY <1>2, <1>4, <2>2, <3>1, <3>2
  <2>3. CASE ~(i <= m + n)
    <3>1. i - (m + n) \in 1..q /\ ~(i <= m)
      BY <1>4, <2>3
    <3>2. all[i] = c[i - (m + n)]
      BY <1>5, <2>3
    <3> QED
      BY <1>2, <1>4, <2>3, <3>1, <3>2
  <2> QED
    BY <1>4, <2>1, <2>2, <2>3
<1>7. Ordered(all)
  <2> SUFFICES ASSUME NEW i \in 1..(m + n + q), NEW j \in 1..(m + n + q), i <= j
               PROVE  Rank(all[i].scope) <= Rank(all[j].scope)
    BY <1>5 DEF Ordered
  <2> QED
    BY <1>4, <1>6, Ranks
<1> QED
  BY <1>3, <1>5, <1>7

AddRoot(roots, r) ==
  IF \E i \in DOMAIN roots : roots[i].dir = r.dir THEN roots ELSE Append(roots, r)

(* Roots, one root at a time.                                              *)
LEMMA RootsRun ==
  ASSUME NEW l \in Layout
  PROVE  \E r : /\ r[0] = <<>>
                /\ \A k \in 1..Len(AllRoots(l)) : r[k] = AddRoot(r[k - 1], AllRoots(l)[k])
                /\ Roots(l) = r[Len(AllRoots(l))]
<1> DEFINE all == AllRoots(l)
           n == Len(all)
           st == [p \in Seq(Root) \X (1..n) |-> AddRoot(p[1], all[p[2]])]
           G(it) == [z \in SUBSET DOMAIN all |->
                       IF z = {} THEN <<>> ELSE AddRoot(it[z \ {Max(z)}], all[Max(z)])]
           it == CHOOSE i : i = G(i)
<1>1. Roots(l) = it[DOMAIN all]
  BY Zenon DEF Roots, FoldLeft, MapThenFoldSet, AddRoot, AllRoots, RootsOf
<1>2. n \in Nat /\ DOMAIN all = 1..n /\ \A k \in 1..n : all[k] \in Root
  <2>1. all \in Seq(Root)
    BY AllOrdered
  <2> HIDE DEF all
  <2> QED
    BY <2>1
<1> HIDE DEF n, all
<1>3. \E i : i = G(i)
  <2>1. <<>> \in Seq(Root) /\ st \in [Seq(Root) \X (1..n) -> Seq(Root)]
    BY <1>2 DEF AddRoot
  <2> HIDE DEF st
  <2>2. PICK f \in [SUBSET (1..n) -> Seq(Root)] : IsTableFold(f, st, <<>>, n)
    BY <1>2, <2>1, TableFold
  <2>3. ASSUME NEW z \in SUBSET (1..n), z # {}
        PROVE  st[<<f[z \ {Max(z)}], Max(z)>>] = AddRoot(f[z \ {Max(z)}], all[Max(z)])
    <3>1. Max(z) \in 1..n
      BY <1>2, <2>3, MaxOfPositions
    <3> QED
      BY <2>2, <3>1 DEF st
  <2>4. f = G(f)
    BY <1>2, <2>2, <2>3 DEF IsTableFold
  <2> QED
    BY <2>4
<1>4. it = G(it)
  BY <1>3
<1> HIDE DEF it
<1> DEFINE r == [k \in 0..n |-> it[1..k]]
<1>5. ASSUME NEW k \in 1..n PROVE r[k] = AddRoot(r[k - 1], all[k])
  <2>1. 1..k \in SUBSET DOMAIN all /\ 1..k # {} /\ Max(1..k) = k
        /\ (1..k) \ {k} = 1..(k - 1)
    BY <1>2, FirstPositions
  <2>2. \A z \in SUBSET DOMAIN all :
          it[z] = IF z = {} THEN <<>> ELSE AddRoot(it[z \ {Max(z)}], all[Max(z)])
    BY <1>4
  <2>3. it[1..k] = AddRoot(it[1..(k - 1)], all[k])
    BY <2>1, <2>2
  <2> QED
    BY <1>2, <2>3
<1>6. r[0] = <<>> /\ r[n] = Roots(l)
  BY <1>1, <1>2, <1>4
<1> HIDE DEF r
<1> QED
  BY <1>5, <1>6 DEF n, all

(* The roots are in order of precedence.                                   *)
LEMMA RootsOrdered ==
  ASSUME NEW l \in Layout
  PROVE  Roots(l) \in Seq(Root) /\ Ordered(Roots(l))
<1> DEFINE all == AllRoots(l)
           n == Len(all)
<1>1. all \in Seq(Root) /\ Ordered(all)
  BY AllOrdered
<1> HIDE DEF all
<1>2. n \in Nat /\ DOMAIN all = 1..n /\ \A k \in 1..n : all[k] \in Root
  BY <1>1
<1> HIDE DEF n
<1>3. PICK r : /\ r[0] = <<>>
               /\ \A k \in 1..n : r[k] = AddRoot(r[k - 1], all[k])
               /\ Roots(l) = r[n]
  BY RootsRun DEF n, all
<1> DEFINE Good(s, k) ==
             /\ s \in Seq(Root)
             /\ Ordered(s)
             /\ \A i \in DOMAIN s : \E j \in 1..k : s[i] = all[j]
           K == {k \in 0..n : Good(r[k], k)}
<1>4. 0 \in K
  <2>1. r[0] \in Seq(Root) /\ DOMAIN r[0] = {}
    BY <1>3
  <2> QED
    BY <1>2, <2>1 DEF Ordered
<1>5. ASSUME NEW k \in 1..n, k - 1 \in K PROVE k \in K
  <2> DEFINE s == r[k - 1]
             m == Len(s)
             x == all[k]
  <2>1. Good(s, k - 1) /\ k \in 0..n /\ k \in 1..k /\ x \in Root
    BY <1>2, <1>5
  <2>2. m \in Nat /\ DOMAIN s = 1..m
    BY <2>1
  <2>3. r[k] = s \/ r[k] = Append(s, x)
    BY <1>3 DEF AddRoot
  <2> HIDE DEF s
  <2>4. CASE r[k] = s
    <3>1. \A i \in DOMAIN s : \E j \in 1..k : s[i] = all[j]
      BY <1>2, <2>1
    <3> QED
      BY <2>1, <2>4, <3>1
  <2>5. CASE r[k] = Append(s, x)
    <3>1. /\ r[k] \in Seq(Root) /\ DOMAIN r[k] = 1..(m + 1) /\ r[k][m + 1] = x
          /\ \A i \in 1..m : r[k][i] = s[i]
      BY <2>1, <2>2, <2>5, AppendProperties
    <3> HIDE DEF m, x
    <3>2. ASSUME NEW i \in 1..m PROVE \E j \in 1..k : s[i] = all[j] /\ j <= k
      BY <1>2, <2>1, <2>2
    <3>3. \A i \in DOMAIN r[k] : \E j \in 1..k : r[k][i] = all[j]
      <4> SUFFICES ASSUME NEW i \in 1..(m + 1) PROVE \E j \in 1..k : r[k][i] = all[j]
        BY <3>1
      <4>1. CASE i \in 1..m
        BY <3>1, <3>2, <4>1
      <4>2. CASE i = m + 1
        BY <2>1, <3>1, <4>2 DEF x
      <4> QED
        BY <2>2, <4>1, <4>2
    <3>4. \A i \in 1..m : Rank(s[i].scope) <= Rank(x.scope)
      BY <1>1, <1>2, <3>2 DEF Ordered, x
    <3>5. \A i \in 1..(m + 1) : i \in 1..m \/ i = m + 1
      BY <2>2
    <3>6. Rank(x.scope) <= Rank(x.scope)
      BY <2>1, Ranks DEF Root, Scopes
    <3>7. ASSUME NEW i \in 1..(m + 1), NEW j \in 1..(m + 1), i <= j
          PROVE  Rank(r[k][i].scope) <= Rank(r[k][j].scope)
      <4>1. CASE j \in 1..m
        <5>1. i \in 1..m
          BY <2>2, <3>7, <4>1
        <5> QED
          BY <2>1, <2>2, <3>1, <3>7, <4>1, <5>1 DEF Ordered
      <4>2. CASE j = m + 1
        BY <3>1, <3>4, <3>5, <3>6, <4>2
      <4> QED
        BY <3>5, <4>1, <4>2
    <3> QED
      BY <2>1, <3>1, <3>3, <3>7 DEF Ordered
  <2> QED
    BY <2>3, <2>4, <2>5
<1>6. n \in K
  <2> HIDE DEF K
  <2>1. \A k \in 0..n : k \in K
    BY <1>2, <1>4, <1>5, EveryStep
  <2> QED
    BY <1>2, <2>1
<1> QED
  BY <1>3, <1>6

(* Blocks that come in order, of one scope each, are in order one after    *)
(* the other.                                                              *)
LEMMA FlatOrdered ==
  ASSUME NEW roots \in Seq(Root), Ordered(roots), NEW b, DOMAIN b = DOMAIN roots,
         \A i \in DOMAIN roots : b[i] \in Seq(Place),
         \A i \in DOMAIN roots : \A j \in DOMAIN b[i] : b[i][j].scope = roots[i].scope,
         Len(b) = Len(roots), Len(roots) = 0 => b = <<>>
  PROVE  FlattenSeq(b) \in Seq(Place) /\ Ordered(FlattenSeq(b))
<1> DEFINE n == Len(roots)
<1>1. n \in Nat /\ DOMAIN roots = 1..n
  OBVIOUS
<1>2. CASE n = 0
  <2>1. FlattenSeq(b) = b /\ b = <<>>
    BY <1>2 DEF FlattenSeq
  <2>2. <<>> \in Seq(Place) /\ DOMAIN <<>> = {}
    OBVIOUS
  <2> QED
    BY <2>1, <2>2 DEF Ordered
<1>3. CASE n # 0
  <2>1. PICK f : IsFlat(f, b, n) /\ FlattenSeq(b) = f[n]
    BY <1>1, <1>3, FlattenIsFlat
  <2> HIDE DEF n
  <2>2. ASSUME NEW k \in 1..n PROVE f[k] = IF k = 1 THEN b[k] ELSE f[k - 1] \o b[k]
    BY <2>1 DEF IsFlat
  <2> DEFINE Good(s, k) ==
               /\ s \in Seq(Place)
               /\ Ordered(s)
               /\ \A i \in DOMAIN s : \E j \in 1..k : s[i].scope = roots[j].scope
             K == {k \in 0..n : k = 0 \/ Good(f[k], k)}
  <2>3. 0 \in K
    BY <1>1
  <2>4. ASSUME NEW k \in 1..n PROVE Good(b[k], k)
    <3>1. \A i \in DOMAIN b[k] : b[k][i].scope = roots[k].scope
      BY <1>1
    <3>2. Rank(roots[k].scope) <= Rank(roots[k].scope)
      <4>1. roots[k] \in Root
        BY <1>1
      <4> QED
        BY <4>1, Ranks DEF Root, Scopes
    <3>3. k \in 1..k /\ b[k] \in Seq(Place)
      BY <1>1
    <3> QED
      BY <3>1, <3>2, <3>3 DEF Ordered
  <2>5. ASSUME NEW k \in 1..n, k - 1 \in K PROVE k \in K
    <3>1. CASE k = 1
      <4>1. f[k] = b[k] /\ k \in 0..n
        BY <1>1, <2>2, <3>1
      <4>2. Good(b[k], k)
        BY <2>4
      <4> HIDE DEF Good
      <4> QED
        BY <4>1, <4>2
    <3>2. CASE k # 1
      <4> DEFINE s == f[k - 1]
                 y == b[k]
                 t == s \o y
      <4>1. Good(s, k - 1) /\ f[k] = t /\ y \in Seq(Place)
            /\ \A i \in DOMAIN y : y[i].scope = roots[k].scope
        <5>1. k - 1 # 0 /\ f[k] = t /\ k \in DOMAIN roots
          <6> HIDE DEF Good, K
          <6>1. k - 1 # 0 /\ k \in DOMAIN roots
            BY <1>1, <3>2
          <6>2. f[k] = f[k - 1] \o b[k]
            BY <2>2, <3>2
          <6> QED
            BY <6>1, <6>2
        <5>2. Good(s, k - 1)
          <6> HIDE DEF Good
          <6> QED
            BY <2>5, <5>1
        <5> HIDE DEF Good
        <5> QED
          BY <5>1, <5>2
      <4> HIDE DEF s, y
      <4>2. /\ t \in Seq(Place) /\ Len(t) = Len(s) + Len(y) /\ Len(s) \in Nat /\ Len(y) \in Nat
            /\ DOMAIN s = 1..Len(s) /\ DOMAIN y = 1..Len(y)
            /\ \A i \in 1..(Len(s) + Len(y)) : t[i] = IF i <= Len(s) THEN s[i] ELSE y[i - Len(s)]
        BY <4>1, ConcatProperties
      <4> DEFINE m == Len(s)
                 q == Len(y)
      <4> HIDE DEF t
      <4>3. DOMAIN t = 1..(m + q)
        BY <4>2
      <4> HIDE DEF m, q
      <4>4. ASSUME NEW i \in 1..(m + q)
            PROVE  \/ i \in 1..m /\ t[i] = s[i]
                   \/ ~(i <= m) /\ t[i].scope = roots[k].scope
        <5>1. CASE i <= m
          BY <4>2, <5>1 DEF m, q
        <5>2. CASE ~(i <= m)
          <6>1. m \in Nat /\ q \in Nat
            BY <4>2 DEF m, q
          <6>2. i - m \in 1..q
            BY <5>2, <6>1
          <6>3. t[i] = y[i - m]
            BY <4>2, <5>2 DEF m, q
          <6> QED
            BY <4>1, <4>2, <5>2, <6>2, <6>3 DEF q
        <5> QED
          BY <5>1, <5>2
      <4>5. ASSUME NEW i \in 1..m
            PROVE  /\ \E j \in 1..k : s[i].scope = roots[j].scope
                   /\ Rank(s[i].scope) <= Rank(roots[k].scope)
        <5>1. PICK j \in 1..(k - 1) : s[i].scope = roots[j].scope
          BY <4>1, <4>2 DEF m
        <5>2. j \in 1..k /\ j \in 1..n /\ j <= k
          BY <1>1
        <5> QED
          BY <1>1, <5>1, <5>2 DEF Ordered
      <4>6. \A i \in DOMAIN t : \E j \in 1..k : t[i].scope = roots[j].scope
        <5>1. k \in 1..k
          BY <1>1
        <5> QED
          BY <4>3, <4>4, <4>5, <5>1
      <4>7. Ordered(t)
        <5> SUFFICES ASSUME NEW i \in 1..(m + q), NEW j \in 1..(m + q), i <= j
                     PROVE  Rank(t[i].scope) <= Rank(t[j].scope)
          BY <4>3 DEF Ordered
        <5>1. CASE i \in 1..m /\ j \in 1..m
          <6>1. t[i] = s[i] /\ t[j] = s[j]
            BY <4>4, <5>1
          <6>2. i \in DOMAIN s /\ j \in DOMAIN s
            BY <4>2, <5>1 DEF m
          <6> QED
            BY <4>1, <6>1, <6>2 DEF Ordered
        <5>2. CASE i \in 1..m /\ ~(j <= m)
          BY <4>4, <4>5, <5>2
        <5>3. CASE ~(i <= m) /\ ~(j <= m)
          <6>1. Rank(roots[k].scope) <= Rank(roots[k].scope)
            <7>1. roots[k] \in Root
              BY <1>1
            <7> QED
              BY <7>1, Ranks DEF Root, Scopes
          <6> QED
            BY <4>4, <5>3, <6>1
        <5> QED
          BY <4>2, <5>1, <5>2, <5>3 DEF m
      <4>8. k \in 0..n
        OBVIOUS
      <4> QED
        BY <4>1, <4>2, <4>6, <4>7, <4>8
    <3> QED
      BY <3>1, <3>2
  <2>6. n \in K
    <3> HIDE DEF K
    <3>1. \A k \in 0..n : k \in K
      BY <1>1, <2>3, <2>5, EveryStep
    <3> QED
      BY <1>1, <3>1
  <2> QED
    BY <1>3, <2>1, <2>6
<1> QED
  BY <1>2, <1>3

(* A scan finds places, those of higher precedence first.                  *)
LEMMA ScanOrdered ==
  ASSUME NEW l \in Layout
  PROVE  Scan(l) \in Seq(Place) /\ Ordered(Scan(l))
<1> DEFINE roots == Roots(l)
           tagged(r) == [i \in DOMAIN Under[r.dir] |->
                           [path |-> Under[r.dir][i], scope |-> r.scope]]
           b == [i \in DOMAIN roots |-> tagged(roots[i])]
<1>1. roots \in Seq(Root) /\ Ordered(roots)
  BY RootsOrdered
<1>2. Scan(l) = FlattenSeq(b)
  BY Zenon DEF Scan
<1> HIDE DEF roots
<1>3. ASSUME NEW r \in Root
      PROVE  tagged(r) \in Seq(Place) /\ \A j \in DOMAIN tagged(r) : tagged(r)[j].scope = r.scope
  <2> DEFINE u == Under[r.dir]
  <2>1. u \in Seq(Paths) /\ r.scope \in Scopes
    BY SkillsAssumption DEF Root
  <2> HIDE DEF u
  <2>2. Len(u) \in Nat /\ DOMAIN u = 1..Len(u) /\ \A i \in 1..Len(u) : u[i] \in Paths
    BY <2>1
  <2>3. tagged(r) = [i \in DOMAIN u |-> [path |-> u[i], scope |-> r.scope]]
    BY DEF u
  <2> HIDE DEF tagged
  <2> QED
    BY <2>1, <2>2, <2>3 DEF Place
<1> HIDE DEF tagged
<1>4. /\ DOMAIN roots = 1..Len(roots) /\ Len(roots) \in Nat
      /\ \A i \in DOMAIN roots : roots[i] \in Root
  BY <1>1
<1>5. /\ DOMAIN b = DOMAIN roots
      /\ \A i \in DOMAIN roots : b[i] \in Seq(Place)
      /\ \A i \in DOMAIN roots : \A j \in DOMAIN b[i] : b[i][j].scope = roots[i].scope
  BY <1>3, <1>4
<1>6. Len(b) = Len(roots) /\ (Len(roots) = 0 => b = <<>>)
  BY <1>3, <1>4
<1> HIDE DEF b
<1> QED
  BY <1>1, <1>2, <1>5, <1>6, FlatOrdered

-------------------------------------------------------------------------------
(* What discovery keeps.                                                   *)

Kept == [name : Names, path : Paths, scope : Scopes, off : BOOLEAN, needs : BOOLEAN]

Findings == [paths : SUBSET Paths, kept : SUBSET Kept, ambiguous : SUBSET Names]

Nothing == [paths |-> {}, kept |-> {}, ambiguous |-> {}]

Disks == [Paths -> File]

Visited(d, found, f) ==
  LET file == d[f.path]
      seen == [found EXCEPT !.paths = @ \union {f.path}]
  IN  IF file.state = "absent" \/ f.path \in found.paths THEN found
      ELSE IF file.state = "malformed" THEN seen
      ELSE Keep(seen, [name |-> file.name, path |-> f.path, scope |-> f.scope,
                       off |-> file.off, needs |-> file.needs])

(* The skill a good file holds.                                            *)
SkillAt(d, f) == [name |-> d[f.path].name, path |-> f.path, scope |-> f.scope,
                  off |-> d[f.path].off, needs |-> d[f.path].needs]

(* A file is in one of four states, and a good one holds a skill.          *)
LEMMA FileStates ==
  ASSUME NEW d \in Disks, NEW f \in Place
  PROVE  /\ d[f.path].state \in {"good", "absent", "malformed", "binary"}
         /\ d[f.path].state = "good" => SkillAt(d, f) \in Kept
<1>1. d[f.path] \in File
  BY DEF Disks, Place
<1> DEFINE x == d[f.path]
<1> HIDE DEF x
<1>2. x \in File
  BY <1>1 DEF x
<1>3. x.state \in {"good", "absent", "malformed", "binary"}
  BY <1>2 DEF File
<1>4. ASSUME x.state = "good"
      PROVE  x.name \in Names /\ x.off \in BOOLEAN /\ x.needs \in BOOLEAN
  <2>1. x \in [state : {"good"}, name : Names, off : BOOLEAN, needs : BOOLEAN]
    BY <1>2, <1>4 DEF File
  <2> QED
    BY <2>1
<1>5. f.path \in Paths /\ f.scope \in Scopes
  BY DEF Place
<1> QED
  BY <1>3, <1>4, <1>5 DEF SkillAt, Kept, x

(* What a visit does, by what is at the place.                             *)
Named(w, n) == {k \in w.kept : k.name = n}

VisitMakes(d, w, f, v) ==
  \/ (d[f.path].state = "absent" \/ f.path \in w.paths) /\ v = w
  \/ /\ d[f.path].state # "absent" /\ f.path \notin w.paths
     /\ v.paths = w.paths \union {f.path}
     /\ \/ d[f.path].state = "malformed" /\ v.kept = w.kept /\ v.ambiguous = w.ambiguous
        \/ /\ d[f.path].state = "good" /\ Named(w, d[f.path].name) = {}
           /\ v.kept = w.kept \union {SkillAt(d, f)} /\ v.ambiguous = w.ambiguous
        \/ /\ d[f.path].state = "good"
           /\ \E k \in Named(w, d[f.path].name) : k.scope = f.scope
           /\ v.kept = w.kept /\ v.ambiguous = w.ambiguous \union {d[f.path].name}
        \/ /\ d[f.path].state = "good" /\ Named(w, d[f.path].name) # {}
           /\ \A k \in Named(w, d[f.path].name) : k.scope # f.scope
           /\ v.kept = w.kept /\ v.ambiguous = w.ambiguous

(* A visit of a file that can be read is one of these cases.               *)
LEMMA VisitCases ==
  ASSUME NEW d \in Disks, NEW w \in Findings, NEW f \in Place, d[f.path].state # "binary"
  PROVE  Visited(d, w, f) \in Findings /\ VisitMakes(d, w, f, Visited(d, w, f))
<1> DEFINE seen == [w EXCEPT !.paths = @ \union {f.path}]
           skill == SkillAt(d, f)
           same == Named(w, d[f.path].name)
<1>1. d[f.path].state \in {"good", "absent", "malformed"}
  BY FileStates
<1>2. CASE d[f.path].state = "absent" \/ f.path \in w.paths
  BY <1>2 DEF Visited, VisitMakes
<1>3. seen.paths = w.paths \union {f.path} /\ seen.kept = w.kept /\ seen.ambiguous = w.ambiguous
      /\ seen \in Findings
  BY DEF Findings, Place
<1>4. CASE d[f.path].state # "absent" /\ f.path \notin w.paths /\ d[f.path].state = "malformed"
  <2>1. Visited(d, w, f) = seen
    BY <1>4 DEF Visited
  <2> HIDE DEF seen
  <2> QED
    BY <1>3, <1>4, <2>1 DEF VisitMakes
<1>5. CASE d[f.path].state # "absent" /\ f.path \notin w.paths /\ d[f.path].state = "good"
  <2>1. Visited(d, w, f) = Keep(seen, skill)
    <3>1. d[f.path].state # "malformed"
      BY <1>5
    <3> QED
      BY <1>5, <3>1 DEF Visited, SkillAt
  <2>2. skill \in Kept /\ skill.name = d[f.path].name /\ skill.scope = f.scope
    BY <1>5, FileStates DEF SkillAt
  <2>3. skill.name \in Names
    BY <2>2 DEF Kept
  <2> HIDE DEF seen, skill
  <2>4. same = {k \in seen.kept : k.name = skill.name}
    BY <1>3, <2>2 DEF Named
  <2> HIDE DEF same
  <2>5. CASE same = {}
    <3>1. Keep(seen, skill) = [seen EXCEPT !.kept = w.kept \union {skill}]
      BY <1>3, <2>4, <2>5 DEF Keep
    <3> QED
      BY <1>3, <1>5, <2>1, <2>2, <2>5, <3>1 DEF VisitMakes, Findings, skill, same
  <2>6. CASE \E k \in same : k.scope = f.scope
    <3>1. Keep(seen, skill) = [seen EXCEPT !.ambiguous = w.ambiguous \union {d[f.path].name}]
      BY <1>3, <2>2, <2>4, <2>6 DEF Keep
    <3> QED
      BY <1>3, <1>5, <2>1, <2>2, <2>3, <2>6, <3>1 DEF VisitMakes, Findings, same
  <2>7. CASE same # {} /\ \A k \in same : k.scope # f.scope
    <3>1. Keep(seen, skill) = seen
      BY <1>3, <2>2, <2>4, <2>7 DEF Keep
    <3> QED
      BY <1>3, <1>5, <2>1, <2>7, <3>1 DEF VisitMakes, same
  <2> QED
    BY <2>5, <2>6, <2>7
<1> QED
  BY <1>1, <1>2, <1>4, <1>5

(* Discover, one place at a time.                                          *)
LEMMA DiscoverRun ==
  ASSUME NEW l \in Layout, NEW d \in Disks, Discoverable(l, d)
  PROVE  \E r : /\ r[0] = Nothing
                /\ \A k \in 1..Len(Scan(l)) : r[k] = Visited(d, r[k - 1], Scan(l)[k])
                /\ Discover(l, d) = r[Len(Scan(l))]
<1> DEFINE scan == Scan(l)
           n == Len(scan)
           st == [p \in Findings \X (1..n) |-> Visited(d, p[1], scan[p[2]])]
           G(it) == [z \in SUBSET DOMAIN scan |->
                       IF z = {} THEN Nothing ELSE Visited(d, it[z \ {Max(z)}], scan[Max(z)])]
           it == CHOOSE i : i = G(i)
<1>1. Discover(l, d) = it[DOMAIN scan]
  BY Zenon DEF Discover, FoldLeft, MapThenFoldSet, Visited, Nothing
<1>2. /\ n \in Nat /\ DOMAIN scan = 1..n
      /\ \A k \in 1..n : scan[k] \in Place /\ d[scan[k].path].state # "binary"
  <2>1. scan \in Seq(Place)
    BY ScanOrdered
  <2>2. \A f \in ToSet(scan) : d[f.path].state # "binary"
    BY DEF Discoverable
  <2> HIDE DEF scan
  <2> QED
    BY <2>1, <2>2 DEF ToSet
<1> HIDE DEF n, scan
<1>3. \E i : i = G(i)
  <2>1. Nothing \in Findings
    BY DEF Nothing, Findings
  <2>2. st \in [Findings \X (1..n) -> Findings]
    BY <1>2, VisitCases
  <2> HIDE DEF st
  <2>3. PICK f \in [SUBSET (1..n) -> Findings] : IsTableFold(f, st, Nothing, n)
    BY <1>2, <2>1, <2>2, TableFold
  <2>4. ASSUME NEW z \in SUBSET (1..n), z # {}
        PROVE  st[<<f[z \ {Max(z)}], Max(z)>>] = Visited(d, f[z \ {Max(z)}], scan[Max(z)])
    <3>1. Max(z) \in 1..n
      BY <1>2, <2>4, MaxOfPositions
    <3> QED
      BY <2>3, <3>1 DEF st
  <2>5. f = G(f)
    BY <1>2, <2>3, <2>4 DEF IsTableFold
  <2> QED
    BY <2>5
<1>4. it = G(it)
  BY <1>3
<1> HIDE DEF it
<1> DEFINE r == [k \in 0..n |-> it[1..k]]
<1>5. ASSUME NEW k \in 1..n PROVE r[k] = Visited(d, r[k - 1], scan[k])
  <2>1. 1..k \in SUBSET DOMAIN scan /\ 1..k # {} /\ Max(1..k) = k
        /\ (1..k) \ {k} = 1..(k - 1)
    BY <1>2, FirstPositions
  <2>2. \A z \in SUBSET DOMAIN scan :
          it[z] = IF z = {} THEN Nothing ELSE Visited(d, it[z \ {Max(z)}], scan[Max(z)])
    BY <1>4
  <2>3. it[1..k] = Visited(d, it[1..(k - 1)], scan[k])
    BY <2>1, <2>2
  <2> QED
    BY <1>2, <2>3
<1>6. r[0] = Nothing /\ r[n] = Discover(l, d)
  BY <1>1, <1>2, <1>4
<1> HIDE DEF r
<1> QED
  BY <1>5, <1>6 DEF n, scan

-------------------------------------------------------------------------------
(* What the registry means.                                                *)

First(scan, i) == \A j \in 1..(i - 1) : scan[j].path # scan[i].path

(* A skill that was kept is that of a good file, with the scope it was     *)
(* first found under.                                                      *)
KeptOf(scan, d, k, e) ==
  /\ d[e.path].state = "good" /\ d[e.path].name = e.name /\ d[e.path].off = e.off
  /\ \E i \in 1..k : First(scan, i) /\ scan[i].path = e.path /\ scan[i].scope = e.scope

(* A good file is kept, or has the name of a skill that was kept: of one   *)
(* that is ambiguous, or one that comes first.                             *)
Ranked(w, d, f) ==
  \E e \in w.kept :
    /\ e.name = d[f.path].name
    /\ e.path = f.path \/ e.name \in w.ambiguous \/ Rank(e.scope) < Rank(f.scope)

(* What is known after k places.                                           *)
Known(w, scan, d, k) ==
  /\ w \in Findings
  /\ \A e \in w.kept : KeptOf(scan, d, k, e)
  /\ \A e, f \in w.kept : e.name = f.name => e = f
  /\ \A i \in 1..k : d[scan[i].path].state # "absent" => scan[i].path \in w.paths
  /\ \A q \in w.paths : \E i \in 1..k : scan[i].path = q
  /\ \A i \in 1..k : First(scan, i) /\ d[scan[i].path].state = "good" => Ranked(w, d, scan[i])

(* What is found later does not take a skill's rank away.                  *)
LEMMA RankedMore ==
  ASSUME NEW w, NEW v, NEW d, NEW f, w.kept \subseteq v.kept, w.ambiguous \subseteq v.ambiguous,
         Ranked(w, d, f)
  PROVE  Ranked(v, d, f)
BY DEF Ranked

(* Nor does it disturb why a skill was kept.                               *)
LEMMA KeptMore ==
  ASSUME NEW scan, NEW d, NEW k \in Nat \ {0}, NEW e, KeptOf(scan, d, k - 1, e)
  PROVE  KeptOf(scan, d, k, e)
<1>1. \A i \in 1..(k - 1) : i \in 1..k
  OBVIOUS
<1> QED
  BY <1>1 DEF KeptOf

(* Two scopes of one rank are the same.                                    *)
LEMMA RanksOrdered ==
  ASSUME NEW a \in Scopes, NEW b \in Scopes
  PROVE  /\ Rank(a) \in Nat /\ (Rank(a) = Rank(b) => a = b)
BY Ranks DEF Scopes

(* A visit adds the next place to what is known.                           *)
LEMMA KnownStep ==
  ASSUME NEW scan \in Seq(Place), Ordered(scan), NEW d \in Disks,
         NEW k \in 1..Len(scan), d[scan[k].path].state # "binary",
         NEW w, Known(w, scan, d, k - 1)
  PROVE  Known(Visited(d, w, scan[k]), scan, d, k)
<1> DEFINE f == scan[k]
           v == Visited(d, w, f)
<1>1. /\ w \in Findings /\ f \in Place /\ k \in Nat \ {0} /\ k \in DOMAIN scan
      /\ \A i \in 1..k : i = k \/ i \in 1..(k - 1)
      /\ \A i \in 1..(k - 1) : i \in 1..k /\ i \in DOMAIN scan /\ i <= k
  BY DEF Known
<1>2. v \in Findings /\ VisitMakes(d, w, f, v)
  BY <1>1, VisitCases
<1> SUFFICES Known(v, scan, d, k)
  OBVIOUS
<1> HIDE DEF v
<1>3. w.kept \subseteq v.kept /\ w.ambiguous \subseteq v.ambiguous /\ w.paths \subseteq v.paths
  BY <1>2 DEF VisitMakes
<1>4. ASSUME NEW i \in 1..(k - 1), First(scan, i), d[scan[i].path].state = "good"
      PROVE  Ranked(v, d, scan[i])
  BY <1>3, <1>4, RankedMore DEF Known
<1>5. \A e \in w.kept : KeptOf(scan, d, k, e)
  BY <1>1, KeptMore DEF Known
<1>6. \A i \in 1..k : d[scan[i].path].state # "absent" => scan[i].path \in v.paths
  <2>1. d[f.path].state # "absent" => f.path \in v.paths
    BY <1>2 DEF VisitMakes
  <2>2. \A i \in 1..(k - 1) : d[scan[i].path].state # "absent" => scan[i].path \in v.paths
    BY <1>3 DEF Known
  <2> QED
    BY <1>1, <2>1, <2>2
<1>7. \A q \in v.paths : \E i \in 1..k : scan[i].path = q
  <2>1. \A q \in w.paths : \E i \in 1..k : scan[i].path = q
    BY <1>1 DEF Known
  <2>2. v.paths \subseteq w.paths \union {f.path} /\ k \in 1..k
    BY <1>1, <1>2 DEF VisitMakes
  <2> QED
    BY <2>1, <2>2
<1>8. ASSUME f.path \notin w.paths, d[f.path].state = "good" PROVE First(scan, k)
  BY <1>8 DEF First, Known
<1>9. ASSUME v.kept = w.kept, First(scan, k) /\ d[f.path].state = "good" => Ranked(v, d, f)
      PROVE  Known(v, scan, d, k)
  BY <1>1, <1>2, <1>4, <1>5, <1>6, <1>7, <1>9 DEF Known
<1>10. CASE (d[f.path].state = "absent" \/ f.path \in w.paths) /\ v = w
  <2>1. f.path \in w.paths => ~First(scan, k)
    BY <1>1 DEF Known, First
  <2> QED
    BY <1>9, <1>10, <2>1
<1>11. CASE d[f.path].state = "malformed" /\ v.kept = w.kept
  BY <1>9, <1>11
<1>12. CASE /\ f.path \notin w.paths /\ d[f.path].state = "good"
            /\ \E e \in Named(w, d[f.path].name) : e.scope = f.scope
            /\ v.kept = w.kept /\ v.ambiguous = w.ambiguous \union {d[f.path].name}
  <2>1. Ranked(v, d, f)
    BY <1>12 DEF Ranked, Named
  <2> QED
    BY <1>9, <1>12, <2>1
<1>13. CASE /\ f.path \notin w.paths /\ d[f.path].state = "good" /\ Named(w, d[f.path].name) # {}
            /\ \A e \in Named(w, d[f.path].name) : e.scope # f.scope
            /\ v.kept = w.kept /\ v.ambiguous = w.ambiguous
  <2>1. PICK e \in w.kept : e.name = d[f.path].name /\ e.scope # f.scope
    BY <1>13 DEF Named
  <2>2. PICK i \in 1..(k - 1) : scan[i].scope = e.scope
    BY <2>1 DEF Known, KeptOf
  <2>3. Rank(scan[i].scope) <= Rank(f.scope)
    BY <1>1 DEF Ordered
  <2>4. scan[i].scope \in Scopes /\ f.scope \in Scopes
    <3>1. scan[i] \in Place
      BY <1>1
    <3> QED
      BY <1>1, <3>1 DEF Place
  <2>5. Rank(e.scope) < Rank(f.scope)
    BY <2>1, <2>2, <2>3, <2>4, RanksOrdered
  <2>6. Ranked(v, d, f)
    BY <1>13, <2>1, <2>5 DEF Ranked
  <2> QED
    BY <1>9, <1>13, <2>6
<1>14. CASE /\ f.path \notin w.paths /\ d[f.path].state = "good" /\ Named(w, d[f.path].name) = {}
            /\ v.kept = w.kept \union {SkillAt(d, f)} /\ v.ambiguous = w.ambiguous
  <2> DEFINE s == SkillAt(d, f)
  <2>1. /\ s.name = d[f.path].name /\ s.path = f.path /\ s.scope = f.scope
        /\ s.off = d[f.path].off
    BY DEF SkillAt
  <2> HIDE DEF s
  <2>2. KeptOf(scan, d, k, s)
    BY <1>1, <1>8, <1>14, <2>1 DEF KeptOf
  <2>3. v.kept = w.kept \union {s}
    BY <1>14 DEF s
  <2>4. \A e \in w.kept : e.name # s.name
    BY <1>14, <2>1 DEF Named
  <2>5. \A e, g \in v.kept : e.name = g.name => e = g
    BY <2>3, <2>4 DEF Known
  <2>6. Ranked(v, d, f)
    BY <2>1, <2>3 DEF Ranked
  <2>7. \A e \in v.kept : KeptOf(scan, d, k, e)
    BY <1>5, <2>2, <2>3
  <2> QED
    BY <1>1, <1>2, <1>4, <1>6, <1>7, <2>5, <2>6, <2>7 DEF Known
<1> QED
  BY <1>2, <1>10, <1>11, <1>12, <1>13, <1>14 DEF VisitMakes

(* Discovery ends knowing about every place.                               *)
LEMMA DiscoverKnows ==
  ASSUME NEW l \in Layout, NEW d \in Disks, Discoverable(l, d)
  PROVE  Known(Discover(l, d), Scan(l), d, Len(Scan(l)))
<1> DEFINE scan == Scan(l)
           n == Len(scan)
<1>1. /\ scan \in Seq(Place) /\ Ordered(scan)
      /\ \A f \in ToSet(scan) : d[f.path].state # "binary"
  BY ScanOrdered DEF Discoverable
<1> HIDE DEF scan
<1>2. n \in Nat /\ DOMAIN scan = 1..n /\ \A k \in 1..n : d[scan[k].path].state # "binary"
  BY <1>1 DEF ToSet
<1>3. PICK r : /\ r[0] = Nothing
               /\ \A k \in 1..n : r[k] = Visited(d, r[k - 1], scan[k])
               /\ Discover(l, d) = r[n]
  BY DiscoverRun DEF scan
<1> DEFINE K == {k \in 0..n : Known(r[k], scan, d, k)}
<1>4. 0 \in K
  <2>1. Known(Nothing, scan, d, 0)
    BY DEF Known, Nothing, Findings
  <2> QED
    BY <1>2, <1>3, <2>1
<1>5. ASSUME NEW k \in 1..n, k - 1 \in K PROVE k \in K
  <2>1. Known(r[k - 1], scan, d, k - 1) /\ k \in 0..n
    BY <1>5
  <2>2. Known(Visited(d, r[k - 1], scan[k]), scan, d, k)
    BY <1>1, <1>2, <2>1, KnownStep
  <2> QED
    BY <1>3, <2>1, <2>2
<1>6. n \in K
  <2> HIDE DEF K, n
  <2>1. \A k \in 0..n : k \in K
    BY <1>2, <1>4, <1>5, EveryStep
  <2> QED
    BY <1>2, <2>1
<1> QED
  BY <1>3, <1>6 DEF scan

(* Every place with a path is that of a first one.                         *)
LEMMA HasFirst ==
  ASSUME NEW scan \in Seq(Place), NEW i \in DOMAIN scan
  PROVE  \E j \in DOMAIN scan : First(scan, j) /\ scan[j].path = scan[i].path
<1> DEFINE T == {j \in DOMAIN scan : scan[j].path = scan[i].path}
<1>1. T \subseteq Nat /\ i \in T
  OBVIOUS
<1> HIDE DEF T
<1>2. PICK m \in T : \A j \in T : m <= j
  BY <1>1, Least
<1>3. m \in DOMAIN scan /\ scan[m].path = scan[i].path
  BY DEF T
<1>4. First(scan, m)
  <2> SUFFICES ASSUME NEW j \in 1..(m - 1), scan[j].path = scan[m].path PROVE FALSE
    BY DEF First
  <2>1. j \in DOMAIN scan /\ ~(m <= j)
    BY <1>3
  <2>2. j \in T
    BY <1>3, <2>1 DEF T
  <2> QED
    BY <1>2, <2>1, <2>2
<1> QED
  BY <1>3, <1>4

(* The scope of a file is that of the first place it is found at.          *)
LEMMA ScopeFirst ==
  ASSUME NEW l \in Layout, NEW i \in DOMAIN Scan(l), First(Scan(l), i)
  PROVE  ScopeOf(l, Scan(l)[i].path) = Scan(l)[i].scope
<1> DEFINE scan == Scan(l)
           q == scan[i].path
           T == {j \in 1..Len(scan) : scan[j].path = q}
<1>1. scan \in Seq(Place)
  BY ScanOrdered
<1>2. ScopeOf(l, q) = scan[IF T # {} THEN Min(T) ELSE 0].scope
  BY Zenon DEF ScopeOf, SelectInSeq
<1> HIDE DEF scan
<1>3. i \in T /\ i \in Nat /\ T \subseteq Nat
  BY <1>1 DEF scan
<1>4. \A j \in T : i <= j
  <2> SUFFICES ASSUME NEW j \in T, ~(i <= j) PROVE FALSE
    OBVIOUS
  <2>1. j \in 1..(i - 1) /\ scan[j].path = scan[i].path
    BY <1>1, <1>3
  <2> QED
    BY <2>1 DEF First, scan
<1> HIDE DEF T
<1>5. Min(T) = i
  <2>1. \E m \in T : \A j \in T : m <= j
    BY <1>3, <1>4
  <2>2. Min(T) \in T /\ \A j \in T : Min(T) <= j
    BY <2>1 DEF Min
  <2> DEFINE m == Min(T)
  <2>3. m \in T /\ m \in Nat /\ m <= i /\ i <= m
    BY <1>3, <1>4, <2>2
  <2> HIDE DEF m
  <2>4. m = i
    BY <1>3, <2>3
  <2> QED
    BY <2>4 DEF m
<1> QED
  BY <1>2, <1>3, <1>5 DEF scan

(* A skill the registry has by its name is the one file that the name can  *)
(* mean.                                                                   *)
LEMMA RegistryRight ==
  ASSUME NEW l \in Layout, NEW d \in Disks, Discoverable(l, d),
         NEW e \in Registry(l, d).byName
  PROVE  /\ e \in Kept /\ d[e.path].off = e.off
         /\ Candidates(l, d, e.name) = {e.path}
         /\ \A g \in Registry(l, d).byName : g.name = e.name => g = e
<1> DEFINE scan == Scan(l)
           n == Len(scan)
           w == Discover(l, d)
           places == {f.path : f \in ToSet(scan)}
           all == {q \in places : d[q].state = "good" /\ d[q].name = e.name}
           R(q) == Rank(ScopeOf(l, q))
<1>1. scan \in Seq(Place) /\ Known(w, scan, d, n)
  BY ScanOrdered, DiscoverKnows
<1>2. /\ e \in w.kept /\ e.name \notin w.ambiguous
      /\ \A g \in Registry(l, d).byName : g \in w.kept
  BY DEF Registry
<1>3. Candidates(l, d, e.name) = {q \in all : \A p \in all : R(q) <= R(p)}
  BY Zenon DEF Candidates
<1> HIDE DEF scan, w
<1>4. /\ e \in Kept /\ KeptOf(scan, d, n, e)
      /\ \A g \in w.kept : g.name = e.name => g = e
  BY <1>1, <1>2 DEF Known, Findings
<1>5. PICK i \in 1..n : First(scan, i) /\ scan[i].path = e.path /\ scan[i].scope = e.scope
  BY <1>4 DEF KeptOf
<1>6. DOMAIN scan = 1..n
  BY <1>1
<1>7. e.path \in all /\ ScopeOf(l, e.path) = e.scope
  <2>1. e.path \in places
    BY <1>5, <1>6 DEF ToSet
  <2>2. ScopeOf(l, e.path) = e.scope
    BY <1>5, <1>6, ScopeFirst DEF scan
  <2> QED
    BY <1>4, <2>1, <2>2 DEF KeptOf
<1>8. ASSUME NEW q \in all, q # e.path PROVE ~(R(q) <= R(e.path)) /\ R(e.path) <= R(q)
  <2>1. PICK k \in DOMAIN scan : scan[k].path = q
    BY DEF ToSet
  <2>2. PICK j \in DOMAIN scan : First(scan, j) /\ scan[j].path = q
    BY <1>1, <2>1, HasFirst
  <2>3. d[q].state = "good" /\ d[q].name = e.name
    OBVIOUS
  <2>4. Ranked(w, d, scan[j])
    BY <1>1, <1>6, <2>2, <2>3 DEF Known
  <2>5. ScopeOf(l, q) = scan[j].scope
    BY <2>2, ScopeFirst DEF scan
  <2>6. Rank(e.scope) < Rank(scan[j].scope)
    BY <1>2, <1>4, <1>8, <2>2, <2>3, <2>4 DEF Ranked
  <2>7. Rank(e.scope) \in Nat /\ Rank(scan[j].scope) \in Nat
    <3>1. scan[j] \in Place
      BY <1>1, <2>2
    <3> QED
      BY <1>4, <3>1, RanksOrdered DEF Kept, Place
  <2> QED
    BY <1>7, <2>5, <2>6, <2>7
<1>9. R(e.path) <= R(e.path)
  <2>1. Rank(e.scope) \in Nat
    BY <1>4, RanksOrdered DEF Kept
  <2> QED
    BY <1>7, <2>1
<1> HIDE DEF all, R
<1>10. Candidates(l, d, e.name) = {e.path}
  BY <1>3, <1>7, <1>8, <1>9
<1> QED
  BY <1>2, <1>4, <1>10 DEF KeptOf

-------------------------------------------------------------------------------
(* What is injected.                                                       *)

(* What the message for n says, on the files the registry was read from: a *)
(* skill is the one that n can mean.                                       *)
Says(l, d, n, m) ==
  /\ m \in Message /\ m.name = n
  /\ m.path = 0 => m.reason # "none"
  /\ m.reason = "none" =>
       /\ Candidates(l, d, n) = {m.path}
       /\ d[m.path].off => Disabled(Registry(l, d), n)

(* The message for a name says the right thing, whatever files are now.    *)
LEMMA MessageRight ==
  ASSUME NEW l \in Layout, NEW d \in Disks, Discoverable(l, d), NEW now, NEW n \in Names
  PROVE  Says(l, d, n, MessageFor(Registry(l, d), now, n))
<1> DEFINE reg == Registry(l, d)
           k == CHOOSE e \in Entry(reg, n) : TRUE
           Msg(path, reason) == [name |-> n, path |-> path, reason |-> reason]
           m == MessageFor(reg, now, n)
<1>1. \/ m = Msg(0, "ambiguous") \/ m = Msg(0, "not_found")
      \/ /\ Entry(reg, n) # {}
         /\ m = Msg(k.path, "env") \/ m = Msg(k.path, "gone") \/ m = Msg(k.path, "none")
  BY Zenon DEF MessageFor
<1>2. ASSUME Entry(reg, n) # {}
      PROVE  /\ k.path \in Paths /\ Candidates(l, d, n) = {k.path}
             /\ d[k.path].off => Disabled(reg, n)
  <2>1. k \in Entry(reg, n)
    BY <1>2
  <2>2. k \in reg.byName /\ k.name = n
    BY <2>1 DEF Entry
  <2>3. k \in Kept /\ d[k.path].off = k.off /\ Candidates(l, d, k.name) = {k.path}
    BY <2>2, RegistryRight
  <2> HIDE DEF k, reg
  <2>4. k.path \in Paths
    BY <2>3 DEF Kept
  <2> QED
    BY <2>1, <2>2, <2>3, <2>4 DEF Disabled
<1> HIDE DEF m, k, reg
<1>3. 0 \notin Paths
  BY SkillsAssumption
<1>4. CASE m = Msg(0, "ambiguous") \/ m = Msg(0, "not_found")
  <2>1. m.name = n /\ m.path = 0 /\ m.reason # "none"
    BY <1>4
  <2>2. m \in Message
    BY <1>4 DEF Message
  <2> QED
    BY <2>1, <2>2 DEF Says, m, reg
<1>5. CASE /\ Entry(reg, n) # {}
           /\ m = Msg(k.path, "env") \/ m = Msg(k.path, "gone") \/ m = Msg(k.path, "none")
  <2>1. /\ m \in Message /\ m.name = n /\ m.path = k.path /\ m.path \in Paths
    BY <1>2, <1>5 DEF Message
  <2>2. m.path # 0
    BY <1>3, <2>1
  <2>3. Candidates(l, d, n) = {m.path} /\ (d[m.path].off => Disabled(reg, n))
    BY <1>2, <1>5, <2>1
  <2> QED
    BY <2>1, <2>2, <2>3 DEF Says, reg, m
<1> QED
  BY <1>1, <1>4, <1>5 DEF m, reg

(* A plan for different names has different names, each asked for, and a   *)
(* message that says the right thing for each.                             *)
Planned(l, d, names, plan) ==
  /\ plan \in Seq(Message)
  /\ \A i \in DOMAIN plan : \E k \in DOMAIN names : Says(l, d, names[k], plan[i])
  /\ \A i, j \in DOMAIN plan : plan[i].name = plan[j].name => i = j

(* The three parts of a plan exclude each other, so nothing comes twice.   *)
LEMMA PlanRight ==
  ASSUME NEW l \in Layout, NEW d \in Disks, Discoverable(l, d), NEW now,
         NEW names \in Seq(Names), IsInjective(names)
  PROVE  Planned(l, d, names, InjectionPlan(Registry(l, d), now, names))
<1> DEFINE reg == Registry(l, d)
           all == [i \in DOMAIN names |-> MessageFor(reg, now, names[i])]
           messages == ToSet(all)
           A == {m \in messages : m.path = 0}
           B == {m \in messages : m.path # 0 /\ m.reason # "none"}
           C == {m \in messages : m.reason = "none"}
           a == Only(all, A)
           b == Only(all, B)
           c == Only(all, C)
           plan == InjectionPlan(reg, now, names)
<1>1. plan = a \o b \o c
  BY Zenon DEF InjectionPlan
<1>2. DOMAIN all = DOMAIN names /\ \A i \in DOMAIN names : names[i] \in Names
  OBVIOUS
<1>3. \A i \in DOMAIN names : Says(l, d, names[i], all[i])
  BY <1>2, MessageRight
<1> HIDE DEF all, reg, plan
<1>4. all \in Seq(Message)
  <2>1. \A i \in DOMAIN all : all[i] \in Message
    BY <1>2, <1>3 DEF Says
  <2>2. DOMAIN all = 1..Len(names) /\ Len(names) \in Nat
    BY <1>2
  <2>3. all = [i \in 1..Len(names) |-> all[i]]
    BY <2>2 DEF all
  <2> QED
    BY <2>1, <2>2, <2>3
<1>5. /\ a \in Seq(Message) /\ b \in Seq(Message) /\ c \in Seq(Message)
      /\ Picks(a, all, A) /\ Picks(b, all, B) /\ Picks(c, all, C)
  BY <1>4, OnlyPicks
<1>6. A \intersect B = {} /\ (A \union B) \intersect C = {}
  <2>1. \A m \in messages : m.path = 0 => m.reason # "none"
    BY <1>2, <1>3 DEF ToSet, Says
  <2> QED
    BY <2>1
<1> HIDE DEF A, B, C, a, b, c
<1>7. a \o b \in Seq(Message) /\ Picks(a \o b, all, A \union B)
  BY <1>4, <1>5, <1>6, JoinPicks
<1>8. plan \in Seq(Message) /\ Picks(plan, all, (A \union B) \union C)
  BY <1>1, <1>4, <1>5, <1>6, <1>7, JoinPicks
<1>9. PICK g \in [DOMAIN plan -> DOMAIN all] :
        /\ \A i \in DOMAIN plan : plan[i] = all[g[i]]
        /\ \A i, j \in DOMAIN plan : g[i] = g[j] => i = j
  BY <1>8, Zenon DEF Picks
<1>10. \A i \in DOMAIN plan : g[i] \in DOMAIN names /\ Says(l, d, names[g[i]], plan[i])
  BY <1>2, <1>3, <1>9
<1>11. ASSUME NEW i \in DOMAIN plan, NEW j \in DOMAIN plan, plan[i].name = plan[j].name
       PROVE  i = j
  <2>1. names[g[i]] = names[g[j]]
    BY <1>10, <1>11 DEF Says
  <2>2. g[i] = g[j]
    BY <1>10, <2>1 DEF IsInjective
  <2> QED
    BY <1>9, <2>2
<1> QED
  BY <1>8, <1>10, <1>11 DEF Planned, plan, reg

-------------------------------------------------------------------------------
(* The text the model is heard to say.                                     *)

(* Pieces of text, one after the other, are a text.                        *)
LEMMA FlatText ==
  ASSUME NEW n \in Nat, NEW b, DOMAIN b = 1..n, Len(b) = n, n = 0 => b = <<>>,
         \A i \in 1..n : b[i] \in Seq(Occurrence)
  PROVE  FlattenSeq(b) \in Seq(Occurrence)
<1>1. CASE n = 0
  <2>1. FlattenSeq(b) = b /\ b = <<>>
    BY <1>1 DEF FlattenSeq
  <2> QED
    BY <2>1
<1>2. CASE n # 0
  <2>1. PICK f : IsFlat(f, b, n) /\ FlattenSeq(b) = f[n]
    BY <1>2, FlattenIsFlat
  <2>2. ASSUME NEW k \in 1..n PROVE f[k] = IF k = 1 THEN b[k] ELSE f[k - 1] \o b[k]
    BY <2>1 DEF IsFlat
  <2> DEFINE K == {k \in 0..n : k = 0 \/ f[k] \in Seq(Occurrence)}
  <2>3. 0 \in K
    OBVIOUS
  <2>4. ASSUME NEW k \in 1..n, k - 1 \in K PROVE k \in K
    <3>1. CASE k = 1
      BY <2>2, <3>1
    <3>2. CASE k # 1
      <4>1. f[k - 1] \in Seq(Occurrence) /\ b[k] \in Seq(Occurrence)
        BY <2>4, <3>2
      <4>2. f[k - 1] \o b[k] \in Seq(Occurrence)
        BY <4>1, ConcatProperties
      <4>3. f[k] = f[k - 1] \o b[k]
        BY <2>2, <3>2, Zenon
      <4>4. f[k] \in Seq(Occurrence) /\ k \in 0..n
        BY <4>2, <4>3
      <4> QED
        BY <4>4
    <3> QED
      BY <3>1, <3>2
  <2>5. n \in K
    <3> HIDE DEF K
    <3>1. \A k \in 0..n : k \in K
      BY <2>3, <2>4, EveryStep
    <3> QED
      BY <3>1
  <2> QED
    BY <1>2, <2>1, <2>5
<1> QED
  BY <1>1, <1>2

(* What the parts of a sampling say is a text.                             *)
LEMMA TextType == ASSUME parts \in Seq(Part) PROVE Text \in Seq(Occurrence)
<1> DEFINE n == Len(parts)
           b == [i \in DOMAIN parts |-> parts[i].text]
<1>1. n \in Nat /\ DOMAIN parts = 1..n /\ \A i \in 1..n : parts[i] \in Part
  OBVIOUS
<1> HIDE DEF n
<1>2. \A i \in 1..n : b[i] \in Seq(Occurrence)
  <2>1. \A i \in 1..n : parts[i].text \in Answers
    BY <1>1 DEF Part
  <2> QED
    BY <1>1, <2>1, TurnAssumption
<1>3. DOMAIN b = 1..n /\ Len(b) = n /\ (n = 0 => b = <<>>)
  <2>1. DOMAIN b = 1..n
    BY <1>1
  <2> QED
    BY <1>1, <2>1
<1> HIDE DEF b
<1>4. FlattenSeq(b) \in Seq(Occurrence)
  BY <1>1, <1>2, <1>3, FlatText
<1> QED
  BY <1>4 DEF Text, b

(* New signals are names the turn has not had, each once, of skills that   *)
(* the model may ask for.                                                  *)
LEMMA SignalsRight ==
  ASSUME NEW text \in Seq(Occurrence)
  PROVE  /\ Signals(text) \in Seq(Names) /\ IsInjective(Signals(text))
         /\ \A i \in DOMAIN Signals(text) :
              Signals(text)[i] \notin named /\ ~Disabled(registry, Signals(text)[i])
         /\ cache = NoCache => Signals(text) = <<>>
<1> DEFINE ms == Mentions(text)
           S == {n \in Names \ named : ~Disabled(registry, n)}
           t == Only(ms, S)
<1>1. ms \in Seq(Names) /\ IsInjective(ms)
  BY MentionsOnce
<1>2. CASE cache = NoCache
  <2>1. Signals(text) = <<>> /\ <<>> \in Seq(Names) /\ DOMAIN <<>> = {}
    BY <1>2 DEF Signals
  <2> QED
    BY <2>1 DEF IsInjective
<1>3. CASE cache # NoCache
  <2>1. Signals(text) = t
    BY <1>3 DEF Signals
  <2> HIDE DEF ms, S, t
  <2>2. t \in Seq(Names) /\ Picks(t, ms, S)
    BY <1>1, OnlyPicks DEF t
  <2>3. PICK g \in [DOMAIN t -> DOMAIN ms] :
          /\ \A i \in DOMAIN t : ms[g[i]] \in S /\ t[i] = ms[g[i]]
          /\ \A i, j \in DOMAIN t : g[i] = g[j] => i = j
    BY <2>2 DEF Picks
  <2>4. \A i \in DOMAIN t : t[i] \in S
    BY <2>3
  <2>5. IsInjective(t)
    BY <1>1, <2>3 DEF IsInjective
  <2>6. \A i \in DOMAIN t : t[i] \notin named /\ ~Disabled(registry, t[i])
    BY <2>4 DEF S
  <2> QED
    BY <1>3, <2>1, <2>2, <2>5, <2>6
<1> QED
  BY <1>2, <1>3

-------------------------------------------------------------------------------
(* Histories.                                                              *)

(* The last user item.                                                     *)
UserAt(h) == SelectLastInSeq(h, LAMBDA i : i.kind = "user")

(* A user item with none after it is the last one.                         *)
LEMMA UserLast ==
  ASSUME NEW h \in Seq(Item), NEW s \in DOMAIN h, h[s].kind = "user",
         \A i \in DOMAIN h : i > s => h[i].kind # "user"
  PROVE  UserAt(h) = s
<1> DEFINE n == Len(h)
           I == {i \in 1..n : h[i].kind = "user"}
           m == Max(I)
<1>1. n \in Nat /\ DOMAIN h = 1..n
  OBVIOUS
<1>2. UserAt(h) = IF I # {} THEN m ELSE 0
  BY Zenon DEF UserAt, SelectLastInSeq
<1> HIDE DEF n
<1>3. s \in I /\ I \subseteq 1..n
  BY <1>1
<1>4. m \in I /\ \A i \in I : i <= m
  <2> HIDE DEF I
  <2> QED
    BY <1>1, <1>3, MaxOfPositions
<1>5. s <= m /\ ~(m > s) /\ s \in Nat /\ m \in Nat
  BY <1>1, <1>3, <1>4
<1>6. s = m
  <2> HIDE DEF m, I
  <2> QED
    BY <1>5
<1> QED
  BY <1>2, <1>3, <1>6

(* The injected items at the end of a history are injected items of it.    *)
LEMMA SkillRunOf ==
  ASSUME NEW h \in Seq(Item)
  PROVE  /\ SkillRun(h) \in Seq(Item)
         /\ \A i \in DOMAIN SkillRun(h) :
              SkillRun(h)[i] \in ToSet(h) /\ SkillRun(h)[i].kind = "skill"
<1> DEFINE n == Len(h)
           I == {i \in 1..n : h[i].kind # "skill"}
           start == IF I # {} THEN Max(I) ELSE 0
           t == SubSeq(h, start + 1, n)
<1>1. n \in Nat /\ DOMAIN h = 1..n /\ \A i \in 1..n : h[i] \in Item
  OBVIOUS
<1>2. SkillRun(h) = t
  BY Zenon DEF SkillRun, SelectLastInSeq
<1> HIDE DEF n
<1>3. start \in 0..n /\ \A i \in 1..n : i > start => h[i].kind = "skill"
  <2>1. CASE I = {}
    BY <1>1, <2>1
  <2>2. CASE I # {}
    <3>1. I \subseteq 1..n
      OBVIOUS
    <3>2. Max(I) \in I /\ \A i \in I : i <= Max(I)
      <4> HIDE DEF I
      <4> QED
        BY <1>1, <2>2, <3>1, MaxOfPositions
    <3> DEFINE m == Max(I)
    <3>3. start = m /\ m \in 1..n /\ \A i \in I : i <= m
      BY <2>2, <3>1, <3>2
    <3> HIDE DEF m, start
    <3> QED
      BY <1>1, <3>3
  <2> QED
    BY <2>1, <2>2
<1> HIDE DEF I, start, t
<1>4. /\ t \in Seq(Item) /\ Len(t) = IF start + 1 <= n THEN n - (start + 1) + 1 ELSE 0
      /\ \A i \in 1..(n - (start + 1) + 1) : t[i] = h[(start + 1) + i - 1]
  <2>1. start + 1 \in Int /\ n \in Int /\ \A i \in (start + 1)..n : h[i] \in Item
    BY <1>1, <1>3
  <2> QED
    BY <2>1, SubSeqProperties DEF t
<1>5. DOMAIN t = 1..(n - start)
  <2>1. Len(t) = n - start
    BY <1>1, <1>3, <1>4
  <2> QED
    BY <1>4, <2>1
<1>6. ASSUME NEW i \in DOMAIN t PROVE t[i] \in ToSet(h) /\ t[i].kind = "skill"
  <2>1. start + i \in 1..n /\ start + i > start /\ i \in 1..(n - (start + 1) + 1)
        /\ (start + 1) + i - 1 = start + i
    BY <1>1, <1>3, <1>5
  <2>2. t[i] = h[start + i]
    BY <1>4, <2>1
  <2> QED
    BY <1>1, <1>3, <2>1, <2>2 DEF ToSet
<1> QED
  BY <1>2, <1>4, <1>6

(* The first items of two histories that begin alike.                      *)
LEMMA FirstItems ==
  ASSUME NEW h \in Seq(Item), NEW g \in Seq(Item), NEW n \in Nat,
         n <= Len(h), n <= Len(g), \A i \in 1..n : g[i] = h[i]
  PROVE  SubSeq(g, 1, n) = SubSeq(h, 1, n)
<1> DEFINE a == SubSeq(h, 1, n)
           b == SubSeq(g, 1, n)
<1>1. 1 \in Int /\ n \in Int /\ \A i \in 1..n : h[i] \in Item /\ g[i] \in Item
  OBVIOUS
<1>2. /\ a \in Seq(Item) /\ Len(a) = IF 1 <= n THEN n - 1 + 1 ELSE 0
      /\ \A i \in 1..(n - 1 + 1) : a[i] = h[1 + i - 1]
  BY <1>1, SubSeqProperties
<1>3. /\ b \in Seq(Item) /\ Len(b) = IF 1 <= n THEN n - 1 + 1 ELSE 0
      /\ \A i \in 1..(n - 1 + 1) : b[i] = g[1 + i - 1]
  BY <1>1, SubSeqProperties
<1> HIDE DEF a, b
<1>4. Len(a) = n /\ Len(b) = n /\ \A i \in 1..n : a[i] = b[i]
  BY <1>2, <1>3
<1>5. a = b
  BY <1>2, <1>3, <1>4, SeqEqual
<1> QED
  BY <1>5 DEF a, b

(* g is h with an item for each message of t, which are of the plan and    *)
(* not there yet.                                                          *)
Adds(h, plan, g, t) ==
  /\ g \in Seq(Item)
  /\ DOMAIN g = 1..(Len(h) + Len(t))
  /\ \A i \in 1..Len(h) : g[i] = h[i]
  /\ \A i \in 1..Len(t) : g[Len(h) + i] = Skill(t[i])
  /\ \A i \in 1..Len(t) : t[i] \in ToSet(plan) \ Existing(h)
  /\ \A i, j \in 1..Len(t) : t[i].name = t[j].name => i = j

(* An injection keeps the items there are, and adds one for each message   *)
(* of the plan that is not there yet.                                      *)
LEMMA InjectedShape ==
  ASSUME NEW h \in Seq(Item), NEW plan \in Seq(Message),
         \A i, j \in DOMAIN plan : plan[i].name = plan[j].name => i = j
  PROVE  \E t \in Seq(Message) : Adds(h, plan, Injected(h, plan), t)
<1> DEFINE S == ToSet(plan) \ Existing(h)
           t == Only(plan, S)
           m == Len(h)
           n == Len(t)
           c == [i \in DOMAIN t |-> Skill(t[i])]
           g == h \o c
<1>1. Injected(h, plan) = g
  BY Zenon DEF Injected
<1> HIDE DEF S
<1>2. t \in Seq(Message) /\ Picks(t, plan, S)
  BY OnlyPicks
<1> HIDE DEF t
<1>3. n \in Nat /\ DOMAIN t = 1..n /\ \A i \in 1..n : t[i] \in Message
  BY <1>2
<1> HIDE DEF n
<1>4. PICK f \in [1..n -> DOMAIN plan] :
        /\ \A i \in 1..n : plan[f[i]] \in S /\ t[i] = plan[f[i]]
        /\ \A i, j \in 1..n : f[i] = f[j] => i = j
  BY <1>2, <1>3, Zenon DEF Picks
<1>5. c \in Seq(Item) /\ Len(c) = n /\ \A i \in 1..n : c[i] = Skill(t[i])
  <2>1. DOMAIN c = 1..n /\ \A i \in 1..n : c[i] = Skill(t[i])
    BY <1>3
  <2>2. \A i \in 1..n : c[i] \in Item
    BY <1>3, <2>1 DEF Skill, Item
  <2>3. c = [i \in 1..n |-> c[i]]
    BY <1>3
  <2> QED
    BY <1>3, <2>1, <2>2, <2>3
<1> HIDE DEF c, g
<1>6. /\ g \in Seq(Item) /\ Len(g) = m + n /\ m \in Nat
      /\ \A i \in 1..(m + n) : g[i] = IF i <= m THEN h[i] ELSE c[i - m]
  BY <1>5, ConcatProperties DEF g
<1> HIDE DEF m
<1>7. DOMAIN g = 1..(m + n)
  BY <1>6
<1>8. \A i \in 1..m : g[i] = h[i]
  BY <1>3, <1>6
<1>9. ASSUME NEW i \in 1..n PROVE g[m + i] = Skill(t[i])
  <2>1. m + i \in 1..(m + n) /\ ~(m + i <= m) /\ (m + i) - m = i
    BY <1>3, <1>6
  <2> QED
    BY <1>5, <1>6, <2>1
<1>10. \A i \in 1..n : t[i] \in S
  BY <1>4
<1>11. \A i, j \in 1..n : t[i].name = t[j].name => i = j
  BY <1>4
<1>12. Adds(h, plan, g, t)
  BY <1>6, <1>7, <1>8, <1>9, <1>10, <1>11 DEF S, m, n, Adds
<1> QED
  BY <1>1, <1>2, <1>12

-------------------------------------------------------------------------------
(* The items of a turn.                                                    *)

(* What RightSkill asks of a message.                                      *)
Right(m, l, d, names) ==
  m.reason = "none" =>
    /\ Candidates(l, d, m.name) = {m.path}
    /\ m.name \in names \/ ~d[m.path].off

(* What was injected just before position s.                               *)
Before(h, s) == Messages(SkillRun(SubSeq(h, 1, s - 1)))

(* The scan of the code sees what was injected just before the last item.  *)
LEMMA ScanSees ==
  ASSUME NEW h \in Seq(Item), NEW a \in Seq(Item), Front(h) = a
  PROVE  Existing(h) = Messages(SkillRun(a))
<1> DEFINE t == SkillRun(a)
<1>1. \A i \in DOMAIN t : t[i].kind = "skill"
  BY SkillRunOf
<1>2. t \in Seq(Item)
  BY SkillRunOf
<1> HIDE DEF t
<1>3. \A i \in ToSet(t) : i.kind = "skill"
  BY <1>1, <1>2 DEF ToSet
<1>4. {k \in ToSet(t) : k.kind = "skill"} = ToSet(t)
  BY <1>3
<1> QED
  BY <1>4 DEF Existing, Messages, t

(* The turn's user item is at s; what it has injected and what had been    *)
(* injected just before have names the turn has taken; its own have        *)
(* different names, say the right thing and were not just before it.       *)
TurnAt(h, s, taken, l, d, names) ==
  /\ s \in DOMAIN h /\ h[s].kind = "user"
  /\ \A i \in DOMAIN h : i > s => h[i].kind # "user"
  /\ \A i \in DOMAIN h : i > s /\ h[i].kind = "skill" => h[i].msg.name \in taken
  /\ \A m \in Before(h, s) : m.name \in taken
  /\ \A i, j \in DOMAIN h :
       /\ i > s /\ j > s /\ h[i].kind = "skill" /\ h[j].kind = "skill"
       /\ h[i].msg.name = h[j].msg.name
       => i = j
  /\ \A i \in DOMAIN h : i > s /\ h[i].kind = "skill" => h[i].msg \notin Before(h, s)
  /\ \A i \in DOMAIN h : i > s /\ h[i].kind = "skill" => Right(h[i].msg, l, d, names)

(* A turn goes on with items that bring no name it has taken.              *)
LEMMA GoesOn ==
  ASSUME NEW h \in Seq(Item), NEW s, NEW taken, NEW l, NEW d, NEW names,
         TurnAt(h, s, taken, l, d, names),
         NEW g \in Seq(Item), NEW n \in Nat, DOMAIN g = 1..(Len(h) + n),
         \A i \in 1..Len(h) : g[i] = h[i],
         NEW more, taken \subseteq more,
         \A i \in 1..n : g[Len(h) + i].kind # "user",
         \A i \in 1..n : g[Len(h) + i].kind = "skill" =>
           /\ g[Len(h) + i].msg.name \in more \ taken
           /\ Right(g[Len(h) + i].msg, l, d, names),
         \A i, j \in 1..n :
           /\ g[Len(h) + i].kind = "skill" /\ g[Len(h) + j].kind = "skill"
           /\ g[Len(h) + i].msg.name = g[Len(h) + j].msg.name
           => i = j
  PROVE  TurnAt(g, s, more, l, d, names)
<1> DEFINE m == Len(h)
<1>1. m \in Nat /\ DOMAIN h = 1..m /\ DOMAIN g = 1..(m + n)
  OBVIOUS
<1>2. s \in 1..m /\ h[s].kind = "user"
  BY <1>1 DEF TurnAt
<1>3. ASSUME NEW i \in 1..(m + n), ~(i \in 1..m)
      PROVE  /\ i > s /\ ~(i < s) /\ g[i].kind # "user"
             /\ g[i].kind = "skill" => g[i].msg.name \in more \ taken
                                       /\ Right(g[i].msg, l, d, names)
  <2>1. i - m \in 1..n /\ m + (i - m) = i /\ i > s /\ ~(i < s)
    BY <1>1, <1>2, <1>3
  <2> QED
    BY <2>1
<1>4. ASSUME NEW i \in 1..(m + n), ~(i \in 1..m), NEW j \in 1..(m + n), ~(j \in 1..m),
             g[i].kind = "skill", g[j].kind = "skill", g[i].msg.name = g[j].msg.name
      PROVE  i = j
  <2>1. /\ i - m \in 1..n /\ m + (i - m) = i /\ j - m \in 1..n /\ m + (j - m) = j
    BY <1>1, <1>4
  <2>2. i - m = j - m
    BY <1>4, <2>1
  <2> QED
    BY <2>1, <2>2
<1>5. \A i \in 1..m : g[i] = h[i] /\ i \in 1..(m + n)
  BY <1>1
<1>6. Before(g, s) = Before(h, s)
  <2>1. /\ s - 1 \in Nat /\ s - 1 <= Len(h) /\ s - 1 <= Len(g)
        /\ \A i \in 1..(s - 1) : g[i] = h[i]
    BY <1>1, <1>2
  <2> QED
    BY <2>1, FirstItems DEF Before
<1> HIDE DEF m
<1>7. s \in DOMAIN g /\ g[s].kind = "user"
  BY <1>1, <1>2, <1>5
<1>8. ASSUME NEW i \in DOMAIN g, i > s PROVE g[i].kind # "user"
  <2>1. CASE i \in 1..m
    BY <1>1, <1>5, <1>8, <2>1 DEF TurnAt
  <2> QED
    BY <1>1, <1>3, <2>1
<1>9. ASSUME NEW i \in DOMAIN g, i > s, g[i].kind = "skill" PROVE g[i].msg.name \in more
  <2>1. CASE i \in 1..m
    BY <1>1, <1>5, <1>9, <2>1 DEF TurnAt
  <2> QED
    BY <1>1, <1>3, <1>9, <2>1
<1>10. ASSUME NEW i \in 1..m, i > s, g[i].kind = "skill" PROVE g[i].msg.name \in taken
  BY <1>1, <1>5, <1>10 DEF TurnAt
<1>11. ASSUME NEW i \in DOMAIN g, NEW j \in DOMAIN g, i > s, j > s,
              g[i].kind = "skill", g[j].kind = "skill", g[i].msg.name = g[j].msg.name
       PROVE  i = j
  <2>1. CASE i \in 1..m /\ j \in 1..m
    <3>1. i \in DOMAIN h /\ j \in DOMAIN h /\ g[i] = h[i] /\ g[j] = h[j]
      BY <1>1, <1>5, <2>1
    <3> QED
      BY <1>11, <3>1 DEF TurnAt
  <2>2. CASE i \notin 1..m /\ j \notin 1..m
    BY <1>1, <1>4, <1>11, <2>2
  <2>3. CASE i \in 1..m /\ j \notin 1..m
    BY <1>1, <1>3, <1>10, <1>11, <2>3
  <2>4. CASE i \notin 1..m /\ j \in 1..m
    BY <1>1, <1>3, <1>10, <1>11, <2>4
  <2> QED
    BY <2>1, <2>2, <2>3, <2>4
<1>12. \A x \in Before(g, s) : x.name \in taken
  BY <1>6 DEF TurnAt
<1>13. ASSUME NEW i \in DOMAIN g, i > s, g[i].kind = "skill"
       PROVE  g[i].msg \notin Before(g, s)
  <2>1. CASE i \in 1..m
    <3>1. i \in DOMAIN h /\ g[i] = h[i]
      BY <1>1, <1>5, <2>1
    <3> QED
      BY <1>13, <1>6, <3>1 DEF TurnAt
  <2>2. CASE i \notin 1..m
    BY <1>1, <1>3, <1>13, <1>12, <2>2
  <2> QED
    BY <2>1, <2>2
<1>14. ASSUME NEW i \in DOMAIN g, i > s, g[i].kind = "skill"
       PROVE  Right(g[i].msg, l, d, names)
  <2>1. CASE i \in 1..m
    <3>1. i \in DOMAIN h /\ g[i] = h[i]
      BY <1>1, <1>5, <2>1
    <3>2. Right(h[i].msg, l, d, names)
      BY <1>14, <3>1 DEF TurnAt
    <3> QED
      BY <3>1, <3>2
  <2> QED
    BY <1>1, <1>3, <1>14, <2>1
<1>15. \A x \in Before(g, s) : x.name \in more
  BY <1>12
<1> QED
  BY <1>7, <1>8, <1>9, <1>11, <1>13, <1>14, <1>15 DEF TurnAt

(* One more item that is not an injected one.                              *)
LEMMA OtherItem ==
  ASSUME NEW h \in Seq(Item), NEW kind \in {"user", "assistant", "tool"}
  PROVE  /\ h \o Other(kind) \in Seq(Item) /\ DOMAIN (h \o Other(kind)) = 1..(Len(h) + 1)
         /\ \A i \in 1..Len(h) : (h \o Other(kind))[i] = h[i]
         /\ (h \o Other(kind))[Len(h) + 1] = [kind |-> kind]
<1> DEFINE x == [kind |-> kind]
           m == Len(h)
           g == h \o <<x>>
<1>1. x \in Item
  BY DEF Item
<1> HIDE DEF x
<1>2. /\ <<x>> \in Seq(Item) /\ Len(<<x>>) = 1 /\ <<x>>[1] = x
  BY <1>1
<1> HIDE DEF g
<1>3. /\ g \in Seq(Item) /\ Len(g) = m + 1 /\ m \in Nat
      /\ \A i \in 1..(m + 1) : g[i] = IF i <= m THEN h[i] ELSE <<x>>[i - m]
  BY <1>2, ConcatProperties DEF g
<1> HIDE DEF m
<1>4. DOMAIN g = 1..(m + 1) /\ \A i \in 1..m : g[i] = h[i]
  <2>1. DOMAIN g = 1..(m + 1)
    BY <1>3
  <2>2. \A i \in 1..m : i \in 1..(m + 1) /\ i <= m
    BY <1>3
  <2> QED
    BY <1>3, <2>1, <2>2
<1>5. g[m + 1] = x
  <2>1. m + 1 \in 1..(m + 1) /\ ~(m + 1 <= m) /\ (m + 1) - m = 1
    BY <1>3
  <2> QED
    BY <1>2, <1>3, <2>1
<1> QED
  BY <1>3, <1>4, <1>5 DEF Other, g, m, x

(* A turn goes on with such an item.                                       *)
LEMMA OtherGoesOn ==
  ASSUME NEW h \in Seq(Item), NEW s, NEW taken, NEW l, NEW d, NEW names,
         TurnAt(h, s, taken, l, d, names), NEW kind \in {"assistant", "tool"}
  PROVE  TurnAt(h \o Other(kind), s, taken, l, d, names)
<1> DEFINE g == h \o Other(kind)
<1>1. /\ g \in Seq(Item) /\ DOMAIN g = 1..(Len(h) + 1)
      /\ \A i \in 1..Len(h) : g[i] = h[i]
      /\ g[Len(h) + 1] = [kind |-> kind]
  BY OtherItem
<1> HIDE DEF g
<1>2. \A i \in 1..1 : i = 1
  OBVIOUS
<1>3. \A i \in 1..1 : g[Len(h) + i].kind # "user" /\ g[Len(h) + i].kind # "skill"
  BY <1>1, <1>2
<1>4. 1 \in Nat
  OBVIOUS
<1>5. TurnAt(g, s, taken, l, d, names)
  BY <1>1, <1>2, <1>3, <1>4, GoesOn
<1> QED
  BY <1>5 DEF g

(* Nor does what the model has said end it.                                *)
LEMMA SpokenGoesOn ==
  ASSUME NEW h \in Seq(Item)
  PROVE  /\ h \o Spoken \in Seq(Item)
         /\ \A s, taken, l, d, names :
              TurnAt(h, s, taken, l, d, names) => TurnAt(h \o Spoken, s, taken, l, d, names)
<1>1. CASE parts = <<>>
  <2>1. Spoken = <<>>
    BY <1>1 DEF Spoken
  <2>2. h \o Spoken = h
    BY <2>1, ConcatEmptySeq
  <2> QED
    BY <2>2
<1>2. CASE parts # <<>>
  <2>1. Spoken = Other("assistant")
    BY <1>2 DEF Spoken
  <2>2. h \o Other("assistant") \in Seq(Item)
    BY OtherItem
  <2>3. ASSUME NEW s, NEW taken, NEW l, NEW d, NEW names, TurnAt(h, s, taken, l, d, names)
        PROVE  TurnAt(h \o Other("assistant"), s, taken, l, d, names)
    BY <2>3, OtherGoesOn
  <2> QED
    BY <2>1, <2>2, <2>3, Zenon
<1> QED
  BY <1>1, <1>2

(* An injection takes names of messages, and they are messages.            *)
LEMMA TakenNames ==
  ASSUME NEW h \in Seq(Item), NEW plan \in Seq(Message)
  PROVE  Taken(h, plan) \subseteq Names
<1>1. Front(h) \in Seq(Item)
  <2>1. \A i \in 1..(Len(h) - 1) : h[i] \in Item
    OBVIOUS
  <2>2. 1 \in Int /\ Len(h) - 1 \in Int
    OBVIOUS
  <2> QED
    BY <2>1, <2>2, SubSeqProperties DEF Front
<1> DEFINE t == SkillRun(Front(h))
<1>2. t \in Seq(Item) /\ \A i \in DOMAIN t : t[i].kind = "skill"
  BY <1>1, SkillRunOf
<1> HIDE DEF t
<1>3. ASSUME NEW i \in ToSet(t) PROVE i.msg \in Message
  <2>1. i \in Item /\ i.kind = "skill"
    BY <1>2 DEF ToSet
  <2> QED
    BY <2>1 DEF Item
<1>4. Existing(h) \subseteq Message
  BY <1>3 DEF Existing, t
<1>5. \A i \in DOMAIN plan : plan[i] \in Message
  OBVIOUS
<1>6. ToSet(plan) \subseteq Message
  BY <1>5 DEF ToSet
<1>7. \A m \in Message : m.name \in Names
  BY DEF Message
<1> QED
  BY <1>4, <1>6, <1>7 DEF Taken, NamesIn

(* The first injection of a turn, after the user's item.                   *)
LEMMA TurnStarts ==
  ASSUME NEW a \in Seq(Item), NEW plan \in Seq(Message),
         \A i, j \in DOMAIN plan : plan[i].name = plan[j].name => i = j,
         NEW l, NEW d, NEW names, \A i \in DOMAIN plan : Right(plan[i], l, d, names),
         NEW h, h = a \o Other("user")
  PROVE  /\ Injected(h, plan) \in Seq(Item)
         /\ TurnAt(Injected(h, plan), Len(a) + 1, Taken(h, plan), l, d, names)
<1> DEFINE s == Len(a) + 1
           g == Injected(h, plan)
           taken == Taken(h, plan)
<1>1. /\ h \in Seq(Item) /\ DOMAIN h = 1..s /\ Len(a) \in Nat /\ DOMAIN a = 1..Len(a)
      /\ \A i \in 1..Len(a) : h[i] = a[i]
      /\ h[s] = [kind |-> "user"]
  BY OtherItem
<1>2. Len(h) = s /\ s \in Nat
  BY <1>1
<1>3. Front(h) = a
  <2>1. Front(h) = SubSeq(h, 1, Len(a))
    BY <1>1, <1>2 DEF Front
  <2> DEFINE b == SubSeq(h, 1, Len(a))
  <2>2. /\ b \in Seq(Item) /\ Len(b) = IF 1 <= Len(a) THEN Len(a) - 1 + 1 ELSE 0
        /\ \A i \in 1..(Len(a) - 1 + 1) : b[i] = h[1 + i - 1]
    <3>1. 1 \in Int /\ Len(a) \in Int /\ \A i \in 1..Len(a) : h[i] \in Item
      BY <1>1
    <3> QED
      BY <3>1, SubSeqProperties
  <2> HIDE DEF b
  <2>3. Len(b) = Len(a)
    BY <1>1, <2>2
  <2>4. \A i \in 1..Len(b) : b[i] = a[i]
    BY <1>1, <2>2, <2>3
  <2>5. b = a
    BY <2>2, <2>3, <2>4, SeqEqual
  <2> QED
    BY <2>1, <2>5 DEF b
<1>4. PICK t \in Seq(Message) : Adds(h, plan, g, t)
  BY <1>1, InjectedShape
<1>5. Existing(h) = Before(g, s)
  <2>1. /\ g \in Seq(Item) /\ Len(a) <= Len(g) /\ Len(a) <= Len(a)
        /\ \A i \in 1..Len(a) : g[i] = a[i]
    <3> HIDE DEF g
    <3>1. g \in Seq(Item) /\ DOMAIN g = 1..(Len(h) + Len(t)) /\ \A i \in 1..Len(h) : g[i] = h[i]
      BY <1>4 DEF Adds
    <3>2. Len(g) = Len(h) + Len(t) /\ Len(t) \in Nat
      BY <3>1
    <3> QED
      BY <1>1, <1>2, <3>1, <3>2
  <2>2. SubSeq(g, 1, Len(a)) = SubSeq(a, 1, Len(a))
    <3> HIDE DEF g, s
    <3> QED
      BY <1>1, <2>1, FirstItems
  <2>3. SubSeq(g, 1, s - 1) = a
    <3>1. s - 1 = Len(a)
      BY <1>1
    <3> HIDE DEF g, s
    <3> QED
      BY <2>2, <3>1, SubSeqFull
  <2>4. Existing(h) = Messages(SkillRun(a))
    <3> HIDE DEF g, s
    <3> QED
      BY <1>1, <1>3, ScanSees
  <2> QED
    BY <2>3, <2>4 DEF Before
<1> DEFINE n == Len(t)
<1>6. n \in Nat
  OBVIOUS
<1> HIDE DEF g, taken, n, s
<1>7. ASSUME NEW i \in 1..(s + n)
      PROVE  \/ i < s
             \/ i = s /\ g[i].kind = "user"
             \/ /\ i > s /\ i - s \in 1..n /\ g[i].kind = "skill" /\ g[i].msg = t[i - s]
                /\ t[i - s] \in ToSet(plan) \ Existing(h)
  <2>1. CASE i < s
    BY <2>1
  <2>2. CASE i = s
    <3>1. g[s] = h[s]
      BY <1>2, <1>4, <2>2 DEF Adds
    <3> QED
      BY <1>1, <2>2, <3>1
  <2>3. CASE i > s
    <3>1. i - s \in 1..n /\ Len(h) + (i - s) = i
      <4>1. s \in Nat
        BY <1>2
      <4>2. i - s \in 1..n /\ s + (i - s) = i
        BY <1>6, <2>3, <4>1
      <4> QED
        BY <1>2, <4>2
    <3>2. g[i] = Skill(t[i - s]) /\ t[i - s] \in ToSet(plan) \ Existing(h)
      BY <1>4, <3>1 DEF n, Adds
    <3> QED
      BY <2>3, <3>1, <3>2 DEF Skill
  <2> QED
    BY <1>2, <1>6, <2>1, <2>2, <2>3
<1>8. DOMAIN g = 1..(s + n)
  BY <1>2, <1>4 DEF n, Adds
<1>9. s \in DOMAIN g /\ g[s].kind = "user"
  <2>1. s \in 1..(s + n) /\ ~(s < s) /\ ~(s > s)
    BY <1>1, <1>2, <1>6 DEF s
  <2> QED
    BY <1>7, <1>8, <2>1
<1>10. ASSUME NEW i \in DOMAIN g, i > s PROVE g[i].kind # "user"
  <2>1. ~(i < s) /\ i # s
    BY <1>2, <1>8, <1>10
  <2> QED
    BY <1>7, <1>8, <2>1
<1>11. ASSUME NEW i \in DOMAIN g, i > s PROVE g[i].msg.name \in taken
  <2>1. g[i].msg \in ToSet(plan)
    <3>1. ~(i < s) /\ i # s
      BY <1>2, <1>8, <1>11
    <3> QED
      BY <1>7, <1>8, <3>1
  <2> QED
    BY <2>1 DEF taken, Taken, NamesIn
<1>12. ASSUME NEW i \in DOMAIN g, NEW j \in DOMAIN g, i > s, j > s,
              g[i].msg.name = g[j].msg.name
       PROVE  i = j
  <2>1. /\ i - s \in 1..n /\ g[i].msg = t[i - s] /\ j - s \in 1..n /\ g[j].msg = t[j - s]
    <3>1. ~(i < s) /\ i # s /\ ~(j < s) /\ j # s
      BY <1>2, <1>8, <1>12
    <3> QED
      BY <1>7, <1>8, <3>1
  <2>2. i - s = j - s
    BY <1>4, <1>12, <2>1 DEF n, Adds
  <2> QED
    BY <1>2, <1>8, <2>2
<1>13. ASSUME NEW i \in DOMAIN g, i > s PROVE g[i].msg \notin Before(g, s)
  <2>1. ~(i < s) /\ i # s
    BY <1>2, <1>8, <1>13
  <2> QED
    BY <1>5, <1>7, <1>8, <2>1
<1>15. \A m \in Before(g, s) : m.name \in taken
  BY <1>5 DEF taken, Taken, NamesIn
<1>14. ASSUME NEW i \in DOMAIN g, i > s PROVE Right(g[i].msg, l, d, names)
  <2>1. ~(i < s) /\ i # s
    BY <1>2, <1>8, <1>14
  <2>2. g[i].msg \in ToSet(plan)
    BY <1>7, <1>8, <2>1
  <2> QED
    BY <2>2 DEF ToSet
<1>16. TurnAt(g, s, taken, l, d, names)
  BY <1>9, <1>10, <1>11, <1>12, <1>13, <1>14, <1>15 DEF TurnAt
<1> QED
  BY <1>4, <1>16 DEF g, s, taken, Adds

(* An injection later in the turn, of names it has not taken.              *)
LEMMA TurnInjects ==
  ASSUME NEW h \in Seq(Item), NEW plan \in Seq(Message),
         \A i, j \in DOMAIN plan : plan[i].name = plan[j].name => i = j,
         NEW s, NEW taken, NEW l, NEW d, NEW names, TurnAt(h, s, taken, l, d, names),
         \A i \in DOMAIN plan : plan[i].name \notin taken /\ Right(plan[i], l, d, names)
  PROVE  /\ Injected(h, plan) \in Seq(Item)
         /\ TurnAt(Injected(h, plan), s, taken \union Taken(h, plan), l, d, names)
<1> DEFINE g == Injected(h, plan)
           more == taken \union Taken(h, plan)
<1>1. PICK t \in Seq(Message) : Adds(h, plan, g, t)
  BY InjectedShape
<1> DEFINE n == Len(t)
<1>2. n \in Nat
  OBVIOUS
<1> HIDE DEF g, more, n
<1>3. ASSUME NEW i \in 1..n
      PROVE  /\ g[Len(h) + i].kind = "skill" /\ g[Len(h) + i].msg = t[i]
             /\ t[i].name \in more \ taken /\ Right(t[i], l, d, names)
  <2>1. t[i] \in ToSet(plan) /\ g[Len(h) + i] = Skill(t[i])
    BY <1>1 DEF n, Adds
  <2>2. t[i].name \in Taken(h, plan)
    BY <2>1 DEF Taken, NamesIn
  <2>3. t[i].name \notin taken /\ Right(t[i], l, d, names)
    BY <2>1 DEF ToSet
  <2> QED
    BY <2>1, <2>2, <2>3 DEF Skill, more
<1>4. \A i \in 1..n : g[Len(h) + i].kind # "user"
  BY <1>3
<1>5. \A i, j \in 1..n : g[Len(h) + i].msg.name = g[Len(h) + j].msg.name => i = j
  BY <1>1, <1>3 DEF n, Adds
<1>6. \A i \in 1..n : g[Len(h) + i].msg.name \in more \ taken
                      /\ Right(g[Len(h) + i].msg, l, d, names)
  BY <1>3
<1>7. /\ g \in Seq(Item) /\ DOMAIN g = 1..(Len(h) + n) /\ \A i \in 1..Len(h) : g[i] = h[i]
      /\ taken \subseteq more
  BY <1>1 DEF n, more, Adds
<1>8. TurnAt(g, s, more, l, d, names)
  <2>1. \A i \in 1..n : g[Len(h) + i].kind = "skill" =>
          /\ g[Len(h) + i].msg.name \in more \ taken
          /\ Right(g[Len(h) + i].msg, l, d, names)
    BY <1>6
  <2>2. \A i, j \in 1..n :
          /\ g[Len(h) + i].kind = "skill" /\ g[Len(h) + j].kind = "skill"
          /\ g[Len(h) + i].msg.name = g[Len(h) + j].msg.name
          => i = j
    BY <1>5
  <2> QED
    BY <1>2, <1>4, <1>7, <2>1, <2>2, GoesOn
<1> QED
  BY <1>7, <1>8 DEF g, more

-------------------------------------------------------------------------------
(* What every step keeps.                                                  *)

(* The files and the registry, which discovery got to its end for.         *)
FilesInv ==
  /\ layout \in Layouts
  /\ disk \in [Paths -> Files]
  /\ cache = NoCache \/ cache \in [Paths -> Files]
  /\ cache # NoCache => Discoverable(layout, cache)

(* The turn and its items.                                                 *)
TurnInv ==
  /\ pc \in {"idle", "sampling"}
  /\ history \in Seq(Item)
  /\ named \subseteq Names
  /\ budget \in 0..ModelSignalBudget
  /\ asked \subseteq Names
  /\ pc = "sampling" => \E s : TurnAt(history, s, named, layout, cache, asked)

SkillInv == FilesInv /\ TurnInv /\ TextInv /\ calling \in BOOLEAN

(* The lemmas about discovery are about these files.                       *)
LEMMA FilesRead ==
  ASSUME FilesInv
  PROVE  /\ layout \in Layout /\ disk \in Disks
         /\ cache # NoCache => cache \in Disks /\ Discoverable(layout, cache)
<1>1. [Paths -> Files] \subseteq [Paths -> File]
  BY TurnAssumption
<1> QED
  BY <1>1, TurnAssumption DEF FilesInv, Disks

(* A message that says the right thing is right for a name that was asked  *)
(* for, or that the model may ask for.                                     *)
LEMMA SaidRight ==
  ASSUME NEW l, NEW d, NEW n, NEW m, Says(l, d, n, m), NEW names,
         n \in names \/ ~Disabled(Registry(l, d), n)
  PROVE  m.name = n /\ Right(m, l, d, names)
BY DEF Says, Right

(* The registry is read from files that discovery can deal with; an edit   *)
(* is of files, never of what was read.                                    *)
LEMMA FilesStep == ASSUME FilesInv, [Next]_vars PROVE FilesInv'
<1> USE DEF FilesInv
<1>1. ASSUME UNCHANGED <<layout, disk>>, cache' = cache \/ cache' = NoCache PROVE FilesInv'
  BY <1>1 DEF Discoverable
<1>2. CASE UNCHANGED vars
  BY <1>1, <1>2 DEF vars, files
<1>3. ASSUME NEW text \in Texts, StartTurn(text) PROVE FilesInv'
  <2>1. LoadRegistry /\ UNCHANGED <<layout, disk>>
    BY <1>3, Zenon DEF StartTurn, files
  <2>2. CASE cache = NoCache /\ Discoverable(layout, disk)
    <3>1. cache' = disk
      BY <2>1, <2>2 DEF LoadRegistry
    <3>2. Discoverable(layout', cache')
      BY <2>1, <2>2, <3>1
    <3> QED
      BY <2>1, <3>1, <3>2
  <2>3. CASE ~(cache = NoCache /\ Discoverable(layout, disk))
    <3>1. cache' = cache
      BY <2>1, <2>3 DEF LoadRegistry
    <3> QED
      BY <1>1, <2>1, <3>1
  <2> QED
    BY <2>2, <2>3
<1>4. ASSUME Stream PROVE FilesInv'
  <2>1. UNCHANGED <<layout, disk, cache>>
    BY <1>4 DEF Stream, Delta, MessageDone, CallDone, ResponseCompleted, StreamBreaks,
                Streaming, files
  <2> QED
    BY <1>1, <2>1
<1>5. ASSUME SamplingFails \/ CallsRound \/ Answered PROVE FilesInv'
  <2>1. UNCHANGED <<layout, disk, cache>>
    BY <1>5 DEF SamplingFails, CallsRound, Answered, files
  <2> QED
    BY <1>1, <2>1
<1>6. ASSUME SignalRound PROVE FilesInv'
  <2>1. UNCHANGED <<layout, disk, cache>>
    BY <1>6, Zenon DEF SignalRound, files
  <2> QED
    BY <1>1, <2>1
<1>7. ASSUME Restart PROVE FilesInv'
  <2>1. UNCHANGED <<layout, disk>> /\ cache' = NoCache
    BY <1>7 DEF Restart, files
  <2> QED
    BY <1>1, <2>1
<1>8. ASSUME NEW p \in Paths, NEW f \in Edited, Edit(p, f) PROVE FilesInv'
  <2>1. layout' = layout /\ cache' = cache /\ disk' = [disk EXCEPT ![p] = f]
    BY <1>8 DEF Edit
  <2>2. disk' \in [Paths -> Files]
    BY <2>1, TurnAssumption
  <2> QED
    BY <2>1, <2>2 DEF Discoverable
<1> QED
  BY <1>2, <1>3, <1>4, <1>5, <1>6, <1>7, <1>8 DEF Next

(* There is a call in the sampling or there is none.                       *)
LEMMA CallingStep == ASSUME calling \in BOOLEAN, [Next]_vars PROVE calling' \in BOOLEAN
<1>1. \/ calling' = calling \/ calling' = TRUE \/ calling' = FALSE
  <2>1. ASSUME NEW text \in Texts, StartTurn(text) PROVE calling' = FALSE
    BY <2>1, Zenon DEF StartTurn, EndTurn, NewSampling
  <2>2. ASSUME SignalRound PROVE calling' = FALSE
    BY <2>2, Zenon DEF SignalRound, EndTurn, NewSampling
  <2>3. ASSUME Stream PROVE calling' = calling \/ calling' = TRUE
    BY <2>3, Zenon DEF Stream, Delta, MessageDone, CallDone, ResponseCompleted, StreamBreaks
  <2>4. ASSUME SamplingFails \/ CallsRound \/ Answered \/ Restart PROVE calling' = FALSE
    BY <2>4, Zenon DEF SamplingFails, CallsRound, Answered, Restart, EndTurn, NewSampling
  <2>5. ASSUME NEW p \in Paths, NEW f \in Edited, Edit(p, f) PROVE calling' = calling
    BY <2>5, Zenon DEF Edit, sampling
  <2>6. CASE UNCHANGED vars
    BY <2>6, Zenon DEF vars, sampling
  <2> QED
    BY <2>1, <2>2, <2>3, <2>4, <2>5, <2>6, Zenon DEF Next
<1> QED
  BY <1>1, Zenon

(* A turn starts with a plan for what the user mentions; goes on with what *)
(* the model says, calls and names; and at its end leaves its items.       *)
LEMMA TurnStep ==
  ASSUME FilesInv, FilesInv', TurnInv, parts \in Seq(Part), [Next]_vars
  PROVE  TurnInv'
<1>1. ASSUME UNCHANGED <<layout, cache, pc, history, turn>> PROVE TurnInv'
  BY <1>1 DEF TurnInv, turn
<1>2. ASSUME EndTurn, history' \in Seq(Item) PROVE TurnInv'
  <2>1. pc' = "idle" /\ named' = {} /\ budget' = 0 /\ asked' = {}
    BY <1>2 DEF EndTurn
  <2>2. 0 \in 0..ModelSignalBudget
    BY TurnAssumption
  <2> QED
    BY <1>2, <2>1, <2>2 DEF TurnInv
<1>3. CASE UNCHANGED vars
  BY <1>1, <1>3 DEF vars, files
<1>4. ASSUME NEW text \in Texts, StartTurn(text) PROVE TurnInv'
  <2> DEFINE a == history
             h == a \o Other("user")
             names == Mentions(text)
             reg == Registry(layout, cache')
             plan == IF cache' = NoCache THEN <<>> ELSE InjectionPlan(reg, disk, names)
             raises == cache' # NoCache /\ PlanRaises(reg, disk, names)
  <2>1. /\ raises => history' = h /\ EndTurn
        /\ ~raises =>
             /\ history' = Injected(h, plan)
             /\ named' = Taken(h, plan)
             /\ budget' = ModelSignalBudget
             /\ asked' = AskedIn(text)
             /\ pc' = "sampling"
        /\ layout' = layout
    BY <1>4, Zenon DEF StartTurn, files, AskedIn
  <2>2. text \in Seq(Occurrence)
    BY TurnAssumption
  <2>3. names \in Seq(Names) /\ IsInjective(names)
        /\ \A i \in DOMAIN names : names[i] \in AskedIn(text)
    BY <2>2, MentionsOnce
  <2>4. AskedIn(text) \subseteq Names
    <3>1. \A i \in DOMAIN text : text[i] \in Occurrence
      BY <2>2
    <3> QED
      BY <3>1 DEF AskedIn, Occurrence
  <2>5. a \in Seq(Item)
    BY DEF TurnInv
  <2> HIDE DEF a, names, raises
  <2>6. h \in Seq(Item)
    BY <2>5, OtherItem
  <2>7. /\ plan \in Seq(Message)
        /\ \A i, j \in DOMAIN plan : plan[i].name = plan[j].name => i = j
        /\ \A i \in DOMAIN plan : Right(plan[i], layout', cache', AskedIn(text))
    <3>1. CASE cache' = NoCache
      <4>1. plan = <<>>
        BY <3>1
      <4>2. <<>> \in Seq(Message) /\ DOMAIN <<>> = {}
        OBVIOUS
      <4> HIDE DEF plan
      <4> QED
        BY <4>1, <4>2
    <3>2. CASE cache' # NoCache
      <4>1. layout \in Layout /\ cache' \in Disks /\ Discoverable(layout, cache')
        <5>1. [Paths -> Files] \subseteq [Paths -> File]
          BY TurnAssumption
        <5> QED
          BY <2>1, <3>2, <5>1, TurnAssumption DEF FilesInv, Disks
      <4>2. plan = InjectionPlan(reg, disk, names)
        BY <3>2
      <4> HIDE DEF plan
      <4>3. Planned(layout, cache', names, plan)
        BY <2>3, <4>1, <4>2, PlanRight
      <4>4. ASSUME NEW i \in DOMAIN plan
            PROVE  Right(plan[i], layout', cache', AskedIn(text))
        <5>1. PICK k \in DOMAIN names : Says(layout, cache', names[k], plan[i])
          BY <4>3 DEF Planned
        <5>2. names[k] \in AskedIn(text)
          BY <2>3
        <5>3. Right(plan[i], layout, cache', AskedIn(text))
          BY <5>1, <5>2, SaidRight
        <5> QED
          BY <2>1, <5>3
      <4> QED
        BY <4>3, <4>4 DEF Planned
    <3> QED
      BY <3>1, <3>2
  <2> HIDE DEF plan, h
  <2>8. CASE raises
    BY <1>2, <2>1, <2>6, <2>8
  <2>9. CASE ~raises
    <3>1. /\ Injected(h, plan) \in Seq(Item)
          /\ TurnAt(Injected(h, plan), Len(a) + 1, Taken(h, plan), layout', cache', AskedIn(text))
      BY <2>5, <2>7, TurnStarts DEF h
    <3>2. Taken(h, plan) \subseteq Names
      BY <2>6, <2>7, TakenNames
    <3>3. ModelSignalBudget \in 0..ModelSignalBudget
      BY TurnAssumption
    <3>4. /\ history' \in Seq(Item) /\ named' \subseteq Names /\ asked' \subseteq Names
          /\ pc' = "sampling" /\ budget' \in 0..ModelSignalBudget
          /\ TurnAt(history', Len(a) + 1, named', layout', cache', asked')
      BY <2>1, <2>4, <2>9, <3>1, <3>2, <3>3
    <3> QED
      BY <3>4 DEF TurnInv
  <2> QED
    BY <2>8, <2>9
<1>5. ASSUME Stream PROVE TurnInv'
  BY <1>1, <1>5 DEF Stream, Delta, MessageDone, CallDone, ResponseCompleted, StreamBreaks,
                    Streaming, files
<1>6. ASSUME SamplingFails PROVE TurnInv'
  <2>1. EndTurn /\ history' = history
    BY <1>6 DEF SamplingFails
  <2> QED
    BY <1>2, <2>1 DEF TurnInv
<1>7. ASSUME CallsRound PROVE TurnInv'
  <2> DEFINE h == history \o Spoken
  <2>1. /\ history' = h \o Other("tool") /\ pc = "sampling" /\ UNCHANGED <<layout, cache, pc, turn>>
    BY <1>7 DEF CallsRound, files
  <2>2. history \in Seq(Item)
    BY DEF TurnInv
  <2>3. PICK s : TurnAt(history, s, named, layout, cache, asked)
    BY <2>1 DEF TurnInv
  <2>4. h \in Seq(Item) /\ TurnAt(h, s, named, layout, cache, asked)
    BY <2>2, <2>3, SpokenGoesOn
  <2> HIDE DEF h
  <2>5. history' \in Seq(Item) /\ TurnAt(history', s, named, layout, cache, asked)
    BY <2>1, <2>4, OtherItem, OtherGoesOn
  <2> QED
    BY <2>1, <2>5 DEF TurnInv, turn
<1>8. ASSUME SignalRound PROVE TurnInv'
  <2> DEFINE h == history \o Spoken
             names == Signals(Text)
             plan == InjectionPlan(registry, disk, names)
             raises == PlanRaises(registry, disk, names)
  <2>1. /\ pc = "sampling" /\ budget > 0 /\ names # <<>>
        /\ raises => history' = h /\ EndTurn
        /\ ~raises =>
             /\ history' = Injected(h, plan)
             /\ named' = named \union Taken(h, plan)
             /\ budget' = budget - 1
             /\ UNCHANGED <<pc, asked>>
        /\ UNCHANGED <<layout, cache>>
    BY <1>8, Zenon DEF SignalRound, files
  <2>2. /\ names \in Seq(Names) /\ IsInjective(names)
        /\ \A i \in DOMAIN names : names[i] \notin named /\ ~Disabled(registry, names[i])
        /\ cache # NoCache
    BY <2>1, TextType, SignalsRight
  <2>3. layout \in Layout /\ cache \in Disks /\ Discoverable(layout, cache)
    BY <2>2, FilesRead
  <2>4. Planned(layout, cache, names, plan)
    <3> HIDE DEF names
    <3>1. Planned(layout, cache, names, InjectionPlan(Registry(layout, cache), disk, names))
      BY <2>2, <2>3, PlanRight
    <3> QED
      BY <3>1 DEF registry
  <2>5. history \in Seq(Item) /\ named \subseteq Names /\ asked \subseteq Names
        /\ budget \in 0..ModelSignalBudget
    BY DEF TurnInv
  <2>6. PICK s : TurnAt(history, s, named, layout, cache, asked)
    BY <2>1 DEF TurnInv
  <2>7. h \in Seq(Item) /\ TurnAt(h, s, named, layout, cache, asked)
    BY <2>5, <2>6, SpokenGoesOn
  <2> HIDE DEF h, names, plan, raises
  <2>8. ASSUME NEW i \in DOMAIN plan
        PROVE  plan[i].name \notin named /\ Right(plan[i], layout, cache, asked)
    <3>1. PICK k \in DOMAIN names : Says(layout, cache, names[k], plan[i])
      BY <2>4 DEF Planned
    <3>2. names[k] \notin named /\ ~Disabled(Registry(layout, cache), names[k])
      BY <2>2 DEF registry
    <3>3. plan[i].name = names[k] /\ Right(plan[i], layout, cache, asked)
      BY <3>1, <3>2, SaidRight
    <3> QED
      BY <3>2, <3>3
  <2>9. CASE raises
    BY <1>2, <2>1, <2>7, <2>9
  <2>10. CASE ~raises
    <3> DEFINE more == named \union Taken(h, plan)
    <3>1. plan \in Seq(Message) /\ \A i, j \in DOMAIN plan : plan[i].name = plan[j].name => i = j
      BY <2>4 DEF Planned
    <3>2. /\ Injected(h, plan) \in Seq(Item)
          /\ TurnAt(Injected(h, plan), s, more, layout, cache, asked)
      BY <2>7, <2>8, <3>1, TurnInjects
    <3>3. more \subseteq Names
      BY <2>5, <2>7, <3>1, TakenNames
    <3>4. budget - 1 \in 0..ModelSignalBudget
      BY <2>1, <2>5, TurnAssumption
    <3> HIDE DEF more
    <3>5. /\ history' \in Seq(Item) /\ named' \subseteq Names /\ asked' \subseteq Names
          /\ pc' = "sampling" /\ budget' \in 0..ModelSignalBudget
          /\ TurnAt(history', s, named', layout', cache', asked')
      BY <2>1, <2>5, <2>10, <3>2, <3>3, <3>4 DEF more
    <3> QED
      BY <3>5 DEF TurnInv
  <2> QED
    BY <2>9, <2>10
<1>9. ASSUME Answered PROVE TurnInv'
  <2>1. EndTurn /\ history' = history \o Spoken
    BY <1>9 DEF Answered
  <2>2. history \o Spoken \in Seq(Item)
    BY SpokenGoesOn DEF TurnInv
  <2> QED
    BY <1>2, <2>1, <2>2
<1>10. ASSUME Restart PROVE TurnInv'
  <2>1. EndTurn /\ history' = history
    BY <1>10 DEF Restart
  <2> QED
    BY <1>2, <2>1 DEF TurnInv
<1>11. ASSUME NEW p \in Paths, NEW f \in Edited, Edit(p, f) PROVE TurnInv'
  BY <1>1, <1>11 DEF Edit
<1> QED
  BY <1>3, <1>4, <1>5, <1>6, <1>7, <1>8, <1>9, <1>10, <1>11 DEF Next

(* Every step keeps the three parts.                                       *)
LEMMA SkillStep == ASSUME SkillInv, [Next]_vars PROVE SkillInv'
<1>1. FilesInv /\ TurnInv /\ TextInv /\ calling \in BOOLEAN
  BY DEF SkillInv
<1>2. FilesInv' /\ TextInv' /\ calling' \in BOOLEAN
  BY <1>1, FilesStep, TextStep, CallingStep
<1>3. TurnInv'
  BY <1>1, <1>2, TurnStep DEF TextInv
<1> QED
  BY <1>2, <1>3 DEF SkillInv

(* They hold at first.                                                     *)
LEMMA SkillStart == ASSUME Init PROVE SkillInv
<1>1. FilesInv /\ calling \in BOOLEAN
  BY TurnAssumption DEF Init, FilesInv
<1>2. TurnInv
  <2>1. 0 \in 0..ModelSignalBudget /\ <<>> \in Seq(Item)
    BY TurnAssumption
  <2> QED
    BY <2>1 DEF Init, TurnInv
<1>3. TextInv
  <2>1. 1 \in 1..MaxAttempts /\ <<>> \in Seq(Part) /\ DOMAIN <<>> = {}
    BY DEF MaxAttempts
  <2> QED
    BY <2>1 DEF Init, TextInv, TextOnce
<1> QED
  BY <1>1, <1>2, <1>3 DEF SkillInv

(* The inductive invariant: the files the registry was read from, the      *)
(* turn's items and the text of its answer fit together at every step.     *)
THEOREM SkillsHold == Spec => []SkillInv
BY SkillStart, SkillStep, PTL DEF Spec

(* Type correctness.                                                       *)
THEOREM TypeCorrect == Spec => []TypeOK
<1>1. SkillInv => TypeOK
  BY DEF SkillInv, FilesInv, TurnInv, TextInv, TypeOK
<1> QED
  BY <1>1, SkillsHold, PTL

(* The messages of a stretch of a history are those of its items.          *)
LEMMA MessagesIn ==
  ASSUME NEW h \in Seq(Item), NEW lo \in Nat \ {0}, NEW hi \in 0..Len(h),
         NEW m \in Messages(SubSeq(h, lo, hi))
  PROVE  \E i \in DOMAIN h : lo <= i /\ i <= hi /\ h[i].kind = "skill" /\ h[i].msg = m
<1> DEFINE t == SubSeq(h, lo, hi)
<1>1. Len(h) \in Nat /\ DOMAIN h = 1..Len(h) /\ \A i \in 1..Len(h) : h[i] \in Item
  OBVIOUS
<1>2. /\ t \in Seq(Item) /\ Len(t) = IF lo <= hi THEN hi - lo + 1 ELSE 0
      /\ \A i \in 1..(hi - lo + 1) : t[i] = h[lo + i - 1]
  <2>1. lo \in Int /\ hi \in Int /\ \A i \in lo..hi : h[i] \in Item
    BY <1>1
  <2> QED
    BY <2>1, SubSeqProperties
<1>3. PICK x \in ToSet(t) : x.kind = "skill" /\ x.msg = m
  BY DEF Messages
<1> HIDE DEF t
<1>4. PICK k \in 1..Len(t) : t[k] = x
  BY <1>2, <1>3 DEF ToSet
<1>5. /\ lo + k - 1 \in 1..Len(h) /\ lo <= lo + k - 1 /\ lo + k - 1 <= hi
      /\ k \in 1..(hi - lo + 1)
  BY <1>1, <1>2, <1>4
<1>6. h[lo + k - 1] = x
  BY <1>2, <1>4, <1>5
<1> QED
  BY <1>1, <1>3, <1>5, <1>6

(* The turn at hand, as the properties see it.                             *)
LEMMA TurnAtStart ==
  ASSUME SkillInv, pc = "sampling"
  PROVE  /\ history \in Seq(Item)
         /\ Start \in 1..Len(history)
         /\ TurnAt(history, Start, named, layout, cache, asked)
<1>1. history \in Seq(Item)
  BY DEF SkillInv, TurnInv
<1>2. PICK s : TurnAt(history, s, named, layout, cache, asked)
  BY DEF SkillInv, TurnInv
<1>3. UserAt(history) = s
  BY <1>1, <1>2, UserLast DEF TurnAt
<1>4. Start = UserAt(history)
  BY Zenon DEF Start, UserAt
<1>5. s \in 1..Len(history)
  BY <1>1, <1>2 DEF TurnAt
<1> QED
  BY <1>1, <1>2, <1>3, <1>4, <1>5

(* A turn never injects a second message for a name, nor one that was      *)
(* injected just before its user's item, by an attempt that got no         *)
(* further: however often a name is mentioned, by the user and in any of   *)
(* the model's answers.                                                    *)
THEOREM InjectedAtMostOnce == Spec => []InjectedOnce
<1>1. ASSUME SkillInv PROVE InjectedOnce
  <2> DEFINE before == Messages(SkillRun(SubSeq(history, 1, Start - 1)))
             mine == {i \in DOMAIN history : i > Start /\ history[i].kind = "skill"}
  <2> SUFFICES ASSUME pc = "sampling"
               PROVE  /\ \A i, j \in mine : history[i].msg.name = history[j].msg.name => i = j
                      /\ \A i \in mine : history[i].msg \notin before
    BY Zenon DEF InjectedOnce
  <2>1. /\ history \in Seq(Item) /\ Start \in 1..Len(history)
        /\ TurnAt(history, Start, named, layout, cache, asked)
    BY <1>1, TurnAtStart
  <2> DEFINE s == Start
  <2>2. s \in 1..Len(history) /\ TurnAt(history, s, named, layout, cache, asked)
    BY <2>1
  <2>3. before = Before(history, s)
    BY DEF Before
  <2> HIDE DEF s, before
  <2>4. ASSUME NEW i \in mine, NEW j \in mine, history[i].msg.name = history[j].msg.name
        PROVE  i = j
    BY <2>2, <2>4 DEF TurnAt, s
  <2>5. ASSUME NEW i \in mine PROVE history[i].msg \notin before
    <3>1. i \in DOMAIN history /\ i > s /\ history[i].kind = "skill"
      BY DEF s
    <3> HIDE DEF mine
    <3> QED
      BY <2>2, <2>3, <3>1 DEF TurnAt
  <2> QED
    BY <2>4, <2>5
<1> QED
  BY <1>1, SkillsHold, PTL

(* A skill that is injected is the file of the highest scope that has its  *)
(* name, the only one there, and the user has asked for it or it lets the  *)
(* model ask: on the files the registry was read from, whatever becomes of *)
(* the files meanwhile.                                                    *)
THEOREM RightSkillInjected == Spec => []RightSkill
<1>1. ASSUME SkillInv PROVE RightSkill
  <2> DEFINE s == Start
             n == Len(history)
  <2> SUFFICES ASSUME pc = "sampling", NEW m \in Messages(SubSeq(history, s + 1, n))
               PROVE  Right(m, layout, cache, asked)
    BY DEF RightSkill, Right
  <2>1. /\ history \in Seq(Item) /\ s \in 1..n
        /\ TurnAt(history, s, named, layout, cache, asked)
    BY <1>1, TurnAtStart
  <2> HIDE DEF s
  <2>2. n \in 0..Len(history) /\ s \in Nat /\ s + 1 \in Nat \ {0}
    BY <2>1
  <2>3. PICK i \in DOMAIN history :
          s + 1 <= i /\ i <= n /\ history[i].kind = "skill" /\ history[i].msg = m
    BY <2>1, <2>2, MessagesIn
  <2>4. i > s
    BY <2>1, <2>2, <2>3
  <2> QED
    BY <2>1, <2>3, <2>4 DEF TurnAt
<1> QED
  BY <1>1, SkillsHold, PTL
===============================================================================
