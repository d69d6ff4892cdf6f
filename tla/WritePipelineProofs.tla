------------------------- MODULE WritePipelineProofs -------------------------
(***************************************************************************)
(* Proofs about the write pipeline, for any number of users, writes and    *)
(* faults and any size of the pipeline.                                    *)
(***************************************************************************)
EXTENDS WritePipeline, SequenceTheorems, TLAPS

USE MaxWritesAssumption, PendingAssumption, FaultsAssumption

\* The first element of a sequence, and what is left without it.
LEMMA TailFacts ==
  ASSUME NEW S, NEW s \in Seq(S), s # <<>>
  PROVE  /\ Len(s) \in Nat /\ Len(s) >= 1 /\ DOMAIN s = 1 .. Len(s)
         /\ Head(s) = s[1] /\ s[1] \in S
         /\ Tail(s) \in Seq(S)
         /\ Len(Tail(s)) = Len(s) - 1 /\ DOMAIN Tail(s) = 1 .. Len(s) - 1
         /\ \A i \in 1 .. Len(s) - 1 : Tail(s)[i] = s[i + 1]
<1>1. /\ Tail(s) \in Seq(S)
      /\ Len(Tail(s)) = Len(s) - 1
      /\ \A k \in 1 .. Len(Tail(s)) : Tail(s)[k] = s[k + 1]
      /\ Head(s) \in S
  BY HeadTailProperties
<1>2. /\ Len(s) \in Nat /\ Len(s) >= 1
      /\ DOMAIN s = 1 .. Len(s)
      /\ DOMAIN Tail(s) = 1 .. Len(s) - 1
  BY <1>1, EmptySeq, LenProperties
<1>3. Head(s) = s[1]
  OBVIOUS
<1> QED
  BY <1>1, <1>2, <1>3

\* z is s with t after it.
IsConcat(z, s, t) ==
  /\ Len(s) \in Nat /\ Len(t) \in Nat
  /\ DOMAIN s = 1 .. Len(s) /\ DOMAIN t = 1 .. Len(t)
  /\ Len(z) = Len(s) + Len(t) /\ DOMAIN z = 1 .. Len(s) + Len(t)
  /\ \A i \in 1 .. Len(s) : z[i] = s[i]
  /\ \A i \in 1 .. Len(t) : z[Len(s) + i] = t[i]

\* The concatenation of two sequences.
LEMMA ConcatFacts ==
  ASSUME NEW S, NEW s \in Seq(S), NEW t \in Seq(S)
  PROVE  s \o t \in Seq(S) /\ IsConcat(s \o t, s, t)
<1>1. /\ s \o t \in Seq(S)
      /\ Len(s \o t) = Len(s) + Len(t)
      /\ \A i \in 1 .. Len(s) + Len(t) :
           (s \o t)[i] = IF i <= Len(s) THEN s[i] ELSE t[i - Len(s)]
  BY ConcatProperties
<1>2. Len(s) \in Nat /\ Len(t) \in Nat /\ DOMAIN s = 1 .. Len(s) /\ DOMAIN t = 1 .. Len(t)
  BY LenProperties
<1>3. DOMAIN (s \o t) = 1 .. Len(s) + Len(t)
  BY <1>1, LenProperties
<1> QED
  BY <1>1, <1>2, <1>3 DEF IsConcat

\* A sequence with an element after it.
LEMMA AppendFacts ==
  ASSUME NEW S, NEW s \in Seq(S), NEW x \in S
  PROVE  /\ Len(s) \in Nat /\ DOMAIN s = 1 .. Len(s)
         /\ Append(s, x) \in Seq(S)
         /\ Len(Append(s, x)) = Len(s) + 1 /\ DOMAIN Append(s, x) = 1 .. Len(s) + 1
         /\ \A i \in 1 .. Len(s) : Append(s, x)[i] = s[i]
         /\ Append(s, x)[Len(s) + 1] = x
  BY AppendProperties, LenProperties
-----------------------------------------------------------------------------
(* What relates answers, wire and pipeline: AnswersMatch with equal lengths *)

Match(a, w, p) ==
  /\ Len(a) + Len(w) = Len(p)
  /\ \A i \in 1 .. Len(a) : a[i].batch = p[i]
  /\ \A i \in 1 .. Len(w) : w[i] = p[Len(a) + i]

Answers == [batch : Row, ok : BOOLEAN]

\* Batches are added to the pipeline and sent.
LEMMA MatchSends ==
  ASSUME NEW a, NEW w, NEW p, NEW s, NEW ws, NEW ps, Len(a) \in Nat,
         IsConcat(ws, w, s), IsConcat(ps, p, s), Match(a, w, p)
  PROVE  Match(a, ws, ps)
<1>1. /\ Len(a) \in Nat /\ Len(w) \in Nat /\ Len(p) \in Nat /\ Len(s) \in Nat
      /\ Len(a) + Len(w) = Len(p)
      /\ Len(ws) = Len(w) + Len(s) /\ Len(ps) = Len(p) + Len(s)
  BY DEF Match, IsConcat
<1>2. \A i \in 1 .. Len(a) : a[i].batch = ps[i]
  BY <1>1 DEF Match, IsConcat
<1>3. ASSUME NEW i \in 1 .. Len(ws) PROVE ws[i] = ps[Len(a) + i]
  <2>1. CASE i <= Len(w)
    <3>1. i \in 1 .. Len(w) /\ Len(a) + i \in 1 .. Len(p)
      BY <1>1, <2>1
    <3> QED
      BY <3>1 DEF Match, IsConcat
  <2>2. CASE i > Len(w)
    <3> DEFINE j == i - Len(w)
    <3>1. j \in 1 .. Len(s) /\ i = Len(w) + j /\ Len(a) + i = Len(p) + j
      BY <1>1, <2>2
    <3> HIDE DEF j
    <3>2. ws[Len(w) + j] = s[j] /\ ps[Len(p) + j] = s[j]
      BY <3>1 DEF IsConcat
    <3> QED
      BY <3>1, <3>2
  <2> QED
    BY <1>1, <2>1, <2>2
<1>4. \A i \in 1 .. Len(ws) : ws[i] = ps[Len(a) + i]
  BY <1>3
<1>5. Len(a) + Len(ws) = Len(ps)
  BY <1>1
<1> QED
  BY <1>2, <1>4, <1>5 DEF Match

\* The first answer is processed.
LEMMA MatchTails ==
  ASSUME NEW a \in Seq(Answers), NEW w \in Seq(Row), NEW p \in Seq(Row),
         Match(a, w, p), a # <<>>
  PROVE  Match(Tail(a), w, Tail(p)) /\ p # <<>> /\ a[1].batch = p[1]
<1>1. Len(w) \in Nat /\ Len(p) \in Nat
  BY LenProperties
<1>2. Len(a) \in Nat /\ Len(a) >= 1
  BY TailFacts
<1>3. Len(p) >= 1 /\ p # <<>> /\ a[1].batch = p[1]
  BY <1>1, <1>2, EmptySeq DEF Match
<1>4. /\ Len(Tail(a)) = Len(a) - 1 /\ \A i \in 1 .. Len(a) - 1 : Tail(a)[i] = a[i + 1]
      /\ Len(Tail(p)) = Len(p) - 1 /\ \A i \in 1 .. Len(p) - 1 : Tail(p)[i] = p[i + 1]
  BY <1>3, TailFacts
<1>5. \A i \in 1 .. Len(a) - 1 : Tail(a)[i].batch = Tail(p)[i]
  BY <1>1, <1>2, <1>4 DEF Match
<1>6. ASSUME NEW i \in 1 .. Len(w) PROVE w[i] = Tail(p)[Len(a) - 1 + i]
  <2>1. w[i] = p[Len(a) + i] /\ Len(a) - 1 + i \in 1 .. Len(p) - 1
    BY <1>1, <1>2 DEF Match
  <2>2. Len(a) - 1 + i + 1 = Len(a) + i
    BY <1>1, <1>2
  <2> QED
    BY <1>4, <2>1, <2>2
<1> QED
  BY <1>1, <1>2, <1>3, <1>4, <1>5, <1>6 DEF Match

\* The server answers the first batch on the wire.
LEMMA MatchAnswers ==
  ASSUME NEW a \in Seq(Answers), NEW w \in Seq(Row), NEW p \in Seq(Row), NEW ok \in BOOLEAN,
         Match(a, w, p), w # <<>>
  PROVE  Match(Append(a, [batch |-> Head(w), ok |-> ok]), Tail(w), p)
<1> DEFINE x == [batch |-> Head(w), ok |-> ok]
<1>1. /\ Len(w) \in Nat /\ Len(w) >= 1 /\ Head(w) = w[1] /\ w[1] \in Row
      /\ Len(Tail(w)) = Len(w) - 1 /\ \A i \in 1 .. Len(w) - 1 : Tail(w)[i] = w[i + 1]
  BY TailFacts
<1>2. x \in Answers /\ x.batch = w[1]
  BY <1>1 DEF Answers
<1>3. /\ Len(a) \in Nat
      /\ Len(Append(a, x)) = Len(a) + 1
      /\ \A i \in 1 .. Len(a) : Append(a, x)[i] = a[i]
      /\ Append(a, x)[Len(a) + 1] = x
  BY <1>2, AppendFacts
<1>4. ASSUME NEW i \in 1 .. Len(a) + 1 PROVE Append(a, x)[i].batch = p[i]
  <2>1. CASE i <= Len(a)
    BY <1>3, <2>1 DEF Match
  <2>2. CASE i = Len(a) + 1
    BY <1>1, <1>2, <1>3, <2>2 DEF Match
  <2> QED
    BY <1>3, <2>1, <2>2
<1>5. ASSUME NEW i \in 1 .. Len(w) - 1 PROVE Tail(w)[i] = p[Len(a) + 1 + i]
  <2>1. w[i + 1] = p[Len(a) + (i + 1)]
    BY <1>1 DEF Match
  <2>2. Len(a) + (i + 1) = Len(a) + 1 + i
    BY <1>3
  <2> QED
    BY <1>1, <2>1, <2>2
<1> HIDE DEF x
<1>6. Match(Append(a, x), Tail(w), p)
  BY <1>1, <1>3, <1>4, <1>5, LenProperties DEF Match
<1> QED
  BY <1>6 DEF x
-----------------------------------------------------------------------------
(* What FillWritePipeline adds                                              *)

\* What FillWritePipeline does, with the batches that it takes as a witness.
LEMMA FillFacts ==
  ASSUME NEW p, p \in Seq(Row), NEW rows \in SUBSET Row, NEW state,
         FillWritePipeline(p, rows, state)
  PROVE  \E s \in Seq(Row) :
           LET sends == state = "Open" /\ handshake = "complete" /\ s # <<>>
           IN  /\ IsRefill(s, p, rows)
               /\ pipeline' \in Seq(Row) /\ IsConcat(pipeline', p, s)
               /\ stream' = StartIfNeeded(pipeline', state)
               /\ wire' = IF sends THEN wire \o s ELSE IF state = "Open" THEN wire ELSE <<>>
               /\ idle' = (state = "Open" /\ ~sends /\ (idle \/ pipeline' = <<>>))
<1>1. PICK s \in Refills(p, rows) :
         LET sends == state = "Open" /\ handshake = "complete" /\ s # <<>>
         IN  /\ pipeline' = p \o s
             /\ stream' = StartIfNeeded(p \o s, state)
             /\ wire' = IF sends THEN wire \o s ELSE IF state = "Open" THEN wire ELSE <<>>
             /\ idle' = (state = "Open" /\ ~sends /\ (idle \/ p \o s = <<>>))
  BY DEF FillWritePipeline
<1>2. IsRefill(s, p, rows) /\ \E n \in 0 .. kMaxPendingWrites - Len(p) : s \in [1 .. n -> rows]
  BY <1>1 DEF Refills
<1>3. PICK n \in 0 .. kMaxPendingWrites - Len(p) : s \in [1 .. n -> rows]
  BY <1>2
<1>4. s \in Seq(Row)
  <2>1. n \in Nat
    BY <1>3
  <2> QED
    BY <1>3, <2>1
<1>5. p \o s \in Seq(Row) /\ IsConcat(p \o s, p, s)
  BY <1>4, ConcatFacts
<1> QED
  BY <1>1, <1>2, <1>4, <1>5

\* A pipeline that is the head of the queue is so after it is filled.
LEMMA RefillHead ==
  ASSUME NEW p, NEW s, NEW z, NEW rows,
         IsConcat(z, p, s), IsRefill(s, p, rows), Ascending(p),
         p = <<>> <=> Len(p) = 0, z = <<>> <=> Len(z) = 0,
         \A r \in rows : r.id \in Int,
         \A i \in DOMAIN p : p[i] \in rows,
         \A r \in rows : (\E i \in DOMAIN p : p[i] = r) \/ r.id > Last(p)
  PROVE  /\ Ascending(z)
         /\ \A i \in DOMAIN z : z[i] \in rows
         /\ \A r \in rows : \/ \E i \in DOMAIN z : z[i] = r
                            \/ Len(z) = kMaxPendingWrites /\ r.id > Last(z)
<1>1. /\ Len(p) \in Nat /\ Len(s) \in Nat /\ Len(z) = Len(p) + Len(s)
      /\ DOMAIN p = 1 .. Len(p) /\ DOMAIN s = 1 .. Len(s) /\ DOMAIN z = 1 .. Len(p) + Len(s)
  BY DEF IsConcat
<1>2. /\ Last(p) \in Int
      /\ \A i \in DOMAIN p : p[i].id \in Int /\ p[i].id <= Last(p)
  <2>1. CASE Len(p) = 0
    BY <1>1, <2>1 DEF Last, kBatchIdUnknown
  <2>2. CASE Len(p) > 0
    <3>1. Len(p) \in DOMAIN p /\ Last(p) = p[Len(p)].id
      BY <1>1, <2>2 DEF Last
    <3>2. \A i \in DOMAIN p : i = Len(p) \/ i < Len(p)
      BY <1>1
    <3>3. \A i \in DOMAIN p : p[i].id \in Int
      OBVIOUS
    <3> QED
      BY <3>1, <3>2, <3>3 DEF Ascending
  <2> QED
    BY <1>1, <2>1, <2>2
<1>3. ASSUME NEW i \in DOMAIN z
      PROVE  \/ i \in DOMAIN p /\ z[i] = p[i]
             \/ \E j \in DOMAIN s : i = Len(p) + j /\ z[i] = s[j]
  <2>1. CASE i <= Len(p)
    BY <1>1, <2>1 DEF IsConcat
  <2>2. CASE i > Len(p)
    <3>1. i - Len(p) \in 1 .. Len(s) /\ i = Len(p) + (i - Len(p))
      BY <1>1, <2>2
    <3>2. z[Len(p) + (i - Len(p))] = s[i - Len(p)]
      BY <3>1 DEF IsConcat
    <3> QED
      BY <1>1, <3>1, <3>2
  <2> QED
    BY <1>1, <2>1, <2>2
<1>4. \A j \in DOMAIN s : s[j] \in rows /\ s[j].id \in Int /\ s[j].id > Last(p)
  BY DEF IsRefill
<1>5. \A i \in DOMAIN z : z[i] \in rows
  BY <1>3, <1>4
<1>6. ASSUME NEW i \in DOMAIN z, NEW k \in DOMAIN z, i < k PROVE z[i].id < z[k].id
  <2>1. CASE i \in DOMAIN p /\ k \in DOMAIN p
    BY <1>1, <1>6, <2>1 DEF IsConcat, Ascending
  <2>2. CASE i \in DOMAIN p /\ k \notin DOMAIN p
    <3>1. PICK j \in DOMAIN s : z[k] = s[j]
      BY <1>3, <2>2
    <3>2. z[i] = p[i]
      BY <1>1, <2>2 DEF IsConcat
    <3> QED
      BY <1>2, <1>4, <2>2, <3>1, <3>2
  <2>3. CASE i \notin DOMAIN p
    <3>1. PICK j \in DOMAIN s : i = Len(p) + j /\ z[i] = s[j]
      BY <1>3, <2>3
    <3>2. k \notin DOMAIN p
      BY <1>1, <1>6, <2>3
    <3>3. PICK l \in DOMAIN s : k = Len(p) + l /\ z[k] = s[l]
      BY <1>3, <3>2
    <3>4. j < l
      BY <1>1, <1>6, <3>1, <3>3
    <3> QED
      BY <3>1, <3>3, <3>4 DEF IsRefill, Ascending
  <2> QED
    BY <2>1, <2>2, <2>3
<1>7. ASSUME NEW r \in rows
      PROVE  \/ \E i \in DOMAIN z : z[i] = r
             \/ Len(z) = kMaxPendingWrites /\ r.id > Last(z)
  <2>1. CASE \E i \in DOMAIN p : p[i] = r
    BY <1>1, <2>1 DEF IsConcat
  <2>2. CASE \E j \in DOMAIN s : s[j] = r
    <3>1. PICK j \in DOMAIN s : s[j] = r
      BY <2>2
    <3>2. Len(p) + j \in DOMAIN z /\ z[Len(p) + j] = r
      BY <1>1, <3>1 DEF IsConcat
    <3> QED
      BY <3>2
  <2>3. CASE /\ r.id > Last(p) /\ Len(p) + Len(s) = kMaxPendingWrites
             /\ \A j \in DOMAIN s : s[j].id < r.id
    <3>1. CASE Len(s) = 0
      <4>1. Len(z) = Len(p)
        BY <1>1, <3>1
      <4>2. CASE Len(p) = 0
        BY <4>1, <4>2, <2>3, <1>1 DEF Last
      <4>3. CASE Len(p) > 0
        <5>1. Len(p) \in 1 .. Len(p)
          BY <1>1, <4>3
        <5>2. z[Len(z)] = p[Len(p)]
          BY <4>1, <5>1 DEF IsConcat
        <5> QED
          BY <1>1, <2>3, <4>1, <4>3, <5>2 DEF Last
      <4> QED
        BY <1>1, <4>2, <4>3
    <3>2. CASE Len(s) > 0
      <4>1. Len(s) \in DOMAIN s /\ Len(z) = Len(p) + Len(s) /\ Len(z) # 0
        BY <1>1, <3>2
      <4>2. z[Len(p) + Len(s)] = s[Len(s)]
        BY <1>1, <4>1 DEF IsConcat
      <4>3. Last(z) = s[Len(s)].id
        BY <4>1, <4>2 DEF Last
      <4>4. s[Len(s)].id < r.id /\ s[Len(s)].id \in Int /\ r.id \in Int
        BY <1>4, <2>3, <4>1
      <4> QED
        BY <2>3, <4>1, <4>3, <4>4
    <3> QED
      BY <1>1, <3>1, <3>2
  <2>4. \/ \E i \in DOMAIN p : p[i] = r
        \/ r.id > Last(p)
    OBVIOUS
  <2>5. r.id > Last(p) => \/ \E j \in DOMAIN s : s[j] = r
                          \/ /\ Len(p) + Len(s) = kMaxPendingWrites
                             /\ \A j \in DOMAIN s : s[j].id < r.id
    BY DEF IsRefill
  <2> QED
    BY <2>1, <2>2, <2>3, <2>4, <2>5
<1>8. Ascending(z)
  BY <1>6 DEF Ascending
<1>9. \A r \in rows : \/ \E i \in DOMAIN z : z[i] = r
                      \/ Len(z) = kMaxPendingWrites /\ r.id > Last(z)
  BY <1>7
<1> QED
  BY <1>5, <1>8, <1>9
-----------------------------------------------------------------------------
(* What the inductive invariant says, for the proofs of its steps           *)

\* The lengths and domains of the sequences of the state.
LEMMA Shape ==
  ASSUME PipelineInv
  PROVE  /\ Len(answers) \in Nat /\ Len(wire) \in Nat /\ Len(pipeline) \in Nat
         /\ Len(calls) \in Nat
         /\ DOMAIN answers = 1 .. Len(answers) /\ DOMAIN wire = 1 .. Len(wire)
         /\ DOMAIN pipeline = 1 .. Len(pipeline) /\ DOMAIN calls = 1 .. Len(calls)
         /\ answers = <<>> <=> Len(answers) = 0
         /\ wire = <<>> <=> Len(wire) = 0
         /\ pipeline = <<>> <=> Len(pipeline) = 0
  BY EmptySeq, LenProperties DEF PipelineInv, TypeOK

\* With the handshake complete, answers and wire are the pipeline.
LEMMA Matched ==
  ASSUME PipelineInv
  PROVE  handshake = "complete" => Match(answers, wire, pipeline)
  BY Shape DEF PipelineInv, StreamInv, AnswersMatch, Match

\* Rows of one user are in the order of the calls.
LEMMA RowOrder ==
  ASSUME PipelineInv, NEW q \in disk, NEW r \in disk, q.user = r.user, q.call < r.call
  PROVE  q.id < r.id
<1>1. q.id \in Int /\ r.id \in Int /\ q.call \in Int /\ r.call \in Int
  BY Shape DEF PipelineInv, QueueInv, TypeOK, Row, Numbers
<1>2. q.id = r.id => q = r
  BY DEF PipelineInv, QueueInv
<1>3. r.id < q.id => r.call < q.call
  BY DEF PipelineInv, QueueInv
<1> QED
  BY <1>1, <1>2, <1>3

\* Calls that a connection must have brought before call n.
Earlier(n) == {m \in DOMAIN calls : m < n /\ calls[m] = calls[n] /\ m \notin applied \cup refused}

\* A connection holds every such call before call n.
Closed(s) ==
  \A i \in DOMAIN s :
    /\ s[i].call \in DOMAIN calls
    /\ \A m \in Earlier(s[i].call) : \E j \in DOMAIN s : j < i /\ s[j].call = m

\* StraysInv, said of each lost connection.
LEMMA StraysClosed == StraysInv <=> \A s \in strays : Closed(s)
  BY DEF StraysInv, Closed, Earlier

\* Where a call of the current user is in the pipeline when a later one is.
LEMMA InPipeline ==
  ASSUME PipelineInv, NEW i \in DOMAIN pipeline, NEW m \in Earlier(pipeline[i].call)
  PROVE  \E k \in DOMAIN pipeline : k < i /\ pipeline[k].call = m
<1> DEFINE r == pipeline[i]
<1>1. r \in disk /\ r.user = user /\ r.call \in DOMAIN calls /\ calls[r.call] = user
  BY DEF PipelineInv, PipelineIsHeadOfQueue, RowsOf, QueueInv
<1>2. PICK q \in disk : q.call = m
  BY DEF PipelineInv, QueueInv, Earlier
<1>3. q.user = user /\ q.call < r.call
  BY <1>1, <1>2 DEF Earlier, PipelineInv, QueueInv
<1>4. q.id < r.id /\ q.id \in Int /\ r.id \in Int
  BY <1>1, <1>2, <1>3, RowOrder DEF PipelineInv, QueueInv, TypeOK, Row
<1>5. r.id <= Last(pipeline) /\ Last(pipeline) \in Int
  <2>1. Len(pipeline) \in DOMAIN pipeline /\ i \in 1 .. Len(pipeline) /\ Len(pipeline) \in Nat
        /\ Last(pipeline) = pipeline[Len(pipeline)].id
    BY Shape DEF Last
  <2>2. pipeline[Len(pipeline)].id \in Int
    BY <2>1 DEF PipelineInv, PipelineIsHeadOfQueue, RowsOf, TypeOK, Row
  <2>3. i = Len(pipeline) \/ i < Len(pipeline)
    BY <2>1
  <2> QED
    BY <1>4, <2>1, <2>2, <2>3 DEF PipelineInv, PipelineIsHeadOfQueue, Ascending
<1>6. running
  BY Shape DEF PipelineInv, StreamInv
<1>7. PICK k \in DOMAIN pipeline : pipeline[k] = q
  <2>1. q \in RowsOf(user, disk)
    BY <1>2, <1>3 DEF RowsOf
  <2>2. ~(q.id > Last(pipeline))
    BY <1>4, <1>5
  <2> QED
    BY <1>6, <2>1, <2>2 DEF PipelineInv, PipelineIsHeadOfQueue
<1>8. ~(i < k) /\ i # k
  BY <1>3, <1>4, <1>7 DEF PipelineInv, PipelineIsHeadOfQueue, Ascending
<1>9. k < i
  BY <1>8, Shape
<1> QED
  BY <1>2, <1>7, <1>9

\* What is on the wire is on disk, with every earlier call before it.
LEMMA WireClosed ==
  ASSUME PipelineInv
  PROVE  /\ Closed(wire)
         /\ \A i \in DOMAIN wire : wire[i] \in disk
<1>1. ASSUME NEW i \in DOMAIN wire
      PROVE  /\ handshake = "complete" /\ Match(answers, wire, pipeline)
             /\ Len(answers) + i \in DOMAIN pipeline
             /\ wire[i] = pipeline[Len(answers) + i]
  <2>1. handshake = "complete"
    BY Shape DEF PipelineInv, StreamInv
  <2>2. Match(answers, wire, pipeline)
    BY <2>1, Matched
  <2>3. Len(answers) + i \in DOMAIN pipeline
    BY <2>2, Shape DEF Match
  <2> QED
    BY <2>1, <2>2, <2>3, Shape DEF Match
<1>2. ASSUME NEW i \in DOMAIN wire
      PROVE  wire[i] \in disk /\ wire[i].call \in DOMAIN calls
  BY <1>1 DEF PipelineInv, PipelineIsHeadOfQueue, RowsOf, QueueInv
<1>3. ASSUME NEW i \in DOMAIN wire, NEW m \in Earlier(wire[i].call)
      PROVE  \E j \in DOMAIN wire : j < i /\ wire[j].call = m
  <2>1. PICK k \in DOMAIN pipeline : k < Len(answers) + i /\ pipeline[k].call = m
    BY <1>1, InPipeline
  <2>2. k \notin DOMAIN answers
    <3>1. ASSUME k \in DOMAIN answers PROVE FALSE
      <4>1. answers[k].batch.call = m
        BY <1>1, <2>1, <3>1, Shape DEF Match
      <4>2. answers[k].ok \in BOOLEAN
        <5>1. answers \in Seq([batch : Row, ok : BOOLEAN])
          BY DEF PipelineInv, TypeOK
        <5>2. answers[k] \in [batch : Row, ok : BOOLEAN]
          BY <3>1, <5>1, ElementOfSeq, Shape
        <5> QED
          BY <5>2
      <4>3. m \in applied \cup refused
        BY <3>1, <4>1, <4>2 DEF PipelineInv, StreamInv
      <4> QED
        BY <4>3 DEF Earlier
    <3> QED
      BY <3>1
  <2> DEFINE j == k - Len(answers)
  <2>3. j \in DOMAIN wire /\ j < i /\ k = Len(answers) + j
    <3>1. /\ Len(answers) \in Nat /\ Len(wire) \in Nat
          /\ Len(answers) + Len(wire) = Len(pipeline)
          /\ k \in 1 .. Len(pipeline) /\ k \notin 1 .. Len(answers)
          /\ i \in 1 .. Len(wire) /\ DOMAIN wire = 1 .. Len(wire)
      BY <1>1, <2>1, <2>2, Shape DEF Match
    <3> QED
      BY <2>1, <3>1
  <2>4. wire[j] = pipeline[k]
    <3>1. \A n \in 1 .. Len(wire) : wire[n] = pipeline[Len(answers) + n]
      BY <1>1 DEF Match
    <3>2. j \in 1 .. Len(wire)
      BY <2>3, Shape
    <3> HIDE DEF j
    <3> QED
      BY <2>3, <3>1, <3>2
  <2> QED
    BY <2>1, <2>3, <2>4
<1> QED
  BY <1>2, <1>3 DEF Closed
-----------------------------------------------------------------------------
(* What several steps do                                                    *)

\* The queue's part, where neither rows nor verdicts change.
LEMMA RowsKept ==
  ASSUME PipelineInv, UNCHANGED <<disk, nextBatchId, server, calls>>
  PROVE  QueueInv' /\ AppliedInOrder'
  BY DEF PipelineInv, QueueInv, AppliedInOrder, server

\* The lost connections' part, where they do not change.
LEMMA StraysKept ==
  ASSUME PipelineInv, UNCHANGED <<strays, server, calls>>
  PROVE  StraysInv'
  BY DEF PipelineInv, StraysInv, server

\* What was on the wire joins what other lost connections hold.
LEMMA Disconnected ==
  ASSUME PipelineInv, Disconnect, UNCHANGED <<server, calls>>
  PROVE  /\ StraysInv' /\ strays' \in SUBSET Seq(Row)
         /\ handshake' = "none" /\ answers' = <<>> /\ answers' \in Seq(Answers)
<1>1. \A s \in strays : Closed(s)
  BY StraysClosed DEF PipelineInv
<1>2. \A s \in strays' : Closed(s)
  BY <1>1, WireClosed DEF Disconnect
<1>3. StraysInv'
  BY <1>2 DEF StraysInv, Closed, Earlier, server
<1>4. strays' \in SUBSET Seq(Row)
  BY DEF Disconnect, PipelineInv, TypeOK
<1> QED
  BY <1>3, <1>4, EmptySeq DEF Disconnect

\* A stream that is not open has nothing on the wire and no answers.
LEMMA Cut ==
  ASSUME handshake' = "none", answers' = <<>>, wire' = <<>>, idle' = FALSE,
         stream' # "Open", pipeline' \in Seq(Row),
         ~running' => pipeline' = <<>> /\ stream' = "Initial" /\ blocks' = {}
  PROVE  StreamInv' /\ AnswersMatch' /\ IdleMeansNothingToSend'
<1>1. Len(answers') = 0 /\ Len(wire') = 0 /\ DOMAIN answers' = {} /\ DOMAIN wire' = {}
  OBVIOUS
<1>2. Len(pipeline') \in Nat
  BY LenProperties
<1>3. StreamInv'
  BY <1>1 DEF StreamInv
<1>4. Len(answers') + Len(wire') <= Len(pipeline')
  BY <1>1, <1>2
<1>5. AnswersMatch'
  BY <1>1, <1>4 DEF AnswersMatch
<1> QED
  BY <1>3, <1>5 DEF IdleMeansNothingToSend

\* FillWritePipeline with the rows of the user to come.
LEMMA FillHead ==
  ASSUME NEW p, p \in Seq(Row), NEW u, u = user', NEW state \in States,
         FillWritePipeline(p, RowsOf(u, disk'), state),
         disk' \in SUBSET Row, wire \in Seq(Row),
         Ascending(p), \A i \in DOMAIN p : p[i] \in RowsOf(u, disk'),
         \A r \in RowsOf(u, disk') : (\E i \in DOMAIN p : p[i] = r) \/ r.id > Last(p)
  PROVE  /\ PipelineIsHeadOfQueue'
         /\ pipeline' \in Seq(Row) /\ wire' \in Seq(Row)
         /\ idle' \in BOOLEAN /\ stream' \in States
<1> DEFINE rows == RowsOf(u, disk')
<1>1. rows \in SUBSET Row /\ \A r \in rows : r.id \in Int
  BY DEF RowsOf, Row
<1> HIDE DEF rows
<1>2. FillWritePipeline(p, rows, state)
  BY DEF rows
<1>3. PICK s \in Seq(Row) :
         LET sends == state = "Open" /\ handshake = "complete" /\ s # <<>>
         IN  /\ IsRefill(s, p, rows)
             /\ pipeline' \in Seq(Row) /\ IsConcat(pipeline', p, s)
             /\ stream' = StartIfNeeded(pipeline', state)
             /\ wire' = IF sends THEN wire \o s ELSE IF state = "Open" THEN wire ELSE <<>>
             /\ idle' = (state = "Open" /\ ~sends /\ (idle \/ pipeline' = <<>>))
  BY <1>1, <1>2, FillFacts
<1>4. pipeline' \in Seq(Row) /\ idle' \in BOOLEAN
  BY <1>3
<1>5. wire' \in Seq(Row)
  BY <1>3, ConcatFacts, EmptySeq
<1>6. stream' \in States
  BY <1>3 DEF StartIfNeeded, Start, States
<1>7. (pipeline' = <<>> <=> Len(pipeline') = 0) /\ (p = <<>> <=> Len(p) = 0)
  BY <1>4, EmptySeq
<1>8. /\ Ascending(pipeline')
      /\ \A i \in DOMAIN pipeline' : pipeline'[i] \in rows
      /\ \A r \in rows : \/ \E i \in DOMAIN pipeline' : pipeline'[i] = r
                         \/ Len(pipeline') = kMaxPendingWrites /\ r.id > Last(pipeline')
  <2>1. /\ \A i \in DOMAIN p : p[i] \in rows
        /\ \A r \in rows : (\E i \in DOMAIN p : p[i] = r) \/ r.id > Last(p)
    BY DEF rows
  <2>2. IsRefill(s, p, rows) /\ IsConcat(pipeline', p, s)
    BY <1>3
  <2> QED
    BY <1>1, <1>7, <2>1, <2>2, RefillHead
<1>9. PipelineIsHeadOfQueue'
  BY <1>8 DEF PipelineIsHeadOfQueue, rows, Ascending, Last, RowsOf
<1> QED
  BY <1>4, <1>5, <1>6, <1>9
-----------------------------------------------------------------------------
(* Steps that leave the queue alone                                         *)

\* A stream that opens has nothing on it.
LEMMA ResumeStartKeeps == PipelineInv /\ ResumeStartWithCredentials => PipelineInv'
<1> SUFFICES ASSUME PipelineInv, ResumeStartWithCredentials PROVE PipelineInv'
  OBVIOUS
<1> USE DEF ResumeStartWithCredentials, phone, server
<1>1. TypeOK'
  BY DEF PipelineInv, TypeOK, States
<1>2. QueueInv' /\ AppliedInOrder' /\ StraysInv'
  BY RowsKept, StraysKept
<1>3. handshake # "complete" /\ wire = <<>> /\ answers = <<>>
  BY DEF PipelineInv, StreamInv
<1>4. StreamInv'
  BY <1>3 DEF PipelineInv, StreamInv
<1>5. AnswersMatch' /\ PipelineIsHeadOfQueue'
  BY DEF PipelineInv, AnswersMatch, PipelineIsHeadOfQueue
<1>6. CompletionsTruthful' /\ IdleMeansNothingToSend'
  BY DEF PipelineInv, CompletionsTruthful, IdleMeansNothingToSend
<1> QED
  BY <1>1, <1>2, <1>4, <1>5, <1>6 DEF PipelineInv

\* The backoff has no connection.
LEMMA BackoffKeeps == PipelineInv /\ BackoffElapses => PipelineInv'
<1> SUFFICES ASSUME PipelineInv, BackoffElapses PROVE PipelineInv'
  OBVIOUS
<1> USE DEF BackoffElapses, phone, server
<1>1. TypeOK'
  BY DEF PipelineInv, TypeOK, States, Start
<1>2. QueueInv' /\ AppliedInOrder' /\ StraysInv'
  BY RowsKept, StraysKept
<1>4. StreamInv' /\ AnswersMatch' /\ PipelineIsHeadOfQueue'
  BY DEF PipelineInv, StreamInv, AnswersMatch, PipelineIsHeadOfQueue, Start
<1>6. CompletionsTruthful' /\ IdleMeansNothingToSend'
  BY DEF PipelineInv, CompletionsTruthful, IdleMeansNothingToSend
<1> QED
  BY <1>1, <1>2, <1>4, <1>6 DEF PipelineInv

\* The handshake comes before the first batch.
LEMMA ServerShakesKeeps == PipelineInv /\ ServerShakes => PipelineInv'
<1> SUFFICES ASSUME PipelineInv, ServerShakes PROVE PipelineInv'
  OBVIOUS
<1> USE DEF ServerShakes, phone, server
<1>1. TypeOK'
  BY DEF PipelineInv, TypeOK
<1>2. QueueInv' /\ AppliedInOrder' /\ StraysInv'
  BY RowsKept, StraysKept
<1>4. StreamInv' /\ AnswersMatch' /\ PipelineIsHeadOfQueue'
  BY DEF PipelineInv, StreamInv, AnswersMatch, PipelineIsHeadOfQueue
<1>6. CompletionsTruthful' /\ IdleMeansNothingToSend'
  BY DEF PipelineInv, CompletionsTruthful, IdleMeansNothingToSend
<1> QED
  BY <1>1, <1>2, <1>4, <1>6 DEF PipelineInv

\* The whole pipeline goes out, nothing having been sent.
LEMMA HandshakeKeeps == PipelineInv /\ OnHandshakeComplete => PipelineInv'
<1> SUFFICES ASSUME PipelineInv, OnHandshakeComplete PROVE PipelineInv'
  OBVIOUS
<1> USE DEF OnHandshakeComplete, phone, server
<1>1. wire = <<>> /\ answers = <<>> /\ wire' = pipeline /\ ~idle
  BY DEF PipelineInv, StreamInv, TypeOK, IdleMeansNothingToSend
<1>2. TypeOK'
  BY <1>1 DEF PipelineInv, TypeOK
<1>3. QueueInv' /\ AppliedInOrder' /\ StraysInv'
  BY RowsKept, StraysKept
<1>4. /\ Len(answers') = 0 /\ DOMAIN answers' = {} /\ Len(wire') = Len(pipeline')
      /\ Len(pipeline') \in Nat
  BY <1>1, Shape
<1>5. StreamInv'
  BY <1>1, <1>4 DEF PipelineInv, StreamInv
<1>6. AnswersMatch'
  BY <1>1, <1>4, Shape DEF AnswersMatch
<1>7. PipelineIsHeadOfQueue' /\ CompletionsTruthful' /\ IdleMeansNothingToSend'
  BY <1>1 DEF PipelineInv, PipelineIsHeadOfQueue, CompletionsTruthful, IdleMeansNothingToSend
<1> QED
  BY <1>2, <1>3, <1>5, <1>6, <1>7 DEF PipelineInv
-----------------------------------------------------------------------------
(* Steps that end the connection                                            *)

\* What was sent is lost from the wire and not from the pipeline.
LEMMA StreamFinishKeeps == PipelineInv /\ OnStreamFinish => PipelineInv'
<1> SUFFICES ASSUME PipelineInv, OnStreamFinish PROVE PipelineInv'
  OBVIOUS
<1> USE DEF OnStreamFinish, phone, server
<1>1. /\ StraysInv' /\ strays' \in SUBSET Seq(Row)
      /\ handshake' = "none" /\ answers' = <<>> /\ answers' \in Seq(Answers)
  BY Disconnected
<1>2. stream' \in {"Backoff", "Error"} /\ running /\ running'
  BY DEF StartIfNeeded, Start
<1>0. wire' \in Seq(Row) /\ answers' \in Seq([batch : Row, ok : BOOLEAN])
  BY <1>1, EmptySeq
<1>3. TypeOK'
  <2>1. faults' \in 0 .. MaxFaults
    BY DEF PipelineInv, TypeOK
  <2> QED
    BY <1>0, <1>1, <1>2, <2>1 DEF PipelineInv, TypeOK, States
<1>4. StreamInv' /\ AnswersMatch' /\ IdleMeansNothingToSend'
  BY <1>1, <1>2, Cut DEF PipelineInv, TypeOK
<1>5. QueueInv' /\ AppliedInOrder'
  BY RowsKept
<1>6. PipelineIsHeadOfQueue' /\ CompletionsTruthful'
  BY DEF PipelineInv, PipelineIsHeadOfQueue, CompletionsTruthful
<1> QED
  BY <1>1, <1>3, <1>4, <1>5, <1>6 DEF PipelineInv

\* An idle stream has nothing on it.
LEMMA IdleStopKeeps == PipelineInv /\ IdleStop => PipelineInv'
<1> SUFFICES ASSUME PipelineInv, IdleStop PROVE PipelineInv'
  OBVIOUS
<1> USE DEF IdleStop, phone, server
<1>1. /\ StraysInv' /\ strays' \in SUBSET Seq(Row)
      /\ handshake' = "none" /\ answers' = <<>> /\ answers' \in Seq(Answers)
  BY Disconnected
<1>0. wire' \in Seq(Row) /\ answers' \in Seq([batch : Row, ok : BOOLEAN])
  BY <1>1, EmptySeq
<1>3. TypeOK'
  BY <1>0, <1>1 DEF PipelineInv, TypeOK, States
<1>4. StreamInv' /\ AnswersMatch' /\ IdleMeansNothingToSend'
  BY <1>1, Cut DEF PipelineInv, TypeOK
<1>5. QueueInv' /\ AppliedInOrder'
  BY RowsKept
<1>6. PipelineIsHeadOfQueue' /\ CompletionsTruthful'
  BY DEF PipelineInv, PipelineIsHeadOfQueue, CompletionsTruthful
<1> QED
  BY <1>1, <1>3, <1>4, <1>5, <1>6 DEF PipelineInv

\* The first answer is for the first batch of the pipeline, which is on disk.
LEMMA FrontAnswer ==
  ASSUME PipelineInv, answers # <<>>
  PROVE  /\ handshake = "complete" /\ stream = "Open" /\ running
         /\ Match(answers, wire, pipeline)
         /\ pipeline # <<>> /\ Head(pipeline) = pipeline[1]
         /\ Head(pipeline) \in RowsOf(user, disk) /\ Head(pipeline) \in Row
         /\ Head(answers).ok \in BOOLEAN
         /\ Head(answers).ok => Head(pipeline).call \in applied
         /\ ~Head(answers).ok => Head(pipeline).call \in refused /\ Len(answers) = 1
<1>1. handshake = "complete" /\ stream = "Open"
  BY DEF PipelineInv, StreamInv, TypeOK
<1>2. Match(answers, wire, pipeline)
  BY <1>1, Matched
<1>3. answers \in Seq(Answers) /\ wire \in Seq(Row) /\ pipeline \in Seq(Row)
  BY DEF PipelineInv, TypeOK, Answers
<1>4. pipeline # <<>> /\ answers[1].batch = pipeline[1]
  BY <1>2, <1>3, MatchTails
<1>5. /\ Head(answers) = answers[1] /\ 1 \in DOMAIN answers /\ answers[1] \in Answers
      /\ Head(pipeline) = pipeline[1] /\ 1 \in DOMAIN pipeline
  BY <1>3, <1>4, TailFacts
<1>6. running
  BY <1>4 DEF PipelineInv, StreamInv
<1>7. Head(pipeline) \in RowsOf(user, disk) /\ Head(pipeline) \in Row
  BY <1>5 DEF PipelineInv, PipelineIsHeadOfQueue, RowsOf, TypeOK
<1>8. /\ Head(answers).ok \in BOOLEAN
      /\ Head(answers).ok => Head(pipeline).call \in applied
      /\ ~Head(answers).ok => Head(pipeline).call \in refused /\ Len(answers) = 1
  BY <1>4, <1>5 DEF PipelineInv, StreamInv, Answers
<1> QED
  BY <1>1, <1>2, <1>4, <1>5, <1>6, <1>7, <1>8

\* The row of a call with its verdict is removed.
LEMMA RowRemoved ==
  ASSUME PipelineInv, NEW r \in disk, r.call \in applied \cup refused,
         disk' = disk \ {r}, UNCHANGED <<nextBatchId, server, calls>>
  PROVE  QueueInv' /\ AppliedInOrder'
<1> USE DEF server
<1>1. \A n \in DOMAIN calls : n \in applied \/ n \in refused \/ \E q \in disk' : q.call = n
  BY DEF PipelineInv, QueueInv
<1>2. QueueInv'
  BY <1>1 DEF PipelineInv, QueueInv
<1> QED
  BY <1>2 DEF PipelineInv, AppliedInOrder

\* The blocks of a batch are at most the one of its own call.
LEMMA OwnBlock ==
  ASSUME PipelineInv, NEW r \in RowsOf(user, disk)
  PROVE  BlocksFor(r) \subseteq {r}
  BY DEF BlocksFor, RowsOf, PipelineInv, CompletionsTruthful, QueueInv

\* A completion is told the verdict on its own call.
LEMMA ToldTruly ==
  ASSUME PipelineInv, answers # <<>>, NEW what \in {"ok", "error"},
         what = "ok" => Head(answers).ok, what = "error" => ~Head(answers).ok,
         Tell(Head(pipeline), what), UNCHANGED server
  PROVE  /\ told' \in [Numbers -> {"none", "ok", "error"}]
         /\ \A n \in Numbers : /\ told'[n] = "ok" => n \in applied'
                               /\ told'[n] = "error" => n \in refused'
         /\ \A b \in blocks \ BlocksFor(Head(pipeline)) : told'[b.call] = "none"
<1> DEFINE r == Head(pipeline)
<1>1. /\ r \in RowsOf(user, disk)
      /\ what = "ok" => r.call \in applied
      /\ what = "error" => r.call \in refused
  BY FrontAnswer
<1> HIDE DEF r
<1>2. BlocksFor(r) \subseteq {r}
  BY <1>1, OwnBlock
<1>3. told' = [n \in Numbers |-> IF \E b \in BlocksFor(r) : b.call = n THEN what ELSE told[n]]
  BY DEF Tell, r
<1>4. told \in [Numbers -> {"none", "ok", "error"}]
  BY DEF PipelineInv, TypeOK
<1>5. told' \in [Numbers -> {"none", "ok", "error"}]
  BY <1>3, <1>4
<1>6. ASSUME NEW n \in Numbers
      PROVE  /\ told'[n] = "ok" => n \in applied
             /\ told'[n] = "error" => n \in refused
  BY <1>1, <1>2, <1>3 DEF PipelineInv, CompletionsTruthful
<1>7. ASSUME NEW b \in blocks \ BlocksFor(r) PROVE told'[b.call] = "none"
  <2>1. b \in disk /\ b.call \in Numbers /\ told[b.call] = "none"
    BY DEF PipelineInv, CompletionsTruthful, TypeOK, Row
  <2>2. ~ \E c \in BlocksFor(r) : c.call = b.call
    BY <1>1, <1>2, <2>1 DEF RowsOf, PipelineInv, QueueInv
  <2> QED
    BY <1>3, <2>1, <2>2
<1> QED
  BY <1>5, <1>6, <1>7 DEF server, r

\* What the process had in memory goes, and leaves nothing to answer.
LEMMA DiesKeeps ==
  ASSUME PipelineInv, Dies, disk' \in SUBSET Row, QueueInv', AppliedInOrder',
         told' \in [Numbers -> {"none", "ok", "error"}],
         \A n \in Numbers : /\ told'[n] = "ok" => n \in applied'
                            /\ told'[n] = "error" => n \in refused'
  PROVE  PipelineInv'
<1> USE DEF Dies, server
<1>1. /\ StraysInv' /\ strays' \in SUBSET Seq(Row)
      /\ handshake' = "none" /\ answers' = <<>> /\ answers' \in Seq(Answers)
  BY Disconnected
<1>2. pipeline' \in Seq(Row) /\ DOMAIN pipeline' = {}
  OBVIOUS
<1>0. wire' \in Seq(Row) /\ answers' \in Seq([batch : Row, ok : BOOLEAN])
  BY <1>1, EmptySeq
<1>3. TypeOK'
  <2>1. faults' \in 0 .. MaxFaults
    BY DEF PipelineInv, TypeOK
  <2> QED
    BY <1>0, <1>1, <1>2, <2>1 DEF PipelineInv, TypeOK, States
<1>4. StreamInv' /\ AnswersMatch' /\ IdleMeansNothingToSend'
  BY <1>1, <1>2, Cut
<1>5. PipelineIsHeadOfQueue' /\ CompletionsTruthful'
  BY <1>2 DEF PipelineIsHeadOfQueue, CompletionsTruthful, Ascending
<1> QED
  BY <1>1, <1>3, <1>4, <1>5 DEF PipelineInv

\* The process ends between two steps.
LEMMA CrashKeeps == PipelineInv /\ Crash => PipelineInv'
<1> SUFFICES ASSUME PipelineInv, Crash PROVE PipelineInv'
  OBVIOUS
<1>1. QueueInv' /\ AppliedInOrder'
  BY RowsKept DEF Crash, Dies
<1> QED
  BY <1>1, DiesKeeps DEF Crash, Dies, server, PipelineInv, TypeOK, CompletionsTruthful

\* The completion was called, and the row stays to be sent again.
LEMMA CrashBeforeAcknowledgeKeeps == PipelineInv /\ CrashBeforeAcknowledge => PipelineInv'
<1> SUFFICES ASSUME PipelineInv, CrashBeforeAcknowledge PROVE PipelineInv'
  OBVIOUS
<1>1. Dies /\ UNCHANGED <<disk, nextBatchId, server, calls>>
  BY DEF CrashBeforeAcknowledge, Dies
<1>2. QueueInv' /\ AppliedInOrder'
  BY <1>1, RowsKept
<1>3. /\ told' \in [Numbers -> {"none", "ok", "error"}]
      /\ \A n \in Numbers : /\ told'[n] = "ok" => n \in applied'
                            /\ told'[n] = "error" => n \in refused'
  BY <1>1, ToldTruly DEF CrashBeforeAcknowledge
<1>4. disk' \in SUBSET Row
  BY <1>1 DEF PipelineInv, TypeOK
<1> QED
  BY <1>1, <1>2, <1>3, <1>4, DiesKeeps

\* The row is gone, and the completion is never called.
LEMMA CrashBeforeCompletionKeeps == PipelineInv /\ CrashBeforeCompletion => PipelineInv'
<1> SUFFICES ASSUME PipelineInv, CrashBeforeCompletion PROVE PipelineInv'
  OBVIOUS
<1>1. Dies /\ UNCHANGED <<nextBatchId, server, calls, told>>
  BY DEF CrashBeforeCompletion, Dies
<1>2. Head(pipeline) \in disk /\ Head(pipeline).call \in refused
  BY FrontAnswer DEF CrashBeforeCompletion, RowsOf
<1>3. QueueInv' /\ AppliedInOrder' /\ disk' \in SUBSET Row
  BY <1>1, <1>2, RowRemoved DEF CrashBeforeCompletion, PipelineInv, TypeOK
<1>4. /\ told' \in [Numbers -> {"none", "ok", "error"}]
      /\ \A n \in Numbers : /\ told'[n] = "ok" => n \in applied'
                            /\ told'[n] = "error" => n \in refused'
  BY <1>1 DEF PipelineInv, TypeOK, CompletionsTruthful, server
<1> QED
  BY <1>1, <1>3, <1>4, DiesKeeps
-----------------------------------------------------------------------------
(* Steps of the server                                                      *)

\* The server takes or refuses a call whose predecessors have their verdict.
LEMMA Verdicts ==
  ASSUME PipelineInv, NEW n \in DOMAIN calls, Earlier(n) = {},
         \/ n \notin refused /\ applied' = applied \cup {n} /\ refused' = refused
         \/ n \notin applied /\ refused' = refused \cup {n} /\ applied' = applied,
         UNCHANGED <<disk, nextBatchId, blocks, calls, told>>
  PROVE  /\ QueueInv' /\ AppliedInOrder' /\ CompletionsTruthful'
         /\ applied' \in SUBSET Numbers /\ refused' \in SUBSET Numbers
         /\ applied \subseteq applied' /\ refused \subseteq refused'
         /\ n \in applied' \cup refused'
<1>1. n \in Numbers
  BY Shape DEF PipelineInv, TypeOK, Numbers
<1>2. applied' \in SUBSET Numbers /\ refused' \in SUBSET Numbers
  BY <1>1 DEF PipelineInv, TypeOK
<1>3. /\ applied \subseteq applied' /\ refused \subseteq refused' /\ n \in applied' \cup refused'
      /\ applied' \cup refused' = applied \cup refused \cup {n}
      /\ applied' \cap refused' = {}
  BY DEF PipelineInv, QueueInv
<1>4. QueueInv'
  BY <1>3 DEF PipelineInv, QueueInv
<1>5. CompletionsTruthful'
  BY <1>3 DEF PipelineInv, CompletionsTruthful
<1>6. ASSUME NEW m \in DOMAIN calls, NEW k \in DOMAIN calls,
             m < k, calls[m] = calls[k], k \in applied' \cup refused'
      PROVE  m \in applied' \cup refused'
  <2>1. CASE k = n
    BY <1>3, <1>6, <2>1 DEF Earlier
  <2>2. CASE k # n
    BY <1>3, <1>6, <2>2 DEF PipelineInv, AppliedInOrder
  <2> QED
    BY <2>1, <2>2
<1>7. AppliedInOrder'
  BY <1>6 DEF AppliedInOrder
<1> QED
  BY <1>2, <1>3, <1>4, <1>5, <1>7

\* With more verdicts, what is closed stays so.
LEMMA StaysClosed ==
  ASSUME NEW s, Closed(s), applied \subseteq applied', refused \subseteq refused', calls' = calls
  PROVE  /\ \A n : Earlier(n)' \subseteq Earlier(n)
         /\ \A i \in DOMAIN s :
              /\ s[i].call \in DOMAIN calls'
              /\ \A m \in Earlier(s[i].call)' : \E j \in DOMAIN s : j < i /\ s[j].call = m
<1>1. \A n : Earlier(n)' \subseteq Earlier(n)
  BY DEF Earlier
<1> QED
  BY <1>1 DEF Closed

\* The server answers the first batch on the wire, whose earlier calls have
\* their verdicts.
LEMMA AnswerFacts ==
  ASSUME PipelineInv, NEW ok \in BOOLEAN, Answer(ok), UNCHANGED disk
  PROVE  /\ Head(wire).call \in DOMAIN calls /\ Earlier(Head(wire).call) = {}
         /\ wire' \in Seq(Row) /\ answers' \in Seq(Answers)
         /\ AnswersMatch' /\ PipelineIsHeadOfQueue' /\ IdleMeansNothingToSend'
         /\ handshake = "complete" /\ Len(answers') + Len(wire') = Len(pipeline')
         /\ \A i \in DOMAIN answers' :
              \/ i \in DOMAIN answers /\ answers'[i] = answers[i] /\ answers[i].ok
              \/ /\ answers'[i] = [batch |-> Head(wire), ok |-> ok]
                 /\ i = Len(answers')
<1>1. /\ wire # <<>> /\ ~Ended
      /\ answers' = Append(answers, [batch |-> Head(wire), ok |-> ok])
      /\ wire' = Tail(wire)
      /\ UNCHANGED <<running, phone, pipeline, stream, handshake, idle, strays, calls, told, faults>>
  BY DEF Answer
<1>2. wire \in Seq(Row) /\ answers \in Seq(Answers) /\ pipeline \in Seq(Row)
  BY DEF PipelineInv, TypeOK, Answers
<1>3. handshake = "complete" /\ Match(answers, wire, pipeline)
  BY <1>1, Matched DEF PipelineInv, StreamInv, TypeOK
<1>4. /\ Head(wire) = wire[1] /\ wire[1] \in Row /\ 1 \in DOMAIN wire
      /\ wire' \in Seq(Row)
  BY <1>1, <1>2, TailFacts
<1>5. Head(wire).call \in DOMAIN calls /\ Earlier(Head(wire).call) = {}
  <2>1. DOMAIN wire = 1 .. Len(wire)
    BY Shape
  <2>2. ~ \E j \in DOMAIN wire : j < 1
    BY <2>1
  <2> QED
    BY <1>4, <2>2, WireClosed DEF Closed
<1>6. Match(answers', wire', pipeline)
  BY <1>1, <1>2, <1>3, MatchAnswers
<1>7. [batch |-> Head(wire), ok |-> ok] \in Answers
  BY <1>4 DEF Answers
<1>8. /\ answers' \in Seq(Answers) /\ DOMAIN answers' = 1 .. Len(answers')
      /\ Len(answers') = Len(answers) + 1
      /\ \A i \in 1 .. Len(answers) : answers'[i] = answers[i]
      /\ answers'[Len(answers) + 1] = [batch |-> Head(wire), ok |-> ok]
  BY <1>1, <1>2, <1>7, AppendFacts
<1>9. Len(answers) \in Nat /\ DOMAIN answers = 1 .. Len(answers)
  BY Shape
<1>10. ASSUME NEW i \in DOMAIN answers'
       PROVE  \/ i \in DOMAIN answers /\ answers'[i] = answers[i] /\ answers[i].ok
              \/ /\ answers'[i] = [batch |-> Head(wire), ok |-> ok]
                 /\ i = Len(answers')
  <2>1. i \in 1 .. Len(answers) \/ i = Len(answers) + 1
    BY <1>8, <1>9
  <2>2. CASE i \in 1 .. Len(answers)
    BY <1>1, <1>8, <1>9, <2>2 DEF Ended
  <2>3. CASE i = Len(answers) + 1
    BY <1>8, <2>3
  <2> QED
    BY <2>1, <2>2, <2>3
<1>11. DOMAIN wire' = 1 .. Len(wire') /\ Len(wire') \in Nat
  BY <1>4, LenProperties
<1>12. Len(answers') + Len(wire') = Len(pipeline) /\ Len(pipeline) \in Nat
  BY <1>6, Shape DEF Match
<1>13. AnswersMatch'
  <2>1. pipeline' = pipeline
    BY <1>1
  <2>2. /\ Len(answers') + Len(wire') <= Len(pipeline')
        /\ DOMAIN answers' = 1 .. Len(answers') /\ DOMAIN wire' = 1 .. Len(wire')
    BY <1>8, <1>11, <1>12, <2>1
  <2> QED
    BY <1>6, <2>1, <2>2 DEF AnswersMatch, Match
<1>14. PipelineIsHeadOfQueue' /\ IdleMeansNothingToSend'
  BY <1>1 DEF PipelineInv, PipelineIsHeadOfQueue, IdleMeansNothingToSend, phone
<1> QED
  BY <1>1, <1>3, <1>4, <1>5, <1>8, <1>10, <1>12, <1>13, <1>14

\* Taking or refusing that batch keeps the invariant.
LEMMA AnswerKeeps ==
  ASSUME PipelineInv, NEW ok \in BOOLEAN, Answer(ok),
         IF ok THEN /\ Head(wire).call \notin refused
                    /\ applied' = applied \cup {Head(wire).call} /\ refused' = refused
               ELSE /\ Head(wire).call \notin applied
                    /\ refused' = refused \cup {Head(wire).call} /\ applied' = applied
  PROVE  PipelineInv'
<1>1. UNCHANGED <<running, user, disk, nextBatchId, blocks, pipeline, stream, handshake,
                  idle, strays, calls, told, faults>>
  BY DEF Answer, phone
<1>2. /\ Head(wire).call \in DOMAIN calls /\ Earlier(Head(wire).call) = {}
      /\ wire' \in Seq(Row) /\ answers' \in Seq(Answers)
      /\ AnswersMatch' /\ PipelineIsHeadOfQueue' /\ IdleMeansNothingToSend'
      /\ handshake = "complete" /\ Len(answers') + Len(wire') = Len(pipeline')
      /\ \A i \in DOMAIN answers' :
           \/ i \in DOMAIN answers /\ answers'[i] = answers[i] /\ answers[i].ok
           \/ /\ answers'[i] = [batch |-> Head(wire), ok |-> ok]
              /\ i = Len(answers')
  BY <1>1, AnswerFacts
<1>3. /\ QueueInv' /\ AppliedInOrder' /\ CompletionsTruthful'
      /\ applied' \in SUBSET Numbers /\ refused' \in SUBSET Numbers
      /\ applied \subseteq applied' /\ refused \subseteq refused'
  BY <1>1, <1>2, Verdicts
<1>4. TypeOK'
  BY <1>1, <1>2, <1>3 DEF PipelineInv, TypeOK, Answers
<1>5. \A i \in DOMAIN answers' :
        /\ answers'[i].ok => answers'[i].batch.call \in applied'
        /\ ~answers'[i].ok => answers'[i].batch.call \in refused' /\ i = Len(answers')
  <2> TAKE i \in DOMAIN answers'
  <2>1. CASE i \in DOMAIN answers /\ answers'[i] = answers[i] /\ answers[i].ok
    BY <1>3, <2>1 DEF PipelineInv, StreamInv
  <2>2. CASE answers'[i] = [batch |-> Head(wire), ok |-> ok] /\ i = Len(answers')
    BY <2>2
  <2> QED
    BY <1>2, <2>1, <2>2
<1>6. StreamInv'
  BY <1>1, <1>2, <1>5 DEF PipelineInv, StreamInv
<1>7. StraysInv'
  BY <1>1, <1>3 DEF PipelineInv, StraysInv
<1> QED
  BY <1>2, <1>3, <1>4, <1>6, <1>7 DEF PipelineInv

\* The server takes a batch...
LEMMA ServerTakesKeeps == PipelineInv /\ ServerTakes => PipelineInv'
  BY AnswerKeeps DEF ServerTakes

\* ... or refuses it.
LEMMA ServerRefusesKeeps == PipelineInv /\ ServerRefuses => PipelineInv'
  BY AnswerKeeps DEF ServerRefuses

\* The first batch of a connection that is gone is the next of its user's calls.
LEMMA StrayFront ==
  ASSUME PipelineInv, NEW s \in strays, s # <<>>
  PROVE  /\ Head(s).call \in DOMAIN calls /\ Earlier(Head(s).call) = {}
         /\ Closed(s) /\ s \in Seq(Row) /\ Head(s) = s[1] /\ 1 \in DOMAIN s
<1>1. s \in Seq(Row) /\ Closed(s)
  BY StraysClosed DEF PipelineInv, TypeOK
<1>2. Head(s) = s[1] /\ DOMAIN s = 1 .. Len(s) /\ Len(s) \in Nat /\ Len(s) >= 1
  BY <1>1, TailFacts
<1>3. 1 \in DOMAIN s /\ ~ \E j \in DOMAIN s : j < 1
  BY <1>2
<1> QED
  BY <1>1, <1>2, <1>3 DEF Closed

\* A connection that is gone delivers its next batch.
LEMMA ServerTakesStrayKeeps == PipelineInv /\ ServerTakesStray => PipelineInv'
<1> SUFFICES ASSUME PipelineInv, ServerTakesStray PROVE PipelineInv'
  OBVIOUS
<1>1. PICK s \in strays :
        /\ s # <<>> /\ Head(s).call \notin refused
        /\ applied' = applied \cup {Head(s).call}
        /\ strays' = (strays \ {s}) \cup ({Tail(s)} \ {<<>>})
        /\ UNCHANGED <<running, user, disk, nextBatchId, blocks, pipeline, stream, handshake,
                       idle, wire, answers, refused, calls, told, faults>>
  BY DEF ServerTakesStray, phone
<1>2. /\ Head(s).call \in DOMAIN calls /\ Earlier(Head(s).call) = {}
      /\ Closed(s) /\ s \in Seq(Row) /\ Head(s) = s[1] /\ 1 \in DOMAIN s
  BY <1>1, StrayFront
<1>3. /\ QueueInv' /\ AppliedInOrder' /\ CompletionsTruthful'
      /\ applied' \in SUBSET Numbers /\ refused' \in SUBSET Numbers
      /\ applied \subseteq applied' /\ refused \subseteq refused'
  BY <1>1, <1>2, Verdicts
<1>4. PICK z \in Seq(Row) :
        /\ strays' = (strays \ {s}) \cup ({z} \ {<<>>})
        /\ Len(s) \in Nat /\ DOMAIN s = 1 .. Len(s)
        /\ DOMAIN z = 1 .. Len(s) - 1
        /\ \A i \in 1 .. Len(s) - 1 : z[i] = s[i + 1]
  BY <1>1, <1>2, TailFacts
<1>5. strays' \in SUBSET Seq(Row)
  BY <1>4 DEF PipelineInv, TypeOK
<1>6. TypeOK'
  BY <1>1, <1>3, <1>5 DEF PipelineInv, TypeOK
<1>7. StreamInv' /\ AnswersMatch' /\ PipelineIsHeadOfQueue' /\ IdleMeansNothingToSend'
  BY <1>1, <1>3
     DEF PipelineInv, StreamInv, AnswersMatch, PipelineIsHeadOfQueue, IdleMeansNothingToSend
<1>8. \A t \in strays : \A i \in DOMAIN t :
        /\ t[i].call \in DOMAIN calls'
        /\ \A m \in Earlier(t[i].call)' : \E j \in DOMAIN t : j < i /\ t[j].call = m
  BY <1>1, <1>3, StraysClosed, StaysClosed DEF PipelineInv
<1>9. ASSUME NEW i \in DOMAIN z
      PROVE  /\ z[i].call \in DOMAIN calls'
             /\ \A m \in Earlier(z[i].call)' :
                  \E j \in DOMAIN z : j < i /\ z[j].call = m
  <2>1. i + 1 \in DOMAIN s /\ z[i] = s[i + 1]
    BY <1>4
  <2>2. ASSUME NEW m \in Earlier(z[i].call)'
        PROVE  \E j \in DOMAIN z : j < i /\ z[j].call = m
    <3>1. PICK j \in DOMAIN s : j < i + 1 /\ s[j].call = m
      BY <1>8, <2>1, <2>2
    <3>2. m # Head(s).call
      BY <1>1, <2>2 DEF Earlier
    <3>3. j # 1
      BY <1>2, <3>1, <3>2
    <3>4. j - 1 \in DOMAIN z /\ j - 1 < i /\ (j - 1) + 1 = j
      BY <1>4, <3>1, <3>3
    <3>5. z[j - 1] = s[j]
      BY <1>4, <3>4
    <3> QED
      BY <3>1, <3>4, <3>5
  <2> QED
    BY <1>8, <2>1, <2>2
<1>10. \A t \in strays' : \A i \in DOMAIN t :
         /\ t[i].call \in DOMAIN calls'
         /\ \A m \in Earlier(t[i].call)' : \E j \in DOMAIN t : j < i /\ t[j].call = m
  <2> TAKE t \in strays'
  <2>1. CASE t \in strays
    BY <1>8, <2>1
  <2>2. CASE t = z
    BY <1>9, <2>2 DEF Earlier
  <2>3. strays' = (strays \ {s}) \cup ({z} \ {<<>>})
    BY <1>4
  <2>4. t \in strays \/ t = z
    BY <2>3
  <2> QED
    BY <2>1, <2>2, <2>4
<1>11. StraysInv'
  BY <1>10 DEF StraysInv, Earlier
<1> QED
  BY <1>3, <1>6, <1>7, <1>11 DEF PipelineInv
-----------------------------------------------------------------------------
(* Steps that fill the pipeline                                             *)

\* The connection after FillWritePipeline on a stream in the given state.
LEMMA FillStream ==
  ASSUME NEW p, p \in Seq(Row), NEW rows \in SUBSET Row, NEW state \in States,
         FillWritePipeline(p, rows, state),
         wire \in Seq(Row), answers' \in Seq(Answers), idle \in BOOLEAN,
         handshake' # "none" <=> state = "Open",
         handshake' # "complete" => answers' = <<>>,
         state = "Open" => handshake' = handshake,
         state = "Open" /\ handshake = "complete" => Match(answers', wire, p),
         state = "Open" /\ handshake = "complete" /\ idle => p = <<>>,
         state = "Open" /\ handshake # "complete" => wire = <<>> /\ ~idle /\ pipeline' # <<>>
  PROVE  /\ handshake' # "none" <=> stream' = "Open"
         /\ handshake' # "complete" => wire' = <<>> /\ answers' = <<>>
         /\ handshake' = "complete" => Len(answers') + Len(wire') = Len(pipeline')
         /\ AnswersMatch' /\ IdleMeansNothingToSend'
<1>1. PICK s \in Seq(Row) :
         LET sends == state = "Open" /\ handshake = "complete" /\ s # <<>>
         IN  /\ IsRefill(s, p, rows)
             /\ pipeline' \in Seq(Row) /\ IsConcat(pipeline', p, s)
             /\ stream' = StartIfNeeded(pipeline', state)
             /\ wire' = IF sends THEN wire \o s ELSE IF state = "Open" THEN wire ELSE <<>>
             /\ idle' = (state = "Open" /\ ~sends /\ (idle \/ pipeline' = <<>>))
  BY FillFacts
<1>2. stream' = "Open" <=> state = "Open"
  BY <1>1 DEF StartIfNeeded, Start, States
<1>3. CASE state = "Open" /\ handshake = "complete"
  <2>1. Match(answers', wire, p) /\ Len(answers') \in Nat /\ handshake' = "complete"
    BY <1>3, LenProperties
  <2>2. IsConcat(wire', wire, s) /\ wire' \in Seq(Row)
    <3>1. CASE s # <<>>
      BY <1>1, <1>3, <3>1, ConcatFacts
    <3>2. CASE s = <<>>
      <4>1. wire' = wire
        BY <1>1, <1>3, <3>2
      <4>2. /\ Len(s) = 0 /\ Len(wire) \in Nat /\ DOMAIN s = {}
            /\ DOMAIN wire = 1 .. Len(wire)
        BY <3>2, LenProperties
      <4>3. 1 .. 0 = {} /\ Len(wire) + 0 = Len(wire)
        BY <4>2
      <4> QED
        BY <4>1, <4>2, <4>3 DEF IsConcat
    <3> QED
      BY <3>1, <3>2
  <2>3. Match(answers', wire', pipeline')
    BY <1>1, <2>1, <2>2, MatchSends
  <2>4. /\ Len(answers') \in Nat /\ Len(wire') \in Nat /\ Len(pipeline') \in Nat
        /\ DOMAIN answers' = 1 .. Len(answers') /\ DOMAIN wire' = 1 .. Len(wire')
        /\ pipeline' = <<>> => Len(pipeline') = 0
        /\ Len(wire') = 0 => wire' = <<>>
    BY <1>1, <2>2, LenProperties, EmptySeq
  <2>5. AnswersMatch'
    <3>1. /\ Len(answers') + Len(wire') = Len(pipeline')
          /\ \A i \in DOMAIN answers' : answers'[i].batch = pipeline'[i]
          /\ \A i \in DOMAIN wire' : wire'[i] = pipeline'[Len(answers') + i]
      BY <2>3, <2>4 DEF Match
    <3>2. Len(answers') + Len(wire') <= Len(pipeline')
      BY <2>4, <3>1
    <3> QED
      BY <3>1, <3>2 DEF AnswersMatch
  <2>6. idle' => pipeline' = <<>>
    <3>1. ASSUME idle' PROVE s = <<>> /\ (p = <<>> \/ pipeline' = <<>>)
      BY <1>1, <1>3, <3>1
    <3>2. ASSUME s = <<>>, p = <<>> PROVE pipeline' = <<>>
      <4>1. Len(s) = 0 /\ Len(p) = 0
        BY <3>2
      <4>2. Len(pipeline') = 0
        BY <1>1, <4>1 DEF IsConcat
      <4> QED
        BY <1>1, <4>2, EmptySeq
    <3> QED
      BY <3>1, <3>2
  <2>7. Len(answers') + Len(wire') = Len(pipeline')
    BY <2>3 DEF Match
  <2>8. pipeline' = <<>> => wire' = <<>>
    <3>1. ASSUME pipeline' = <<>> PROVE Len(wire') = 0
      BY <2>4, <2>7, <3>1
    <3> QED
      BY <3>1, <2>4
  <2>9. IdleMeansNothingToSend'
    BY <1>2, <1>3, <2>1, <2>6, <2>8 DEF IdleMeansNothingToSend
  <2> QED
    BY <1>2, <1>3, <2>1, <2>5, <2>7, <2>9
<1>4. CASE ~(state = "Open" /\ handshake = "complete")
  <2>1. wire' = <<>> /\ answers' = <<>> /\ handshake' # "complete" /\ idle' = FALSE
    BY <1>1, <1>4
  <2>2. /\ Len(answers') = 0 /\ Len(wire') = 0 /\ Len(pipeline') \in Nat
        /\ DOMAIN answers' = {} /\ DOMAIN wire' = {}
    BY <1>1, <2>1, LenProperties
  <2>3. Len(answers') + Len(wire') <= Len(pipeline')
    BY <2>2
  <2>4. AnswersMatch'
    BY <2>2, <2>3 DEF AnswersMatch
  <2> QED
    BY <1>2, <2>1, <2>4 DEF IdleMeansNothingToSend
<1> QED
  BY <1>3, <1>4

\* A new row does not disturb what is stored.
LEMMA RowAdded ==
  ASSUME PipelineInv, Write
  PROVE  \E row \in Row :
           /\ row.user = user /\ row.id = nextBatchId /\ row.call = Len(calls) + 1
           /\ disk' = disk \cup {row} /\ blocks' = blocks \cup {row}
           /\ disk' \in SUBSET Row /\ calls' \in Seq(Users)
           /\ QueueInv' /\ StraysInv' /\ AppliedInOrder' /\ CompletionsTruthful'
<1> DEFINE n   == Len(calls) + 1
           row == [user |-> user, id |-> nextBatchId, call |-> n]
<1> USE DEF server
<1>1. /\ Len(calls) \in Nat /\ n \in Numbers /\ nextBatchId \in Nat /\ user \in Users
      /\ calls \in Seq(Users) /\ DOMAIN calls = 1 .. Len(calls) /\ n \notin DOMAIN calls
  BY Shape DEF Write, Numbers, PipelineInv, TypeOK
<1>2. row \in Row
  BY <1>1 DEF Row
<1>3. \A r \in disk : r.id < nextBatchId /\ r.id \in Int /\ r.call \in DOMAIN calls
  BY <1>1 DEF PipelineInv, QueueInv
<1>4. {r \in disk : ~(r.user = user /\ r.id = nextBatchId)} = disk
  BY <1>1, <1>3
<1>5. {r \in blocks : ~(r.user = user /\ r.id = nextBatchId)} = blocks
  BY <1>1, <1>3 DEF PipelineInv, CompletionsTruthful
<1>6. disk' = disk \cup {row} /\ blocks' = blocks \cup {row}
  BY <1>4, <1>5 DEF Write
<1>7. /\ calls' \in Seq(Users) /\ DOMAIN calls' = DOMAIN calls \cup {n}
      /\ \A m \in DOMAIN calls : calls'[m] = calls[m]
      /\ calls'[n] = user
  <2>1. calls' = Append(calls, user)
    BY DEF Write
  <2>2. /\ Append(calls, user) \in Seq(Users)
        /\ DOMAIN Append(calls, user) = 1 .. Len(calls) + 1
        /\ \A i \in 1 .. Len(calls) : Append(calls, user)[i] = calls[i]
        /\ Append(calls, user)[Len(calls) + 1] = user
    BY <1>1, AppendFacts
  <2>3. 1 .. Len(calls) + 1 = (1 .. Len(calls)) \cup {Len(calls) + 1}
    BY <1>1
  <2> QED
    BY <1>1, <2>1, <2>2, <2>3
<1>8. \A m \in DOMAIN calls : m \in Int /\ m < n
  BY <1>1
<1>9. UNCHANGED <<applied, refused, strays, told>> /\ nextBatchId' = nextBatchId + 1
  BY DEF Write
<1>10. row.user = user /\ row.id = nextBatchId /\ row.call = n
  OBVIOUS
<1> HIDE DEF n, row
<1>11. QueueInv'
  <2>1. \A r \in disk' : /\ r.id \in 0 .. nextBatchId' - 1
                         /\ r.call \in DOMAIN calls' /\ calls'[r.call] = r.user
    <3>1. \A r \in disk : r.id \in 0 .. nextBatchId - 1
      BY DEF PipelineInv, QueueInv
    <3>2. \A r \in disk' : r.id \in 0 .. nextBatchId' - 1
      BY <1>1, <1>6, <1>9, <1>10, <3>1
    <3> QED
      BY <1>6, <1>7, <1>10, <3>2 DEF PipelineInv, QueueInv
  <2>2. \A q, r \in disk' : /\ q.call = r.call => q = r
                            /\ q.user = r.user /\ q.id = r.id => q = r
                            /\ q.user = r.user /\ q.id < r.id => q.call < r.call
    <3> TAKE q, r \in disk'
    <3>1. CASE q \in disk /\ r \in disk
      BY <3>1 DEF PipelineInv, QueueInv
    <3>2. CASE q = row /\ r \in disk
      BY <1>1, <1>3, <1>10, <3>2
    <3>3. CASE q \in disk /\ r = row
      BY <1>1, <1>3, <1>8, <1>10, <3>3
    <3>4. CASE q = row /\ r = row
      BY <1>1, <1>10, <3>4
    <3> QED
      BY <1>6, <3>1, <3>2, <3>3, <3>4
  <2>3. \A m \in DOMAIN calls' : m \in applied \/ m \in refused \/ \E r \in disk' : r.call = m
    BY <1>6, <1>7, <1>10 DEF PipelineInv, QueueInv
  <2> QED
    BY <1>7, <1>9, <2>1, <2>2, <2>3 DEF PipelineInv, QueueInv
<1>12. StraysInv'
  <2>1. ASSUME NEW s \in strays, NEW i \in DOMAIN s
        PROVE  /\ s[i].call \in DOMAIN calls'
               /\ \A m \in DOMAIN calls' :
                    m < s[i].call /\ calls'[m] = calls'[s[i].call] =>
                      \/ m \in applied \cup refused
                      \/ \E j \in DOMAIN s : j < i /\ s[j].call = m
    <3>1. s[i].call \in DOMAIN calls
      BY DEF PipelineInv, StraysInv
    <3>2. \A m \in DOMAIN calls' : m < s[i].call => m \in DOMAIN calls
      <4>1. n \in Int /\ s[i].call \in Int /\ s[i].call < n
        BY <1>1, <1>8, <3>1 DEF Numbers
      <4>2. \A m : m = n => ~(m < s[i].call)
        BY <4>1
      <4>3. \A m \in DOMAIN calls' : m \in DOMAIN calls \/ m = n
        BY <1>7
      <4> QED
        BY <4>2, <4>3
    <3>3. \A m \in DOMAIN calls :
            m < s[i].call /\ calls[m] = calls[s[i].call] =>
              \/ m \in applied \cup refused
              \/ \E j \in DOMAIN s : j < i /\ s[j].call = m
      BY DEF PipelineInv, StraysInv
    <3> QED
      BY <1>7, <3>1, <3>2, <3>3
  <2> QED
    BY <1>9, <2>1 DEF StraysInv
<1>13. AppliedInOrder'
  <2>1. applied \cup refused \subseteq DOMAIN calls
    BY DEF PipelineInv, QueueInv
  <2>2. ASSUME NEW m \in DOMAIN calls', NEW k \in DOMAIN calls',
               m < k, calls'[m] = calls'[k], k \in applied \cup refused
        PROVE  m \in applied \cup refused
    <3>1. k \in DOMAIN calls /\ m \in DOMAIN calls
      BY <1>7, <1>8, <1>1, <2>1, <2>2
    <3> QED
      BY <1>7, <2>2, <3>1 DEF PipelineInv, AppliedInOrder
  <2> QED
    BY <1>9, <2>2 DEF AppliedInOrder
<1>14. CompletionsTruthful'
  <2>1. told[n] = "none"
    BY <1>1 DEF PipelineInv, CompletionsTruthful, QueueInv, TypeOK
  <2> QED
    BY <1>6, <1>9, <1>10, <2>1 DEF PipelineInv, CompletionsTruthful
<1>15. disk' \in SUBSET Row
  BY <1>2, <1>6 DEF PipelineInv, TypeOK
<1> QED
  BY <1>2, <1>6, <1>7, <1>10, <1>11, <1>12, <1>13, <1>14, <1>15 DEF n

\* The queue is in the order of its ids.
LEMMA HeadFacts ==
  ASSUME PipelineInv
  PROVE  /\ \A r \in disk : r.id \in Int /\ r.id > kBatchIdUnknown /\ r.id < nextBatchId
         /\ Last(pipeline) \in Int /\ Last(pipeline) < nextBatchId
         /\ \A i \in DOMAIN pipeline : pipeline[i].id <= Last(pipeline)
<1>1. \A r \in disk : r.id \in Int /\ r.id > kBatchIdUnknown /\ r.id < nextBatchId
  BY DEF PipelineInv, QueueInv, TypeOK, kBatchIdUnknown
<1>2. \A i \in DOMAIN pipeline : pipeline[i] \in disk
  BY DEF PipelineInv, PipelineIsHeadOfQueue, RowsOf
<1>3. CASE Len(pipeline) = 0
  <2>1. pipeline = <<>> /\ DOMAIN pipeline = {}
    BY <1>3, Shape
  <2>2. Last(pipeline) = -1
    BY <2>1 DEF Last, kBatchIdUnknown
  <2>3. nextBatchId \in Nat
    BY DEF PipelineInv, TypeOK
  <2> QED
    BY <1>1, <2>1, <2>2, <2>3
<1>4. CASE Len(pipeline) > 0
  <2>1. Len(pipeline) \in DOMAIN pipeline /\ Last(pipeline) = pipeline[Len(pipeline)].id
    BY <1>4, Shape DEF Last
  <2>2. \A i \in DOMAIN pipeline : i = Len(pipeline) \/ i < Len(pipeline)
    BY Shape
  <2>3. \A i \in DOMAIN pipeline : pipeline[i].id <= Last(pipeline)
    BY <1>1, <1>2, <2>1, <2>2 DEF PipelineInv, PipelineIsHeadOfQueue, Ascending
  <2> QED
    BY <1>1, <1>2, <2>1, <2>3
<1> QED
  BY <1>1, <1>3, <1>4, Shape

\* A new row comes after all others of its user.
LEMMA WriteKeeps == PipelineInv /\ Write => PipelineInv'
<1> SUFFICES ASSUME PipelineInv, Write PROVE PipelineInv'
  OBVIOUS
<1>1. PICK row \in Row :
        /\ row.user = user /\ row.id = nextBatchId /\ row.call = Len(calls) + 1
        /\ disk' = disk \cup {row} /\ blocks' = blocks \cup {row}
        /\ disk' \in SUBSET Row /\ calls' \in Seq(Users)
        /\ QueueInv' /\ StraysInv' /\ AppliedInOrder' /\ CompletionsTruthful'
  BY RowAdded
<1>2. /\ FillWritePipeline(pipeline, RowsOf(user, disk'), stream)
      /\ UNCHANGED <<running, user, handshake, answers, strays, applied, refused, told, faults>>
      /\ running /\ nextBatchId' = nextBatchId + 1
  BY DEF Write, server
<1>3. /\ pipeline \in Seq(Row) /\ wire \in Seq(Row) /\ answers \in Seq(Answers)
      /\ stream \in States /\ idle \in BOOLEAN
  BY DEF PipelineInv, TypeOK, Answers
<1>4. \A r \in RowsOf(user, disk') : (\E i \in DOMAIN pipeline : pipeline[i] = r) \/ r.id > Last(pipeline)
  <2> TAKE r \in RowsOf(user, disk')
  <2>1. CASE r \in disk
    BY <1>2, <2>1 DEF RowsOf, PipelineInv, PipelineIsHeadOfQueue
  <2>2. CASE r = row
    <3>1. r.id = nextBatchId /\ Last(pipeline) < nextBatchId /\ nextBatchId \in Int
          /\ Last(pipeline) \in Int
      BY <1>1, <2>2, HeadFacts DEF PipelineInv, TypeOK
    <3> QED
      BY <3>1
  <2>3. r \in disk \/ r = row
    BY <1>1 DEF RowsOf
  <2> QED
    BY <2>1, <2>2, <2>3
<1>5. Ascending(pipeline) /\ \A i \in DOMAIN pipeline : pipeline[i] \in RowsOf(user, disk')
  BY <1>1 DEF PipelineInv, PipelineIsHeadOfQueue, RowsOf
<1>6. /\ PipelineIsHeadOfQueue'
      /\ pipeline' \in Seq(Row) /\ wire' \in Seq(Row)
      /\ idle' \in BOOLEAN /\ stream' \in States
  BY <1>1, <1>2, <1>3, <1>4, <1>5, FillHead
<1>7. pipeline' # <<>>
  <2>1. ASSUME pipeline' = <<>> PROVE FALSE
    <3>1. Len(pipeline') = 0 /\ DOMAIN pipeline' = {}
      BY <2>1
    <3>2. row \in RowsOf(user', disk') /\ running'
      BY <1>1, <1>2 DEF RowsOf
    <3>3. Len(pipeline') = kMaxPendingWrites
      BY <1>6, <3>1, <3>2 DEF PipelineIsHeadOfQueue
    <3> QED
      BY <3>1, <3>3
  <2> QED
    BY <2>1
<1>8. RowsOf(user, disk') \in SUBSET Row
  BY <1>1 DEF RowsOf
<1>9. /\ handshake # "none" <=> stream = "Open"
      /\ handshake # "complete" => wire = <<>> /\ answers = <<>>
      /\ idle => handshake = "complete" /\ pipeline = <<>>
  BY DEF PipelineInv, StreamInv, IdleMeansNothingToSend
<1>10. handshake = "complete" => Match(answers, wire, pipeline)
  BY Matched
<1>11. /\ handshake' # "none" <=> stream' = "Open"
       /\ handshake' # "complete" => wire' = <<>> /\ answers' = <<>>
       /\ handshake' = "complete" => Len(answers') + Len(wire') = Len(pipeline')
       /\ AnswersMatch' /\ IdleMeansNothingToSend'
  BY <1>2, <1>3, <1>7, <1>8, <1>9, <1>10, FillStream
<1>12. StreamInv'
  BY <1>2, <1>11 DEF PipelineInv, StreamInv
<1>13. TypeOK'
  <2>1. nextBatchId' \in Nat
    BY <1>2 DEF PipelineInv, TypeOK
  <2>2. Len(calls') <= MaxWrites
    <3>1. Len(calls') = Len(calls) + 1
      BY AppendFacts DEF Write, PipelineInv, TypeOK
    <3> QED
      BY <3>1, Shape DEF Write
  <2>3. blocks' \in SUBSET Row
    BY <1>1 DEF PipelineInv, TypeOK
  <2> QED
    BY <1>1, <1>2, <1>6, <2>1, <2>2, <2>3 DEF PipelineInv, TypeOK
<1> QED
  BY <1>1, <1>6, <1>11, <1>12, <1>13 DEF PipelineInv

\* Without its first batch the pipeline is the head of the queue without that row.
LEMMA TailHead ==
  ASSUME PipelineInv, answers # <<>>, disk' = disk \ {Head(pipeline)}
  PROVE  /\ Tail(pipeline) \in Seq(Row) /\ Ascending(Tail(pipeline))
         /\ \A i \in DOMAIN Tail(pipeline) : Tail(pipeline)[i] \in RowsOf(user, disk')
         /\ \A q \in RowsOf(user, disk') :
              \/ \E i \in DOMAIN Tail(pipeline) : Tail(pipeline)[i] = q
              \/ q.id > Last(Tail(pipeline))
<1>1. /\ running /\ pipeline # <<>> /\ Head(pipeline) = pipeline[1]
      /\ pipeline \in Seq(Row)
  BY FrontAnswer DEF PipelineInv, TypeOK
<1>2. PICK t \in Seq(Row) :
        /\ t = Tail(pipeline)
        /\ Len(pipeline) \in Nat /\ Len(pipeline) >= 1 /\ DOMAIN pipeline = 1 .. Len(pipeline)
        /\ Len(t) = Len(pipeline) - 1 /\ DOMAIN t = 1 .. Len(pipeline) - 1
        /\ \A i \in 1 .. Len(pipeline) - 1 : t[i] = pipeline[i + 1]
  BY <1>1, TailFacts
<1>3. \A i, j \in DOMAIN pipeline : i < j => pipeline[i].id < pipeline[j].id
  BY DEF PipelineInv, PipelineIsHeadOfQueue, Ascending
<1>4. \A i \in DOMAIN t : i + 1 \in DOMAIN pipeline /\ t[i] = pipeline[i + 1] /\ i \in Int
  BY <1>2
<1>5. Ascending(t)
  <2>1. ASSUME NEW i \in DOMAIN t, NEW j \in DOMAIN t, i < j PROVE t[i].id < t[j].id
    <3>1. i + 1 < j + 1
      BY <1>4, <2>1
    <3> QED
      BY <1>3, <1>4, <3>1
  <2> QED
    BY <2>1 DEF Ascending
<1>6. \A i \in DOMAIN pipeline : pipeline[i] \in RowsOf(user, disk) /\ pipeline[i].id \in Int
  BY HeadFacts DEF PipelineInv, PipelineIsHeadOfQueue, RowsOf
<1>7. ASSUME NEW i \in DOMAIN t PROVE t[i] \in RowsOf(user, disk')
  <2>1. 1 \in DOMAIN pipeline /\ 1 < i + 1
    BY <1>2
  <2>2. pipeline[1].id < pipeline[i + 1].id
    BY <1>3, <1>4, <2>1
  <2>3. pipeline[i + 1] # pipeline[1]
    BY <1>4, <1>6, <2>1, <2>2
  <2> QED
    BY <1>1, <1>4, <1>6, <2>3 DEF RowsOf
<1>8. ASSUME NEW q \in RowsOf(user, disk')
      PROVE  (\E i \in DOMAIN t : t[i] = q) \/ q.id > Last(t)
  <2>1. q \in RowsOf(user, disk) /\ q # pipeline[1]
    BY <1>1 DEF RowsOf
  <2>2. q.id \in Int /\ q.id > kBatchIdUnknown
    BY <2>1, HeadFacts DEF RowsOf
  <2>3. CASE \E i \in DOMAIN pipeline : pipeline[i] = q
    <3>1. PICK i \in DOMAIN pipeline : pipeline[i] = q
      BY <2>3
    <3>2. i # 1
      BY <2>1, <3>1
    <3>3. i - 1 \in DOMAIN t /\ (i - 1) + 1 = i
      BY <1>2, <3>2
    <3>4. t[i - 1] = q
      BY <1>4, <3>1, <3>3
    <3> QED
      BY <3>3, <3>4
  <2>4. CASE q.id > Last(pipeline)
    <3>1. CASE Len(t) = 0
      <4>1. t = <<>>
        BY <3>1, EmptySeq
      <4> QED
        BY <2>2, <4>1 DEF Last
    <3>2. CASE Len(t) > 0
      <4>1. Len(t) \in DOMAIN t /\ Len(t) + 1 = Len(pipeline)
        BY <1>2, <3>2
      <4>2. t[Len(t)] = pipeline[Len(pipeline)]
        BY <1>4, <4>1
      <4>3. t # <<>>
        BY <4>1
      <4>4. Last(t) = Last(pipeline)
        BY <1>1, <4>2, <4>3 DEF Last
      <4> QED
        BY <2>4, <4>4
    <3> QED
      BY <1>2, <3>1, <3>2
  <2> QED
    BY <1>1, <2>1, <2>3, <2>4 DEF PipelineInv, PipelineIsHeadOfQueue
<1>9. /\ \A i \in DOMAIN t : t[i] \in RowsOf(user, disk')
      /\ \A q \in RowsOf(user, disk') : (\E i \in DOMAIN t : t[i] = q) \/ q.id > Last(t)
  BY <1>7, <1>8
<1> QED
  BY <1>2, <1>5, <1>9

\* The row of the first batch goes when its answer is read.
LEMMA OnMutationResultKeeps == PipelineInv /\ OnMutationResult => PipelineInv'
<1> SUFFICES ASSUME PipelineInv, OnMutationResult PROVE PipelineInv'
  OBVIOUS
<1> DEFINE r == Head(pipeline)
<1>1. /\ answers # <<>> /\ Head(answers).ok
      /\ Tell(r, "ok") /\ blocks' = blocks \ BlocksFor(r)
      /\ disk' = disk \ {r} /\ answers' = Tail(answers)
      /\ FillWritePipeline(Tail(pipeline), RowsOf(user, disk'), stream)
      /\ UNCHANGED <<running, user, nextBatchId, handshake, strays, applied, refused, calls, faults>>
  BY DEF OnMutationResult, server
<1>2. /\ handshake = "complete" /\ stream = "Open" /\ running
      /\ Match(answers, wire, pipeline)
      /\ pipeline # <<>> /\ r \in RowsOf(user, disk) /\ r \in disk
      /\ r.call \in applied
  BY <1>1, FrontAnswer DEF RowsOf
<1>3. /\ pipeline \in Seq(Row) /\ wire \in Seq(Row) /\ answers \in Seq(Answers)
      /\ stream \in States /\ idle \in BOOLEAN
  BY DEF PipelineInv, TypeOK, Answers
<1>4. Match(Tail(answers), wire, Tail(pipeline))
  BY <1>1, <1>2, <1>3, MatchTails
<1>5. /\ Tail(answers) \in Seq(Answers)
      /\ Len(answers) \in Nat /\ DOMAIN answers = 1 .. Len(answers)
      /\ Len(Tail(answers)) = Len(answers) - 1 /\ DOMAIN Tail(answers) = 1 .. Len(answers) - 1
      /\ \A i \in 1 .. Len(answers) - 1 : Tail(answers)[i] = answers[i + 1]
  BY <1>1, <1>3, TailFacts
<1>6. /\ Tail(pipeline) \in Seq(Row) /\ Ascending(Tail(pipeline))
      /\ \A i \in DOMAIN Tail(pipeline) : Tail(pipeline)[i] \in RowsOf(user, disk')
      /\ \A q \in RowsOf(user, disk') :
           \/ \E i \in DOMAIN Tail(pipeline) : Tail(pipeline)[i] = q
           \/ q.id > Last(Tail(pipeline))
  BY <1>1, TailHead
<1>7. disk' \in SUBSET Row /\ RowsOf(user, disk') \in SUBSET Row
  BY <1>1 DEF PipelineInv, TypeOK, RowsOf
<1>8. /\ PipelineIsHeadOfQueue'
      /\ pipeline' \in Seq(Row) /\ wire' \in Seq(Row)
      /\ idle' \in BOOLEAN /\ stream' \in States
  BY <1>1, <1>3, <1>6, <1>7, FillHead
<1>9. ~idle
  BY <1>2 DEF PipelineInv, IdleMeansNothingToSend
<1>10. /\ handshake' # "none" <=> stream' = "Open"
       /\ handshake' # "complete" => wire' = <<>> /\ answers' = <<>>
       /\ handshake' = "complete" => Len(answers') + Len(wire') = Len(pipeline')
       /\ AnswersMatch' /\ IdleMeansNothingToSend'
  BY <1>1, <1>2, <1>3, <1>4, <1>5, <1>6, <1>7, <1>9, FillStream
<1>11. \A i \in DOMAIN answers' :
         /\ answers'[i].ok => answers'[i].batch.call \in applied'
         /\ ~answers'[i].ok => answers'[i].batch.call \in refused' /\ i = Len(answers')
  <2>1. ASSUME NEW i \in DOMAIN answers'
        PROVE  /\ i + 1 \in DOMAIN answers /\ answers'[i] = answers[i + 1]
               /\ i + 1 = Len(answers) => i = Len(answers')
    <3>1. i \in 1 .. Len(answers) - 1 /\ Len(answers') = Len(answers) - 1
      BY <1>1, <1>5
    <3> QED
      BY <1>1, <1>5, <3>1
  <2> QED
    BY <1>1, <2>1 DEF PipelineInv, StreamInv
<1>12. StreamInv'
  BY <1>1, <1>2, <1>10, <1>11 DEF StreamInv
<1>13. QueueInv' /\ AppliedInOrder'
  BY <1>1, <1>2, RowRemoved DEF server
<1>14. /\ told' \in [Numbers -> {"none", "ok", "error"}]
       /\ \A n \in Numbers : /\ told'[n] = "ok" => n \in applied'
                             /\ told'[n] = "error" => n \in refused'
       /\ \A b \in blocks \ BlocksFor(r) : told'[b.call] = "none"
  BY <1>1, ToldTruly DEF server
<1>15. blocks' \subseteq disk'
  <2>1. \A b \in blocks : b.user = user /\ b.id = r.id => b \in BlocksFor(r)
    BY DEF BlocksFor
  <2>2. blocks \subseteq disk /\ r.user = user
    BY <1>2 DEF PipelineInv, CompletionsTruthful, RowsOf
  <2> QED
    BY <1>1, <2>1, <2>2
<1>16. CompletionsTruthful'
  BY <1>1, <1>14, <1>15 DEF CompletionsTruthful
<1>17. StraysInv'
  BY <1>1, StraysKept DEF server
<1>18. TypeOK'
  BY <1>1, <1>5, <1>7, <1>8, <1>14 DEF PipelineInv, TypeOK, Answers
<1> QED
  BY <1>8, <1>10, <1>12, <1>13, <1>16, <1>17, <1>18 DEF PipelineInv

\* The row of a refused batch goes, and the connection with it.
LEMMA HandleWriteErrorKeeps == PipelineInv /\ HandleWriteError => PipelineInv'
<1> SUFFICES ASSUME PipelineInv, HandleWriteError PROVE PipelineInv'
  OBVIOUS
<1> DEFINE r == Head(pipeline)
<1>1. /\ answers # <<>> /\ ~Head(answers).ok
      /\ Tell(r, "error") /\ blocks' = blocks \ BlocksFor(r)
      /\ disk' = disk \ {r} /\ Disconnect
      /\ FillWritePipeline(Tail(pipeline), RowsOf(user, disk'), "Initial")
      /\ UNCHANGED <<running, user, nextBatchId, applied, refused, calls, faults>>
  BY DEF HandleWriteError, server
<1>2. running /\ r \in RowsOf(user, disk) /\ r \in disk /\ r.call \in refused
  BY <1>1, FrontAnswer DEF RowsOf
<1>3. wire \in Seq(Row) /\ idle \in BOOLEAN /\ "Initial" \in States
  BY DEF PipelineInv, TypeOK, States
<1>4. /\ StraysInv' /\ strays' \in SUBSET Seq(Row)
      /\ handshake' = "none" /\ answers' = <<>> /\ answers' \in Seq(Answers)
  BY <1>1, Disconnected DEF server
<1>5. /\ Tail(pipeline) \in Seq(Row) /\ Ascending(Tail(pipeline))
      /\ \A i \in DOMAIN Tail(pipeline) : Tail(pipeline)[i] \in RowsOf(user, disk')
      /\ \A q \in RowsOf(user, disk') :
           \/ \E i \in DOMAIN Tail(pipeline) : Tail(pipeline)[i] = q
           \/ q.id > Last(Tail(pipeline))
  BY <1>1, TailHead
<1>6. disk' \in SUBSET Row /\ RowsOf(user, disk') \in SUBSET Row
  BY <1>1 DEF PipelineInv, TypeOK, RowsOf
<1>7. /\ PipelineIsHeadOfQueue'
      /\ pipeline' \in Seq(Row) /\ wire' \in Seq(Row)
      /\ idle' \in BOOLEAN /\ stream' \in States
  BY <1>1, <1>3, <1>5, <1>6, FillHead
<1>8. /\ handshake' # "none" <=> stream' = "Open"
      /\ handshake' # "complete" => wire' = <<>> /\ answers' = <<>>
      /\ AnswersMatch' /\ IdleMeansNothingToSend'
  BY <1>1, <1>3, <1>4, <1>5, <1>6, FillStream
<1>9. StreamInv'
  <2>1. DOMAIN answers' = {}
    BY <1>4
  <2> QED
    BY <1>1, <1>2, <1>4, <1>8, <2>1 DEF StreamInv
<1>10. QueueInv' /\ AppliedInOrder'
  BY <1>1, <1>2, RowRemoved DEF server
<1>11. /\ told' \in [Numbers -> {"none", "ok", "error"}]
       /\ \A n \in Numbers : /\ told'[n] = "ok" => n \in applied'
                             /\ told'[n] = "error" => n \in refused'
       /\ \A b \in blocks \ BlocksFor(r) : told'[b.call] = "none"
  BY <1>1, ToldTruly DEF server
<1>12. blocks' \subseteq disk'
  <2>1. \A b \in blocks : b.user = user /\ b.id = r.id => b \in BlocksFor(r)
    BY DEF BlocksFor
  <2>2. blocks \subseteq disk /\ r.user = user
    BY <1>2 DEF PipelineInv, CompletionsTruthful, RowsOf
  <2> QED
    BY <1>1, <2>1, <2>2
<1>13. CompletionsTruthful'
  BY <1>1, <1>11, <1>12 DEF CompletionsTruthful
<1>14. TypeOK'
  <2>1. answers' \in Seq([batch : Row, ok : BOOLEAN])
    BY <1>4 DEF Answers
  <2>2. blocks' \in SUBSET Row
    BY <1>1 DEF PipelineInv, TypeOK
  <2> QED
    BY <1>1, <1>4, <1>6, <1>7, <1>11, <2>1, <2>2 DEF PipelineInv, TypeOK
<1> QED
  BY <1>4, <1>7, <1>8, <1>9, <1>10, <1>13, <1>14 DEF PipelineInv

\* EnableNetwork with nothing in the pipeline, for the queue of user u.
LEMMA RefilledFacts ==
  ASSUME PipelineInv, NEW u \in Users, user' = u, UNCHANGED <<disk, applied, refused, calls>>,
         NEW state \in States, state # "Open",
         FillWritePipeline(<<>>, RowsOf(u, disk'), state),
         IsNextBatchId(nextBatchId', disk') \/ nextBatchId' = nextBatchId,
         nextBatchId' \in Nat, handshake' = "none", answers' = <<>>, running'
  PROVE  /\ PipelineIsHeadOfQueue' /\ StreamInv' /\ QueueInv' /\ AppliedInOrder'
         /\ AnswersMatch' /\ IdleMeansNothingToSend'
         /\ pipeline' \in Seq(Row) /\ wire' \in Seq(Row)
         /\ idle' \in BOOLEAN /\ stream' \in States
<1>1. /\ wire \in Seq(Row) /\ idle \in BOOLEAN /\ disk' \in SUBSET Row
      /\ RowsOf(u, disk') \in SUBSET Row
  BY DEF PipelineInv, TypeOK, RowsOf
<1>2. <<>> \in Seq(Row) /\ answers' \in Seq(Answers) /\ DOMAIN <<>> = {}
  BY EmptySeq
<1>3. Ascending(<<>>) /\ \A r \in RowsOf(u, disk') : r.id > Last(<<>>)
  BY HeadFacts DEF Ascending, Last, RowsOf
<1>4. /\ PipelineIsHeadOfQueue'
      /\ pipeline' \in Seq(Row) /\ wire' \in Seq(Row)
      /\ idle' \in BOOLEAN /\ stream' \in States
  BY <1>1, <1>2, <1>3, FillHead
<1>5. /\ handshake' # "none" <=> stream' = "Open"
      /\ handshake' # "complete" => wire' = <<>> /\ answers' = <<>>
      /\ AnswersMatch' /\ IdleMeansNothingToSend'
  BY <1>1, <1>2, FillStream
<1>6. StreamInv'
  BY <1>2, <1>5 DEF StreamInv
<1>7. \A r \in disk' : r.id \in 0 .. nextBatchId' - 1
  <2>1. CASE IsNextBatchId(nextBatchId', disk')
    <3>1. \A r \in disk' : r.id \in Int /\ r.id >= 0 /\ r.id < nextBatchId'
      BY <2>1, HeadFacts DEF IsNextBatchId, kBatchIdUnknown
    <3> QED
      BY <3>1
  <2>2. CASE nextBatchId' = nextBatchId
    BY <2>2 DEF PipelineInv, QueueInv
  <2> QED
    BY <2>1, <2>2
<1>8. QueueInv'
  BY <1>7 DEF PipelineInv, QueueInv
<1>9. AppliedInOrder'
  BY DEF PipelineInv, AppliedInOrder
<1> QED
  BY <1>4, <1>5, <1>6, <1>8, <1>9

\* Another user's queue, or the same one, fills an empty pipeline.
LEMMA CredentialDidChangeKeeps ==
  ASSUME PipelineInv, NEW u \in Users, CredentialDidChange(u)
  PROVE  PipelineInv'
<1> DEFINE state == IF IsStarted(stream) THEN "Initial" ELSE stream
<1>1. /\ running /\ faults < MaxFaults /\ faults' = faults + 1 /\ Disconnect
      /\ UNCHANGED <<running, disk, blocks, applied, refused, calls, told>>
      /\ user' = u
      /\ FillWritePipeline(<<>>, RowsOf(u, disk'), state)
      /\ \/ nextBatchId' \in 0 .. MaxWrites /\ IsNextBatchId(nextBatchId', disk')
         \/ nextBatchId' = nextBatchId
  BY DEF CredentialDidChange, Restarted, LoadNextBatchId, server
<1>2. state \in States /\ state # "Open"
  BY DEF IsStarted, PipelineInv, TypeOK, States
<1>3. /\ StraysInv' /\ strays' \in SUBSET Seq(Row)
      /\ handshake' = "none" /\ answers' = <<>> /\ answers' \in Seq(Answers)
  BY <1>1, Disconnected DEF server
<1>4. nextBatchId' \in Nat
  BY <1>1 DEF PipelineInv, TypeOK
<1> HIDE DEF state
<1>5. /\ PipelineIsHeadOfQueue' /\ StreamInv' /\ QueueInv' /\ AppliedInOrder'
      /\ AnswersMatch' /\ IdleMeansNothingToSend'
      /\ pipeline' \in Seq(Row) /\ wire' \in Seq(Row)
      /\ idle' \in BOOLEAN /\ stream' \in States
  BY <1>1, <1>2, <1>3, <1>4, RefilledFacts
<1>6. CompletionsTruthful'
  BY <1>1 DEF PipelineInv, CompletionsTruthful
<1>7. TypeOK'
  <2>1. faults' \in 0 .. MaxFaults
    BY <1>1 DEF PipelineInv, TypeOK
  <2> QED
    BY <1>1, <1>3, <1>4, <1>5, <2>1 DEF PipelineInv, TypeOK, Answers
<1> QED
  BY <1>3, <1>5, <1>6, <1>7 DEF PipelineInv

\* A new process fills its pipeline from disk.
LEMMA RestartKeeps ==
  ASSUME PipelineInv, NEW u \in Users, Restart(u)
  PROVE  PipelineInv'
<1>1. /\ ~running /\ running'
      /\ UNCHANGED <<disk, blocks, handshake, answers, strays, applied, refused, calls, told, faults>>
      /\ user' = u
      /\ FillWritePipeline(<<>>, RowsOf(u, disk'), "Initial")
      /\ nextBatchId' \in 0 .. MaxWrites /\ IsNextBatchId(nextBatchId', disk')
  BY DEF Restart, Restarted, LoadNextBatchId, server
<1>2. handshake' = "none" /\ answers' = <<>> /\ nextBatchId' \in Nat /\ "Initial" \in States
  BY <1>1 DEF PipelineInv, StreamInv, States
<1>3. /\ PipelineIsHeadOfQueue' /\ StreamInv' /\ QueueInv' /\ AppliedInOrder'
      /\ AnswersMatch' /\ IdleMeansNothingToSend'
      /\ pipeline' \in Seq(Row) /\ wire' \in Seq(Row)
      /\ idle' \in BOOLEAN /\ stream' \in States
  BY <1>1, <1>2, RefilledFacts
<1>4. CompletionsTruthful'
  BY <1>1 DEF PipelineInv, CompletionsTruthful
<1>5. StraysInv'
  BY <1>1, StraysKept DEF server
<1>6. TypeOK'
  BY <1>1, <1>2, <1>3 DEF PipelineInv, TypeOK
<1> QED
  BY <1>3, <1>4, <1>5, <1>6 DEF PipelineInv
-----------------------------------------------------------------------------
(* The theorems                                                             *)

\* The invariant of the write path: answers, wire and pipeline in step, the
\* pipeline the head of the current user's queue, completions true to what the
\* server did, calls of a user taken in order; in every reachable state, with
\* streams lost, users changed and processes killed at any time.
THEOREM PipelineCorrect == Spec => []PipelineInv
<1>1. Init => PipelineInv
  <2> SUFFICES ASSUME Init PROVE PipelineInv
    OBVIOUS
  <2> USE DEF Init
  <2>1. /\ <<>> \in Seq(Row) /\ <<>> \in Seq([batch : Row, ok : BOOLEAN]) /\ <<>> \in Seq(Users)
        /\ Len(<<>>) = 0 /\ DOMAIN <<>> = {}
    BY EmptySeq
  <2>2. TypeOK
    <3>1. 0 \in 0 .. MaxFaults /\ 0 <= MaxWrites /\ 0 \in Nat
      OBVIOUS
    <3>2. told \in [Numbers -> {"none", "ok", "error"}]
      OBVIOUS
    <3> QED
      BY <2>1, <3>1, <3>2 DEF TypeOK, States
  <2>3. StreamInv /\ QueueInv /\ StraysInv
    BY <2>1 DEF StreamInv, QueueInv, StraysInv
  <2>4. AnswersMatch
    BY <2>1 DEF AnswersMatch
  <2>5. IdleMeansNothingToSend /\ PipelineIsHeadOfQueue
    BY <2>1 DEF IdleMeansNothingToSend, PipelineIsHeadOfQueue, Ascending, RowsOf
  <2>6. CompletionsTruthful /\ AppliedInOrder
    BY <2>1 DEF CompletionsTruthful, AppliedInOrder
  <2> QED
    BY <2>2, <2>3, <2>4, <2>5, <2>6 DEF PipelineInv
<1>2. PipelineInv /\ [Next]_vars => PipelineInv'
  <2> SUFFICES ASSUME PipelineInv, [Next]_vars PROVE PipelineInv'
    OBVIOUS
  <2>1. CASE Client
    BY <2>1, WriteKeeps, ResumeStartKeeps, HandshakeKeeps, OnMutationResultKeeps,
       HandleWriteErrorKeeps, StreamFinishKeeps, BackoffKeeps, IdleStopKeeps,
       CredentialDidChangeKeeps DEF Client
  <2>2. CASE Process
    BY <2>2, CrashKeeps, CrashBeforeAcknowledgeKeeps, CrashBeforeCompletionKeeps,
       RestartKeeps DEF Process
  <2>3. CASE Server
    BY <2>3, ServerShakesKeeps, ServerTakesKeeps, ServerRefusesKeeps,
       ServerTakesStrayKeeps DEF Server
  <2>4. CASE UNCHANGED vars
    <3> USE <2>4 DEF vars, phone, conn, server
    <3>1. TypeOK' /\ StreamInv' /\ QueueInv' /\ StraysInv'
      BY DEF PipelineInv, TypeOK, StreamInv, QueueInv, StraysInv
    <3>2. AnswersMatch' /\ IdleMeansNothingToSend' /\ PipelineIsHeadOfQueue'
      BY DEF PipelineInv, AnswersMatch, IdleMeansNothingToSend, PipelineIsHeadOfQueue
    <3>3. CompletionsTruthful' /\ AppliedInOrder'
      BY DEF PipelineInv, CompletionsTruthful, AppliedInOrder
    <3> QED
      BY <3>1, <3>2, <3>3 DEF PipelineInv
  <2> QED
    BY <2>1, <2>2, <2>3, <2>4 DEF Next
<1> QED
  BY <1>1, <1>2, PTL DEF Spec

\* "correlated to the first write in our write pipeline": an answer is never
\* taken for another batch's.
THEOREM AnswersAlwaysMatch == Spec => []AnswersMatch
<1>1. PipelineInv => AnswersMatch
  BY DEF PipelineInv
<1> QED
  BY <1>1, PipelineCorrect, PTL

\* "Write stream was stopped gracefully while still needed" never fails.
THEOREM NeverIdleInNeed == Spec => []IdleMeansNothingToSend
<1>1. PipelineInv => IdleMeansNothingToSend
  BY DEF PipelineInv
<1> QED
  BY <1>1, PipelineCorrect, PTL

\* A completion is told what the server did with its own call.
THEOREM CompletionsAreTruthful == Spec => []CompletionsTruthful
<1>1. PipelineInv => CompletionsTruthful
  BY DEF PipelineInv
<1> QED
  BY <1>1, PipelineCorrect, PTL

\* A user's calls are taken in the order they were made.
THEOREM CallsAppliedInOrder == Spec => []AppliedInOrder
<1>1. PipelineInv => AppliedInOrder
  BY DEF PipelineInv
<1> QED
  BY <1>1, PipelineCorrect, PTL
-----------------------------------------------------------------------------
(* The refinement                                                           *)

\* At most one completion is called, and none a second time.
LEMMA TellsOnce ==
  ASSUME PipelineInv, NEW r \in RowsOf(user, disk), NEW what, Tell(r, what)
  PROVE  \/ told' = told
         \/ told' = [told EXCEPT ![r.call] = what] /\ told[r.call] = "none"
<1>1. told' = [n \in Numbers |-> IF \E b \in BlocksFor(r) : b.call = n THEN what ELSE told[n]]
  BY DEF Tell
<1>2. told \in [Numbers -> {"none", "ok", "error"}] /\ r.call \in Numbers
  BY DEF PipelineInv, TypeOK, RowsOf, Row
<1>3. CASE BlocksFor(r) = {}
  BY <1>1, <1>2, <1>3
<1>4. CASE BlocksFor(r) = {r}
  <2>1. told[r.call] = "none"
    BY <1>4 DEF BlocksFor, PipelineInv, CompletionsTruthful
  <2>2. told' = [told EXCEPT ![r.call] = what]
    BY <1>1, <1>2, <1>4
  <2> QED
    BY <2>1, <2>2
<1> QED
  BY <1>3, <1>4, OwnBlock

\* The row of a call with its verdict goes, its block told or not.
LEMMA Settles ==
  ASSUME PipelineInv, NEW r \in RowsOf(user, disk), r.call \in applied \cup refused,
         disk' = disk \ {r}, UNCHANGED <<applied, refused, calls>>,
         \/ told' = told
         \/ told' = [told EXCEPT ![r.call] = IF r.call \in applied THEN "ok" ELSE "error"]
            /\ told[r.call] = "none"
  PROVE  Promise!Next
<1>1. r.call \in Numbers /\ r \in disk
  BY DEF PipelineInv, TypeOK, RowsOf, Row
<1>2. {q.call : q \in disk'} = {q.call : q \in disk} \ {r.call}
  BY <1>1 DEF PipelineInv, QueueInv
<1>3. Promise!Settle(r.call)
  BY <1>1, <1>2 DEF Promise!Settle, Promise!Verdict
<1> QED
  BY <1>1, <1>3 DEF Promise!Next, Promise!Numbers, Numbers

\* A verdict of the server is a step of the promise, or nothing new.
LEMMA VerdictSteps ==
  ASSUME PipelineInv, NEW n \in DOMAIN calls, Earlier(n) = {},
         \/ n \notin refused /\ applied' = applied \cup {n} /\ refused' = refused
         \/ n \notin applied /\ refused' = refused \cup {n} /\ applied' = applied,
         UNCHANGED <<disk, calls, told>>
  PROVE  [Promise!Next]_Promise!vars
<1>1. n \in Numbers
  BY Shape DEF PipelineInv, TypeOK, Numbers
<1>2. CASE n \in applied \cup refused
  BY <1>2 DEF Promise!vars
<1>3. CASE n \notin applied \cup refused
  <2>1. Promise!Due(n)
    BY <1>3 DEF Promise!Due, Earlier
  <2>2. Promise!Take(n) \/ Promise!Refuse(n)
    BY <2>1 DEF Promise!Take, Promise!Refuse
  <2> QED
    BY <1>1, <2>2 DEF Promise!Next, Promise!Numbers, Numbers
<1> QED
  BY <1>2, <1>3

\* What the application relies on (DurableWrites): every step of the client, of
\* the process and of the server is a step of the promise, or none.
THEOREM PipelineKeepsPromise == Spec => KeepsPromise
<1>1. Init => Promise!Init
  BY DEF Init, Promise!Init, Promise!Numbers, Numbers
<1>2. PipelineInv /\ [Next]_vars => [Promise!Next]_Promise!vars
  <2> SUFFICES ASSUME PipelineInv, [Next]_vars PROVE [Promise!Next]_Promise!vars
    OBVIOUS
  <2> USE DEF phone, conn, server
  <2>1. CASE UNCHANGED <<disk, applied, refused, calls, told>>
    BY <2>1 DEF Promise!vars
  <2>2. CASE Write
    <3>1. PICK row \in Row : /\ row.call = Len(calls) + 1
                             /\ disk' = disk \cup {row}
      BY <2>2, RowAdded
    <3>2. {q.call : q \in disk'} = {q.call : q \in disk} \cup {Len(calls) + 1}
      BY <3>1
    <3>3. PICK u \in Users : u = user
      BY DEF PipelineInv, TypeOK
    <3>4. Promise!Call(u)
      BY <2>2, <3>2, <3>3 DEF Write, Promise!Call
    <3> QED
      BY <3>4 DEF Promise!Next
  <2>3. CASE OnMutationResult
    <3> DEFINE r == Head(pipeline)
    <3>1. r \in RowsOf(user, disk) /\ r.call \in applied
      BY <2>3, FrontAnswer DEF OnMutationResult
    <3>2. Tell(r, "ok") /\ disk' = disk \ {r} /\ UNCHANGED <<applied, refused, calls>>
      BY <2>3 DEF OnMutationResult
    <3> HIDE DEF r
    <3> QED
      BY <3>1, <3>2, TellsOnce, Settles
  <2>4. CASE HandleWriteError
    <3> DEFINE r == Head(pipeline)
    <3>1. r \in RowsOf(user, disk) /\ r.call \in refused
      BY <2>4, FrontAnswer DEF HandleWriteError
    <3>2. Tell(r, "error") /\ disk' = disk \ {r} /\ UNCHANGED <<applied, refused, calls>>
      BY <2>4 DEF HandleWriteError
    <3>3. r.call \notin applied
      BY <3>1 DEF PipelineInv, QueueInv
    <3> HIDE DEF r
    <3> QED
      BY <3>1, <3>2, <3>3, TellsOnce, Settles
  <2>5. CASE CrashBeforeAcknowledge
    <3> DEFINE r == Head(pipeline)
    <3>1. r \in RowsOf(user, disk) /\ r.call \in applied
      BY <2>5, FrontAnswer DEF CrashBeforeAcknowledge
    <3>2. Tell(r, "ok") /\ UNCHANGED <<disk, applied, refused, calls>>
      BY <2>5 DEF CrashBeforeAcknowledge, Dies
    <3>3. r.call \in Numbers /\ r \in disk
      BY <3>1 DEF PipelineInv, TypeOK, RowsOf, Row
    <3> HIDE DEF r
    <3>4. CASE told' = [told EXCEPT ![r.call] = "ok"] /\ told[r.call] = "none"
      <4>1. Promise!TellEarly(r.call)
        BY <3>1, <3>2, <3>3, <3>4 DEF Promise!TellEarly
      <4> QED
        BY <3>3, <4>1 DEF Promise!Next, Promise!Numbers, Numbers
    <3> QED
      BY <2>1, <3>1, <3>2, <3>4, TellsOnce
  <2>6. CASE CrashBeforeCompletion
    <3>1. Head(pipeline) \in RowsOf(user, disk) /\ Head(pipeline).call \in refused
      BY <2>6, FrontAnswer DEF CrashBeforeCompletion
    <3> QED
      BY <2>6, <3>1, Settles DEF CrashBeforeCompletion, Dies
  <2>7. CASE ServerTakes
    <3>1. Head(wire).call \in DOMAIN calls /\ Earlier(Head(wire).call) = {}
      BY <2>7, AnswerFacts DEF ServerTakes, Answer
    <3> QED
      BY <2>7, <3>1, VerdictSteps DEF ServerTakes, Answer
  <2>8. CASE ServerRefuses
    <3>1. Head(wire).call \in DOMAIN calls /\ Earlier(Head(wire).call) = {}
      BY <2>8, AnswerFacts DEF ServerRefuses, Answer
    <3> QED
      BY <2>8, <3>1, VerdictSteps DEF ServerRefuses, Answer
  <2>9. CASE ServerTakesStray
    <3>1. PICK s \in strays :
            /\ s # <<>> /\ Head(s).call \notin refused
            /\ applied' = applied \cup {Head(s).call}
            /\ UNCHANGED <<disk, calls, told, refused>>
      BY <2>9 DEF ServerTakesStray
    <3> QED
      BY <3>1, StrayFront, VerdictSteps
  <2>10. CASE \/ ResumeStartWithCredentials \/ OnHandshakeComplete \/ OnStreamFinish
              \/ BackoffElapses \/ IdleStop \/ Crash \/ ServerShakes
              \/ \E u \in Users : CredentialDidChange(u) \/ Restart(u)
    BY <2>1, <2>10 DEF ResumeStartWithCredentials, OnHandshakeComplete, OnStreamFinish,
         BackoffElapses, IdleStop, Crash, Dies, ServerShakes, CredentialDidChange, Restart
  <2>11. CASE UNCHANGED vars
    BY <2>1, <2>11 DEF vars
  <2> QED
    BY <2>2, <2>3, <2>4, <2>5, <2>6, <2>7, <2>8, <2>9, <2>10, <2>11
       DEF Next, Client, Process, Server
<1> QED
  BY <1>1, <1>2, PipelineCorrect, PTL DEF Spec, KeepsPromise, Promise!Spec
=============================================================================
