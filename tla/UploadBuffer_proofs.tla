------------------------- MODULE UploadBuffer_proofs -------------------------
(***************************************************************************)
(* Machine-checked: the upload keeps what UploadContent promises, for      *)
(* every size of the file and of the chunks, any number of edits, attempts *)
(* and requests, and whatever the provider accepts, loses or delays.       *)
(***************************************************************************)
EXTENDS UploadBuffer, SequenceTheorems, TLAPS

-----------------------------------------------------------------------------
(* The inductive invariant.                                                *)

Answers  == [kind : {"expired", "complete", "incomplete"}, next : Nat]
Verdicts == {"open", "failed", "uploaded", "conflict"}

UploadTypeOK ==
  /\ edits \in 0..MaxEdits
  /\ fingerprint \in Content!Contents \cup {None}
  /\ object \in Content!Contents \cup {None}
  /\ attempt \in Attempts
  /\ stream \in [Attempts -> Seq(Bytes)]
  /\ start \in Nat /\ pending \in Seq(Bytes)
  /\ request \in Request \cup {None}
  /\ sends \in Nat /\ sent \subseteq Request
  /\ answer \in Answers \cup {None}
  /\ verdict \in Verdicts
  /\ received \in [Attempts -> Seq(Bytes)]

(* A sequence that stands at an offset of another.                         *)
Within(s, offset, whole) ==
  /\ offset + Len(s) <= Len(whole)
  /\ \A k \in 1..Len(s) : s[k] = whole[offset + k]

InOrder(s) == Len(s) <= Total /\ \A k \in 1..Len(s) : s[k][1] = k

(* What was read is in order; a coming attempt has read nothing.           *)
Streams ==
  /\ \A a \in Attempts : InOrder(stream[a])
  /\ \A a \in Attempts : a > attempt => stream[a] = <<>>

(* The buffer ends where the reading stopped.                              *)
Buffered ==
  /\ start + Len(pending) = Len(stream[attempt])
  /\ Within(pending, start, stream[attempt])

Read(r)  == Within(r.bytes, r.start, stream[r.attempt])
Final(r) == r.start + Len(r.bytes) = Total

(* Every request carries bytes of its attempt, at their offset, and the    *)
(* last ones are sent only of the contents the digest stands for.          *)
Requests ==
  /\ \A r \in sent : Read(r)
  /\ step \in {"fingerprint", "put"} =>
       request \in Request /\ Read(request) /\ request.attempt = attempt
  /\ step = "fingerprint" => Len(stream[attempt]) = Total

Digested(r) == Final(r) => fingerprint = stream[r.attempt]

Fingerprinted ==
  /\ step = "put" => Digested(request)
  /\ \A r \in sent : Digested(r)

(* A session holds a prefix of what its attempt read.                      *)
Sessions ==
  /\ \A a \in Attempts : Within(received[a], 0, stream[a])
  /\ \A a \in Attempts : Len(received[a]) = Total => object # None
  /\ answer # None /\ answer.kind = "complete" => object # None

OneObject == object # None => object = fingerprint

Inv ==
  /\ UploadTypeOK /\ Streams /\ Buffered /\ Requests /\ Fingerprinted
  /\ Sessions /\ OneObject

-----------------------------------------------------------------------------
(* Lemmas about sequences at offsets.                                      *)

LEMMA AppendedStays ==
  ASSUME NEW s \in Seq(Bytes), NEW w \in Seq(Bytes), NEW f \in Seq(Bytes),
         NEW o \in Nat, Within(s, o, w)
  PROVE  Within(s, o, w \o f)
<1>1. Len(s) \in Nat /\ Len(w) \in Nat /\ Len(f) \in Nat
  BY LenProperties
<1>2. /\ Len(w \o f) = Len(w) + Len(f)
      /\ \A i \in 1..Len(w) + Len(f) : (w \o f)[i] = IF i <= Len(w) THEN w[i] ELSE f[i - Len(w)]
  BY ConcatProperties
<1>3. ASSUME NEW k \in 1..Len(s) PROVE s[k] = (w \o f)[o + k]
  <2>1. o + k \in 1..Len(w) + Len(f) /\ o + k <= Len(w)
    BY <1>1 DEF Within
  <2> QED
    BY <1>2, <2>1 DEF Within
<1> QED
  BY <1>1, <1>2, <1>3 DEF Within

LEMMA AppendBoth ==
  ASSUME NEW p \in Seq(Bytes), NEW w \in Seq(Bytes), NEW f \in Seq(Bytes),
         NEW o \in Nat, Within(p, o, w), o + Len(p) = Len(w)
  PROVE  Within(p \o f, o, w \o f) /\ o + Len(p \o f) = Len(w \o f)
<1> DEFINE P == p \o f
           W == w \o f
<1>1. Len(p) \in Nat /\ Len(w) \in Nat /\ Len(f) \in Nat
  BY LenProperties
<1>2. /\ Len(W) = Len(w) + Len(f)
      /\ \A i \in 1..Len(w) + Len(f) : W[i] = IF i <= Len(w) THEN w[i] ELSE f[i - Len(w)]
  BY ConcatProperties
<1>3. /\ Len(P) = Len(p) + Len(f)
      /\ \A i \in 1..Len(p) + Len(f) : P[i] = IF i <= Len(p) THEN p[i] ELSE f[i - Len(p)]
  BY ConcatProperties
<1> HIDE DEF P, W
<1>4. ASSUME NEW k \in 1..Len(P) PROVE P[k] = W[o + k]
  <2>1. k \in 1..Len(p) + Len(f) /\ o + k \in 1..Len(w) + Len(f)
    BY <1>1, <1>3
  <2>2. CASE k <= Len(p)
    <3>1. o + k <= Len(w) /\ k \in 1..Len(p)
      BY <1>1, <2>1, <2>2
    <3>2. p[k] = w[o + k]
      BY <3>1 DEF Within
    <3> QED
      BY <1>2, <1>3, <2>1, <2>2, <3>1, <3>2
  <2>3. CASE ~(k <= Len(p))
    <3>1. ~(o + k <= Len(w)) /\ k - Len(p) = o + k - Len(w)
      BY <1>1, <2>1, <2>3
    <3>2. P[k] = f[k - Len(p)] /\ W[o + k] = f[o + k - Len(w)]
      BY <1>2, <1>3, <2>1, <2>3, <3>1
    <3> QED
      BY <3>1, <3>2
  <2> QED
    BY <2>2, <2>3
<1>5. o + Len(P) = Len(W) /\ Len(W) \in Nat
  <2>1. Len(P) = Len(p) + Len(f) /\ Len(W) = Len(w) + Len(f)
    BY <1>2, <1>3
  <2>2. o + (Len(p) + Len(f)) = Len(w) + Len(f) /\ Len(w) + Len(f) \in Nat
    BY <1>1
  <2> QED
    BY <2>1, <2>2
<1>6. Within(P, o, W)
  BY <1>4, <1>5 DEF Within
<1> QED
  BY <1>5, <1>6 DEF P, W

LEMMA DroppedPrefix ==
  ASSUME NEW p \in Seq(Bytes), NEW w \in Seq(Bytes), NEW o \in Nat, NEW n \in Nat,
         Within(p, o, w), o + Len(p) = Len(w), o <= n, n <= o + Len(p)
  PROVE  LET q == SubSeq(p, n - o + 1, Len(p)) IN
         q \in Seq(Bytes) /\ Within(q, n, w) /\ n + Len(q) = Len(w)
<1> DEFINE m == n - o + 1
           q == SubSeq(p, m, Len(p))
<1>1. Len(p) \in Nat /\ Len(w) \in Nat /\ m \in Int /\ m \in 1..Len(p) + 1
  BY LenProperties
<1>2. \A i \in m..Len(p) : p[i] \in Bytes
  BY <1>1, ElementOfSeq
<1>3. /\ q \in Seq(Bytes)
      /\ Len(q) = IF m <= Len(p) THEN Len(p) - m + 1 ELSE 0
      /\ \A i \in 1..Len(p) - m + 1 : q[i] = p[m + i - 1]
  BY <1>1, <1>2, SubSeqProperties, Len(p) \in Int
<1>4. Len(q) = Len(p) - m + 1
  BY <1>1, <1>3
<1>5. n + Len(q) = Len(w)
  BY <1>1, <1>4
<1>6. ASSUME NEW k \in 1..Len(q) PROVE q[k] = w[n + k]
  <2>1. m + k - 1 \in 1..Len(p) /\ o + (m + k - 1) = n + k /\ k \in 1..Len(p) - m + 1
    BY <1>1, <1>4
  <2>2. q[k] = p[m + k - 1] /\ p[m + k - 1] = w[o + (m + k - 1)]
    BY <1>3, <2>1 DEF Within
  <2> QED
    BY <2>1, <2>2
<1> QED
  BY <1>1, <1>3, <1>5, <1>6 DEF Within

(* What a request adds behind the bytes a session already holds.           *)
Extended(h, b, o, u) == h \o SubSeq(b, Len(h) - o + 1, u - o)

LEMMA AddedPrefix ==
  ASSUME NEW h \in Seq(Bytes), NEW b \in Seq(Bytes), NEW w \in Seq(Bytes),
         NEW o \in Nat, NEW u \in Nat, Within(h, 0, w), Within(b, o, w),
         o <= Len(h), Len(h) <= u, u <= o + Len(b)
  PROVE  /\ Extended(h, b, o, u) \in Seq(Bytes)
         /\ Within(Extended(h, b, o, u), 0, w)
         /\ Len(Extended(h, b, o, u)) = u
<1> DEFINE m == Len(h) - o + 1
           t == SubSeq(b, m, u - o)
           g == h \o t
<1>1. /\ Len(h) \in Nat /\ Len(b) \in Nat /\ Len(w) \in Nat
      /\ m \in Int /\ u - o \in Int /\ m >= 1 /\ u - o <= Len(b)
  BY LenProperties
<1>2. \A i \in m..u - o : b[i] \in Bytes
  BY <1>1, ElementOfSeq
<1>3. /\ t \in Seq(Bytes)
      /\ Len(t) = IF m <= u - o THEN u - o - m + 1 ELSE 0
      /\ \A i \in 1..u - o - m + 1 : t[i] = b[m + i - 1]
  BY <1>1, <1>2, SubSeqProperties
<1>4. Len(t) = u - Len(h)
  BY <1>1, <1>3
<1>5. /\ g \in Seq(Bytes) /\ Len(g) = Len(h) + Len(t)
      /\ \A i \in 1..Len(h) + Len(t) : g[i] = IF i <= Len(h) THEN h[i] ELSE t[i - Len(h)]
  BY <1>3, ConcatProperties
<1>6. Len(g) = u /\ u <= Len(w)
  BY <1>1, <1>4, <1>5 DEF Within
<1>7. ASSUME NEW k \in 1..Len(g) PROVE g[k] = w[0 + k]
  <2>1. k \in 1..Len(h) + Len(t) /\ k \in 1..u
    BY <1>1, <1>4, <1>5
  <2>2. CASE k <= Len(h)
    BY <1>1, <1>5, <2>1, <2>2 DEF Within
  <2>3. CASE ~(k <= Len(h))
    <3> DEFINE i == k - Len(h)
    <3>1. i \in 1..u - o - m + 1 /\ m + i - 1 \in 1..Len(b) /\ o + (m + i - 1) = k
      BY <1>1, <2>1, <2>3
    <3>2. t[i] = b[m + i - 1] /\ b[m + i - 1] = w[o + (m + i - 1)]
      BY <1>3, <3>1 DEF Within
    <3>3. g[k] = t[i]
      BY <1>5, <2>1, <2>3
    <3> QED
      BY <3>1, <3>2, <3>3, <2>1
  <2> QED
    BY <2>2, <2>3
<1>8. Within(g, 0, w)
  BY <1>1, <1>6, <1>7 DEF Within
<1> QED
  BY <1>5, <1>6, <1>8 DEF Extended

LEMMA ChunkFacts ==
  ASSUME NEW n \in Nat, NEW c \in Nat, n + c <= Total, edits \in 0..MaxEdits
  PROVE  /\ Chunk(n, c) \in Seq(Bytes)
         /\ Len(Chunk(n, c)) = c
         /\ \A k \in 1..c : Chunk(n, c)[k] = <<n + k, edits>>
<1>1. \A k \in 1..c : <<n + k, edits>> \in Bytes
  BY UploadAssumption DEF Bytes
<1>2. Chunk(n, c) \in [1..c -> Bytes]
  BY <1>1 DEF Chunk
<1>3. Chunk(n, c) \in Seq(Bytes)
  BY <1>2
<1>4. Len(Chunk(n, c)) = c
  BY <1>2, <1>3
<1> QED
  BY <1>3, <1>4 DEF Chunk

(* A whole file, read in order.                                            *)
LEMMA WholeIsContents ==
  ASSUME NEW s \in Seq(Bytes), InOrder(s), Len(s) = Total
  PROVE  s \in Content!Contents
<1>1. s \in [1..Total -> Bytes]
  BY LenProperties
<1> QED
  BY <1>1 DEF InOrder, Content!Contents, Content!Bytes, Bytes

-----------------------------------------------------------------------------
(* The steps of the buffer.                                                *)

LEMMA InitInv == Init => Inv
<1> SUFFICES ASSUME Init PROVE Inv
  OBVIOUS
<1>1. Len(<<>>) = 0 /\ <<>> \in Seq(Bytes)
  OBVIOUS
<1>2. \A a \in Attempts : stream[a] = <<>> /\ received[a] = <<>>
  BY DEF Init
<1>3. attempt \in Attempts
  BY UploadAssumption DEF Init, Attempts
<1>4. UploadTypeOK
  BY <1>1, <1>3, UploadAssumption DEF Init, UploadTypeOK, Verdicts
<1>5. Streams
  BY <1>1, <1>2, UploadAssumption DEF Init, Streams, InOrder
<1>6. Buffered
  BY <1>1, <1>2, <1>3 DEF Init, Buffered, Within
<1>7. Requests /\ Fingerprinted
  BY DEF Init, Requests, Fingerprinted
<1>8. Sessions /\ OneObject
  BY <1>1, <1>2, UploadAssumption DEF Init, Sessions, Within, OneObject
<1> QED
  BY <1>4, <1>5, <1>6, <1>7, <1>8 DEF Inv

(* Contents are never the constant that stands for their absence.          *)
LEMMA ContentsAreSomething == \A c \in Content!Contents : c # None
  BY NoneIsNoContents

(* A fresh chunk fills the buffer to the wanted length, in order.          *)
LEMMA FilledFacts ==
  ASSUME Inv, Filled
  PROVE  LET fresh == Chunk(Len(stream[attempt]), Wanted - Len(pending)) IN
         /\ fresh \in Seq(Bytes)
         /\ Wanted \in Nat /\ Len(pending \o fresh) = Wanted
         /\ Within(pending \o fresh, start, stream[attempt] \o fresh)
         /\ start + Len(pending \o fresh) = Len(stream[attempt] \o fresh)
         /\ InOrder(stream[attempt] \o fresh)
         /\ Len(stream[attempt]) = Total => stream[attempt] \o fresh = stream[attempt]
<1> DEFINE w == stream[attempt]
           c == Wanted - Len(pending)
           fresh == Chunk(Len(w), c)
<1>1. /\ w \in Seq(Bytes) /\ pending \in Seq(Bytes) /\ start \in Nat
      /\ edits \in 0..MaxEdits
      /\ Len(w) \in Nat /\ Len(pending) \in Nat /\ Total \in Nat /\ Target \in Nat
  BY UploadAssumption DEF Inv, UploadTypeOK
<1>2. start + Len(pending) = Len(w) /\ Within(pending, start, w) /\ InOrder(w)
  BY DEF Inv, Buffered, Streams, UploadTypeOK
<1>11. start < Total /\ Len(pending) <= Wanted
  BY DEF Filled
<1>3. /\ Wanted \in Nat /\ c \in Nat /\ Len(w) + c <= Total
  <2>1. Wanted \in Nat /\ start + Wanted <= Total
    BY <1>1, <1>11 DEF Wanted
  <2>2. c \in Nat /\ start + Len(pending) + c = start + Wanted
    BY <1>1, <1>11, <2>1
  <2> HIDE DEF c
  <2> QED
    BY <1>1, <1>2, <2>1, <2>2
<1>4. /\ fresh \in Seq(Bytes) /\ Len(fresh) = c
      /\ \A k \in 1..c : fresh[k] = <<Len(w) + k, edits>>
  BY <1>1, <1>3, ChunkFacts
<1> HIDE DEF w, fresh, c
<1>5. /\ Within(pending \o fresh, start, w \o fresh)
      /\ start + Len(pending \o fresh) = Len(w \o fresh)
  BY <1>1, <1>2, <1>4, AppendBoth
<1>6. /\ Len(w \o fresh) = Len(w) + c
      /\ \A i \in 1..Len(w) + c : (w \o fresh)[i] = IF i <= Len(w) THEN w[i] ELSE fresh[i - Len(w)]
  BY <1>1, <1>4, ConcatProperties
<1>7. ASSUME NEW i \in 1..Len(w \o fresh) PROVE (w \o fresh)[i][1] = i
  <2>1. i \in 1..Len(w) + c
    BY <1>6
  <2>2. CASE i <= Len(w)
    BY <1>1, <1>2, <1>6, <2>1, <2>2 DEF InOrder
  <2>3. CASE ~(i <= Len(w))
    <3>1. i - Len(w) \in 1..c
      BY <1>1, <1>3, <2>1, <2>3
    <3>2. (w \o fresh)[i] = <<Len(w) + (i - Len(w)), edits>>
      BY <1>4, <1>6, <2>1, <2>3, <3>1
    <3> QED
      BY <1>1, <3>2
  <2> QED
    BY <2>2, <2>3
<1>8. InOrder(w \o fresh)
  BY <1>1, <1>3, <1>6, <1>7 DEF InOrder
<1>9. Len(pending \o fresh) = Wanted
  <2>1. Len(pending \o fresh) = Len(pending) + Len(fresh)
    BY <1>1, <1>4, ConcatProperties
  <2>2. Len(pending) + c = Wanted
    BY <1>1, <1>3 DEF c
  <2> QED
    BY <1>4, <2>1, <2>2
<1>10. Len(w) = Total => w \o fresh = w
  <2> SUFFICES ASSUME Len(w) = Total PROVE w \o fresh = w
    OBVIOUS
  <2>1. Len(w \o fresh) = Len(w)
    BY <1>1, <1>3, <1>6
  <2>2. w \o fresh \in Seq(Bytes)
    BY <1>1, <1>4, ConcatProperties
  <2> QED
    BY <1>1, <1>6, <2>1, <2>2, SeqEqual
<1> QED
  BY <1>3, <1>4, <1>5, <1>8, <1>9, <1>10 DEF w, fresh, c

(* Steps that leave the bytes alone.                                       *)
LEMMA QuietStep ==
  ASSUME Inv,
         edits' \in 0..MaxEdits, verdict' \in Verdicts,
         UNCHANGED <<fingerprint, object, attempt, stream, buffer, request, sends,
                     sent, received>>,
         step' = step \/ step' \notin {"fingerprint", "put"},
         \/ answer' = answer
         \/ /\ answer' \in Answers \cup {None}
            /\ answer' # None /\ answer'.kind = "complete" => object # None
  PROVE  Inv'
<1> USE DEF Inv, buffer
<1>1. UploadTypeOK'
  BY DEF UploadTypeOK
<1>2. Streams' /\ Buffered'
  BY DEF Streams, Buffered
<1>3. Requests'
  BY DEF Requests, Read
<1>4. Fingerprinted'
  BY DEF Fingerprinted, Digested, Final
<1>5. Sessions'
  BY DEF Sessions
<1>6. OneObject'
  BY DEF OneObject
<1> QED
  BY <1>1, <1>2, <1>3, <1>4, <1>5, <1>6

LEMMA StatusFacts ==
  ASSUME NEW a, NEW held \in Nat
  PROVE  /\ Status(a, held) \in Answers
         /\ Status(a, held).kind = "complete" => held = Total
BY DEF Status, Answers

LEMMA PrepareInv == Inv /\ Prepare => Inv'
<1> SUFFICES ASSUME Inv, Prepare PROVE Inv'
  OBVIOUS
<1> DEFINE w == stream[attempt]
           fresh == Chunk(Len(w), Wanted - Len(pending))
<1>1. /\ fresh \in Seq(Bytes)
      /\ Wanted \in Nat /\ Len(pending \o fresh) = Wanted
      /\ Within(pending \o fresh, start, w \o fresh)
      /\ start + Len(pending \o fresh) = Len(w \o fresh)
      /\ InOrder(w \o fresh)
      /\ Len(w) = Total => w \o fresh = w
  BY FilledFacts DEF Prepare
<1>2. /\ Open("prepare") /\ start < Total
      /\ pending' = pending \o fresh
      /\ stream' = [stream EXCEPT ![attempt] = w \o fresh]
      /\ request' = [attempt |-> attempt, number |-> sends + 1, start |-> start,
                     bytes |-> pending \o fresh, final |-> start + Wanted = Total]
      /\ step' = IF start + Wanted = Total THEN "fingerprint" ELSE "put"
      /\ UNCHANGED <<edits, fingerprint, attempt, start, answer, verdict, sends,
                     sent, received, object>>
  BY DEF Prepare, Filled, provider
<1>3. /\ w \in Seq(Bytes) /\ pending \in Seq(Bytes) /\ start \in Nat
      /\ attempt \in Attempts /\ stream \in [Attempts -> Seq(Bytes)] /\ sends \in Nat
      /\ sent \subseteq Request /\ Total \in Nat
  BY UploadAssumption DEF Inv, UploadTypeOK
<1> HIDE DEF fresh
<1>4. pending \o fresh \in Seq(Bytes) /\ w \o fresh \in Seq(Bytes)
  BY <1>1, <1>3, ConcatProperties
<1>5. stream' \in [Attempts -> Seq(Bytes)] /\ stream'[attempt] = w \o fresh
      /\ \A a \in Attempts : a # attempt => stream'[a] = stream[a]
  BY <1>2, <1>3, <1>4
<1> DEFINE P == pending \o fresh
           W == w \o fresh
<1>6. request' \in Request
  BY <1>2, <1>3, <1>4 DEF Request
<1>7. UploadTypeOK'
  BY <1>2, <1>4, <1>5, <1>6 DEF Inv, UploadTypeOK
<1>8. Streams'
  BY <1>1, <1>2, <1>3, <1>5 DEF Inv, Streams, Attempts
<1>9. Buffered'
  BY <1>1, <1>2, <1>5 DEF Buffered
(* What was within the stream still is.                                    *)
<1>10. ASSUME NEW a \in Attempts, NEW s \in Seq(Bytes), NEW o \in Nat,
              Within(s, o, stream[a])
       PROVE  Within(s, o, stream'[a])
  BY <1>1, <1>3, <1>5, <1>10, AppendedStays
<1>11. \A r \in sent : Read(r)'
  <2> SUFFICES ASSUME NEW r \in sent PROVE Read(r)'
    OBVIOUS
  <2>1. r.attempt \in Attempts /\ r.bytes \in Seq(Bytes) /\ r.start \in Nat
    BY <1>3 DEF Request
  <2> QED
    BY <1>10, <2>1 DEF Inv, Requests, Read
<1>12. Read(request)' /\ request'.attempt = attempt
  BY <1>1, <1>2, <1>5 DEF Read
<1>13. step' = "fingerprint" => Len(stream'[attempt]) = Total
  BY <1>1, <1>2, <1>5
<1>14. Requests'
  BY <1>2, <1>6, <1>11, <1>12, <1>13 DEF Requests
<1>15. step' = "put" => Digested(request)'
  BY <1>1, <1>2 DEF Digested, Final
<1>16. \A r \in sent : Digested(r)'
  <2> SUFFICES ASSUME NEW r \in sent, Final(r) PROVE fingerprint = stream'[r.attempt]
    BY <1>2 DEF Digested, Final
  <2>1. r.attempt \in Attempts /\ r.bytes \in Seq(Bytes) /\ r.start \in Nat
    BY <1>3 DEF Request
  <2>2. fingerprint = stream[r.attempt]
    BY DEF Inv, Fingerprinted, Digested
  <2>3. CASE r.attempt = attempt
    <3>1. Len(w) >= Total /\ Len(w) <= Total /\ Len(w) \in Nat
      BY <1>3, <2>1, <2>3 DEF Inv, Requests, Read, Within, Final, Streams, InOrder
    <3>2. Len(w) = Total
      BY <1>3, <3>1
    <3> QED
      BY <1>1, <1>5, <2>2, <2>3, <3>2
  <2> QED
    BY <1>5, <2>1, <2>2, <2>3
<1>17. Fingerprinted'
  BY <1>2, <1>15, <1>16 DEF Fingerprinted
<1>18. Sessions'
  <2>1. \A a \in Attempts : received[a] \in Seq(Bytes) /\ Within(received[a], 0, stream[a])
    BY DEF Inv, UploadTypeOK, Sessions
  <2>2. \A a \in Attempts : Within(received[a], 0, stream'[a])
    BY <1>10, <2>1
  <2> QED
    BY <1>2, <2>2 DEF Inv, Sessions
<1>19. OneObject'
  BY <1>2 DEF Inv, OneObject
<1> QED
  BY <1>7, <1>8, <1>9, <1>14, <1>17, <1>18, <1>19 DEF Inv

LEMMA RecordFingerprintInv == Inv /\ RecordFingerprint => Inv'
<1> SUFFICES ASSUME Inv, RecordFingerprint PROVE Inv'
  OBVIOUS
<1> USE DEF client, buffer, provider
<1>1. /\ stream[attempt] \in Content!Contents
      /\ fingerprint' = stream[attempt]
      /\ request \in Request /\ Read(request) /\ request.attempt = attempt
  <2>1. stream[attempt] \in Seq(Bytes) /\ InOrder(stream[attempt])
        /\ Len(stream[attempt]) = Total
    BY DEF Inv, UploadTypeOK, Streams, Requests, RecordFingerprint, Open
  <2> QED
    BY <2>1, WholeIsContents DEF RecordFingerprint, Open, Inv, Requests
<1>2. /\ step' = "put"
      /\ UNCHANGED <<edits, attempt, stream, start, pending, request, answer, verdict,
                     sends, sent, received, object>>
  BY DEF RecordFingerprint
<1>3. UploadTypeOK'
  BY <1>1, <1>2 DEF Inv, UploadTypeOK
<1>4. Streams' /\ Buffered'
  BY <1>2 DEF Inv, Streams, Buffered
<1>5. Requests'
  BY <1>1, <1>2 DEF Inv, Requests, Read
<1>6. ASSUME NEW r \in sent, Final(r) PROVE fingerprint' = stream[r.attempt]
  <2>1. /\ r.attempt \in Attempts /\ r.bytes \in Seq(Bytes) /\ r.start \in Nat
        /\ Read(r) /\ fingerprint = stream[r.attempt]
    BY <1>6 DEF Inv, UploadTypeOK, Requests, Request, Fingerprinted, Digested
  <2>2. stream[r.attempt] \in Seq(Bytes) /\ InOrder(stream[r.attempt])
        /\ Len(stream[r.attempt]) \in Nat
    BY <2>1 DEF Inv, UploadTypeOK, Streams
  <2>3. Len(stream[r.attempt]) = Total
    BY <1>6, <2>1, <2>2, UploadAssumption DEF Read, Final, Within, InOrder
  <2>4. fingerprint # None
    BY <2>1, <2>2, <2>3, WholeIsContents, ContentsAreSomething
  <2> QED
    BY <1>1, <2>1, <2>4 DEF RecordFingerprint
<1>7. Fingerprinted'
  BY <1>1, <1>2, <1>6 DEF Fingerprinted, Digested, Final
<1>8. Sessions'
  BY <1>2 DEF Inv, Sessions
<1>9. OneObject'
  BY <1>1, <1>2, ContentsAreSomething DEF Inv, OneObject, RecordFingerprint, UploadTypeOK
<1> QED
  BY <1>3, <1>4, <1>5, <1>7, <1>8, <1>9 DEF Inv

LEMMA PutInv == Inv /\ Put => Inv'
<1> SUFFICES ASSUME Inv, Put PROVE Inv'
  OBVIOUS
<1>1. request \in Request /\ Read(request) /\ Digested(request)
  BY DEF Inv, Requests, Fingerprinted, Put, Open
<1>2. /\ sent' = sent \cup {request} /\ sends' = sends + 1
      /\ answer' = None /\ step' = "wait"
      /\ UNCHANGED <<edits, fingerprint, attempt, stream, start, pending, request,
                     verdict, received, object>>
  BY DEF Put, buffer, provider
<1>3. UploadTypeOK'
  BY <1>1, <1>2 DEF Inv, UploadTypeOK
<1>4. Streams' /\ Buffered'
  BY <1>2 DEF Inv, Streams, Buffered
<1>5. Requests'
  BY <1>1, <1>2 DEF Inv, Requests, Read
<1>6. Fingerprinted'
  BY <1>1, <1>2 DEF Inv, Fingerprinted, Digested, Final
<1>7. Sessions' /\ OneObject'
  BY <1>2 DEF Inv, Sessions, OneObject
<1> QED
  BY <1>3, <1>4, <1>5, <1>6, <1>7 DEF Inv

LEMMA ProbeInv == Inv /\ Probe => Inv'
<1> SUFFICES ASSUME Inv, Probe PROVE Inv'
  OBVIOUS
<1>1. /\ attempt \in Attempts /\ Len(received[attempt]) \in Nat
      /\ Len(received[attempt]) = Total => object # None
  BY DEF Inv, UploadTypeOK, Sessions
<1>2. /\ answer' \in Answers
      /\ answer'.kind = "complete" => object # None
  BY <1>1, StatusFacts DEF Probe
<1>3. /\ edits' \in 0..MaxEdits /\ verdict' \in Verdicts
      /\ UNCHANGED <<fingerprint, object, attempt, stream, buffer, request, sends,
                     sent, received>>
      /\ step' = "wait"
  BY DEF Probe, provider, Inv, UploadTypeOK
<1> QED
  BY <1>2, <1>3, QuietStep

LEMMA AcknowledgeInv == Inv /\ Acknowledge => Inv'
<1> SUFFICES ASSUME Inv, Acknowledge PROVE Inv'
  OBVIOUS
<1>1. /\ stream[attempt] \in Seq(Bytes) /\ pending \in Seq(Bytes)
      /\ start \in Nat /\ answer.next \in Nat
      /\ start <= answer.next /\ answer.next <= start + Len(pending)
      /\ Within(pending, start, stream[attempt])
      /\ start + Len(pending) = Len(stream[attempt])
  BY DEF Inv, UploadTypeOK, Answers, Buffered, Acknowledge, Told
<1>2. /\ pending' = SubSeq(pending, answer.next - start + 1, Len(pending))
      /\ start' = answer.next /\ step' = "prepare" /\ answer' = None
      /\ UNCHANGED <<edits, fingerprint, attempt, stream, request, verdict, sends,
                     sent, received, object>>
  BY DEF Acknowledge, provider
<1>3. pending' \in Seq(Bytes) /\ Within(pending', start', stream[attempt])
      /\ start' + Len(pending') = Len(stream[attempt])
  BY <1>1, <1>2, DroppedPrefix
<1>4. UploadTypeOK'
  BY <1>1, <1>2, <1>3 DEF Inv, UploadTypeOK
<1>5. Streams' /\ Buffered'
  BY <1>2, <1>3 DEF Inv, Streams, Buffered
<1>6. Requests' /\ Fingerprinted'
  BY <1>2 DEF Inv, Requests, Read, Fingerprinted, Digested, Final
<1>7. Sessions' /\ OneObject'
  BY <1>2 DEF Inv, Sessions, OneObject
<1> QED
  BY <1>4, <1>5, <1>6, <1>7 DEF Inv

LEMMA HashCurrentSourceInv == Inv /\ HashCurrentSource => Inv'
<1> SUFFICES ASSUME Inv, HashCurrentSource PROVE Inv'
  OBVIOUS
<1> USE DEF client, buffer, provider
<1>1. /\ fingerprint = None /\ fingerprint' = Chunk(0, Total)
      /\ UNCHANGED <<edits, attempt, stream, start, pending, request, step, answer,
                     verdict, sends, sent, received, object>>
  BY DEF HashCurrentSource
<1>2. fingerprint' \in Content!Contents
  <2>1. edits \in 0..MaxEdits /\ 0 \in Nat /\ Total \in Nat /\ 0 + Total <= Total
    BY UploadAssumption DEF Inv, UploadTypeOK
  <2>2. /\ Chunk(0, Total) \in Seq(Bytes) /\ Len(Chunk(0, Total)) = Total
        /\ \A k \in 1..Total : Chunk(0, Total)[k] = <<0 + k, edits>>
    BY <2>1, ChunkFacts
  <2>3. InOrder(Chunk(0, Total))
    BY <2>1, <2>2 DEF InOrder
  <2> QED
    BY <1>1, <2>2, <2>3, WholeIsContents
(* Nothing can have been digested before.                                  *)
<1>3. ASSUME NEW r, r \in sent \/ (step = "put" /\ r = request) PROVE ~Final(r)
  <2> SUFFICES ASSUME Final(r) PROVE FALSE
    OBVIOUS
  <2>1. r \in Request /\ Read(r) /\ Digested(r)
    BY <1>3 DEF Inv, UploadTypeOK, Requests, Fingerprinted
  <2>2. r.attempt \in Attempts /\ r.bytes \in Seq(Bytes) /\ r.start \in Nat
    BY <2>1 DEF Request
  <2>3. stream[r.attempt] \in Seq(Bytes) /\ InOrder(stream[r.attempt])
        /\ Len(stream[r.attempt]) \in Nat
    BY <2>2 DEF Inv, UploadTypeOK, Streams
  <2>4. Len(stream[r.attempt]) = Total
    BY <2>1, <2>2, <2>3, UploadAssumption DEF Read, Final, Within, InOrder
  <2> QED
    BY <1>1, <2>1, <2>3, <2>4, WholeIsContents, ContentsAreSomething DEF Digested
<1>4. UploadTypeOK'
  BY <1>1, <1>2 DEF Inv, UploadTypeOK
<1>5. Streams' /\ Buffered' /\ Requests'
  BY <1>1 DEF Inv, Streams, Buffered, Requests, Read
<1>6. Fingerprinted'
  <2>1. \A r \in sent : ~Final(r)
    BY <1>3
  <2>2. step = "put" => ~Final(request)
    BY <1>3
  <2> QED
    BY <1>1, <2>1, <2>2 DEF Fingerprinted, Digested, Final
<1>7. Sessions'
  BY <1>1 DEF Inv, Sessions
<1>8. OneObject'
  BY <1>1 DEF Inv, OneObject
<1> QED
  BY <1>4, <1>5, <1>6, <1>7, <1>8 DEF Inv

LEMMA RestartSubmissionInv == Inv /\ RestartSubmission => Inv'
<1> SUFFICES ASSUME Inv, RestartSubmission PROVE Inv'
  OBVIOUS
<1>1. /\ attempt' = attempt + 1 /\ attempt < MaxAttempts /\ verdict' = "open"
      /\ start' = 0 /\ pending' = <<>> /\ request' = None
      /\ step' = "prepare" /\ answer' = None
      /\ UNCHANGED <<edits, fingerprint, stream, sends, sent, received, object>>
  BY DEF RestartSubmission, provider
<1>2. attempt \in Attempts /\ attempt' \in Attempts /\ attempt' > attempt
  BY <1>1, UploadAssumption DEF Inv, UploadTypeOK, Attempts
<1>3. stream[attempt'] = <<>> /\ Len(<<>>) = 0
  BY <1>2 DEF Inv, Streams
<1>4. UploadTypeOK'
  BY <1>1, <1>2 DEF Inv, UploadTypeOK, Verdicts
<1>5. Streams'
  BY <1>1, <1>2 DEF Inv, Streams, Attempts
<1>6. Buffered'
  BY <1>1, <1>3 DEF Buffered, Within
<1>7. Requests' /\ Fingerprinted'
  BY <1>1 DEF Inv, Requests, Read, Fingerprinted, Digested, Final
<1>8. Sessions' /\ OneObject'
  BY <1>1 DEF Inv, Sessions, OneObject
<1> QED
  BY <1>4, <1>5, <1>6, <1>7, <1>8 DEF Inv

(* A request that arrives: the session still holds a prefix, and if it is  *)
(* the whole file then it is the digested one.                             *)
LEMMA LandFacts ==
  ASSUME Inv, NEW r \in sent, NEW upto \in 0..Total, Land(r, upto)
  PROVE  /\ r.attempt \in Attempts
         /\ received' \in [Attempts -> Seq(Bytes)]
         /\ \A a \in Attempts : a # r.attempt => received'[a] = received[a]
         /\ Within(received'[r.attempt], 0, stream[r.attempt])
         /\ Len(received'[r.attempt]) = upto
         /\ upto = Total => /\ object = None
                            /\ object' = fingerprint
                            /\ fingerprint \in Content!Contents
         /\ upto # Total => object' = object
<1> DEFINE a == r.attempt
           h == received[a]
           w == stream[a]
           g == Extended(h, r.bytes, r.start, upto)
<1>1. /\ r \in Request /\ a \in Attempts /\ r.bytes \in Seq(Bytes) /\ r.start \in Nat
      /\ h \in Seq(Bytes) /\ w \in Seq(Bytes) /\ upto \in Nat /\ InOrder(w)
      /\ Len(h) \in Nat /\ Len(r.bytes) \in Nat /\ Len(w) \in Nat /\ Total \in Nat
      /\ received \in [Attempts -> Seq(Bytes)]
  BY UploadAssumption DEF Inv, UploadTypeOK, Request, Streams
<1>2. Within(h, 0, w) /\ Within(r.bytes, r.start, w) /\ Digested(r)
  BY <1>1 DEF Inv, Sessions, Requests, Read, Fingerprinted
<1>3. /\ r.start <= Len(h) /\ Len(h) <= upto /\ upto <= r.start + Len(r.bytes)
      /\ received' = [received EXCEPT ![a] = g]
      /\ upto = Total => object = None
      /\ object' = IF upto = Total THEN received'[a] ELSE object
  BY <1>1 DEF Land, Added, Extended
<1>4. g \in Seq(Bytes) /\ Within(g, 0, w) /\ Len(g) = upto
  BY <1>1, <1>2, <1>3, AddedPrefix
<1> HIDE DEF g
<1>5. received'[a] = g /\ received' \in [Attempts -> Seq(Bytes)]
      /\ \A b \in Attempts : b # a => received'[b] = received[b]
  BY <1>1, <1>3, <1>4
<1>6. ASSUME upto = Total
      PROVE  object' = fingerprint /\ fingerprint \in Content!Contents
  <2>1. Len(w) = Total /\ Final(r)
    <3>1. r.start + Len(r.bytes) <= Len(w) /\ Len(w) <= Total
      BY <1>1, <1>2 DEF Within, InOrder
    <3>2. /\ Len(w) \in Nat /\ Total \in Nat /\ r.start + Len(r.bytes) \in Nat
          /\ Total <= r.start + Len(r.bytes)
      BY <1>1, <1>3, <1>6
    <3>3. Len(w) = Total /\ r.start + Len(r.bytes) = Total
      BY <3>1, <3>2
    <3> QED
      BY <3>3 DEF Final
  <2>2. fingerprint = w
    BY <1>2, <2>1 DEF Digested
  <2>3. g = w
    <3>1. \A k \in 1..Len(g) : g[k] = w[k]
      BY <1>1, <1>4 DEF Within
    <3> QED
      BY <1>1, <1>4, <1>6, <2>1, <3>1, SeqEqual
  <2> QED
    BY <1>1, <1>3, <1>5, <1>6, <2>1, <2>2, <2>3, WholeIsContents
<1> QED
  BY <1>1, <1>3, <1>4, <1>5, <1>6

LEMMA LandInv ==
  ASSUME Inv, NEW r \in sent, NEW upto \in 0..Total, Land(r, upto)
  PROVE  Inv'
<1> USE DEF buffer
<1>1. /\ r.attempt \in Attempts
      /\ received' \in [Attempts -> Seq(Bytes)]
      /\ \A a \in Attempts : a # r.attempt => received'[a] = received[a]
      /\ Within(received'[r.attempt], 0, stream[r.attempt])
      /\ Len(received'[r.attempt]) = upto
      /\ upto = Total => /\ object = None
                         /\ object' = fingerprint
                         /\ fingerprint \in Content!Contents
      /\ upto # Total => object' = object
  BY LandFacts
<1>2. /\ sent' = sent \ {r}
      /\ answer' = answer \/ answer' = Status(r.attempt, upto)
      /\ UNCHANGED <<edits, fingerprint, attempt, stream, start, pending, request,
                     step, verdict, sends>>
  BY DEF Land
<1>3. object # None => object' # None
  BY <1>1, ContentsAreSomething
<1>4. upto = Total => object' # None
  BY <1>1, ContentsAreSomething
<1>5. /\ Status(r.attempt, upto) \in Answers
      /\ Status(r.attempt, upto).kind = "complete" => object' # None
  <2>1. upto \in Nat
    BY UploadAssumption
  <2>2. /\ Status(r.attempt, upto) \in Answers
        /\ Status(r.attempt, upto).kind = "complete" => upto = Total
    BY <2>1, StatusFacts
  <2> QED
    BY <1>4, <2>2
<1>6. UploadTypeOK'
  BY <1>1, <1>2, <1>5 DEF Inv, UploadTypeOK
<1>7. Streams' /\ Buffered'
  BY <1>2 DEF Inv, Streams, Buffered
<1>8. Requests' /\ Fingerprinted'
  BY <1>2 DEF Inv, Requests, Read, Fingerprinted, Digested, Final
<1>9. \A a \in Attempts : Within(received'[a], 0, stream[a])
  BY <1>1 DEF Inv, Sessions
<1>10. \A a \in Attempts : Len(received'[a]) = Total => object' # None
  BY <1>1, <1>3, <1>4 DEF Inv, Sessions
<1>11. answer' # None /\ answer'.kind = "complete" => object' # None
  BY <1>2, <1>3, <1>5 DEF Inv, Sessions
<1>12. Sessions'
  BY <1>2, <1>9, <1>10, <1>11 DEF Sessions
<1>13. OneObject'
  BY <1>1, <1>2 DEF Inv, OneObject
<1> QED
  BY <1>6, <1>7, <1>8, <1>12, <1>13 DEF Inv

LEMMA OtherStepsInv ==
  ASSUME Inv,
         \/ Edit \/ LoseAnswer \/ Conclude \/ Stop \/ InspectId
         \/ (\E a \in Attempts : Expire(a)) \/ UNCHANGED vars
  PROVE  Inv'
<1> USE DEF client, provider
<1>1. edits \in 0..MaxEdits /\ verdict \in Verdicts /\ sends \in Nat
  BY DEF Inv, UploadTypeOK
<1>2. CASE Edit
  BY <1>1, <1>2, QuietStep, UploadAssumption DEF Edit
<1>3. CASE LoseAnswer
  BY <1>1, <1>3, QuietStep DEF LoseAnswer
<1>4. CASE Conclude
  BY <1>1, <1>4, QuietStep DEF Conclude, Verdicts
<1>5. CASE Stop
  BY <1>1, <1>5, QuietStep DEF Stop, Verdicts
<1>6. CASE InspectId
  BY <1>1, <1>6, QuietStep DEF InspectId, Verdicts
<1>7. CASE \E a \in Attempts : Expire(a)
  BY <1>1, <1>7, QuietStep DEF Expire
<1>8. CASE UNCHANGED vars
  BY <1>1, <1>8, QuietStep DEF vars
<1> QED
  BY <1>2, <1>3, <1>4, <1>5, <1>6, <1>7, <1>8

LEMMA NextInv == Inv /\ [Next]_vars => Inv'
<1> SUFFICES ASSUME Inv, [Next]_vars PROVE Inv'
  OBVIOUS
<1>1. CASE \E r \in sent, upto \in 0..Total : Land(r, upto)
  BY <1>1, LandInv
<1>2. CASE \/ Edit \/ LoseAnswer \/ Conclude \/ Stop \/ InspectId
           \/ (\E a \in Attempts : Expire(a)) \/ UNCHANGED vars
  BY <1>2, OtherStepsInv
<1> QED
  BY <1>1, <1>2, PrepareInv, RecordFingerprintInv, PutInv, ProbeInv, AcknowledgeInv,
     HashCurrentSourceInv, RestartSubmissionInv DEF Next

LEMMA AlwaysInv == Spec => []Inv
BY InitInv, NextInv, PTL DEF Spec

-----------------------------------------------------------------------------
(* Each step of the upload is one of the promise or leaves it alone.       *)

LEMMA QuietContent ==
  UNCHANGED <<fingerprint, object, verdict>> => UNCHANGED Content!contentVars
BY DEF Content!contentVars

LEMMA ConcludeMaps == Inv /\ Conclude => [Content!Next]_Content!contentVars
<1> SUFFICES ASSUME Inv, Conclude PROVE Content!Next
  OBVIOUS
<1>1. object # None /\ object = fingerprint
  BY DEF Inv, Sessions, OneObject, Conclude, Told
<1>2. verdict = "open" /\ verdict' \in {"uploaded", "failed"}
  BY <1>1 DEF Conclude, Told, Open
<1>3. UNCHANGED <<fingerprint, object>>
  BY DEF Conclude, provider
<1> QED
  BY <1>1, <1>2, <1>3 DEF Content!Next, Content!Report, Content!Fail

LEMMA LandMaps ==
  ASSUME Inv, NEW r \in sent, NEW upto \in 0..Total, Land(r, upto)
  PROVE  [Content!Next]_Content!contentVars
<1>1. /\ upto = Total => /\ object = None
                         /\ object' = fingerprint
                         /\ fingerprint \in Content!Contents
      /\ upto # Total => object' = object
  BY LandFacts
<1>2. UNCHANGED <<fingerprint, verdict>>
  BY DEF Land
<1>3. CASE upto = Total
  BY <1>1, <1>2, <1>3, ContentsAreSomething DEF Content!Next, Content!Create
<1>4. CASE upto # Total
  BY <1>1, <1>2, <1>4, QuietContent
<1> QED
  BY <1>3, <1>4

LEMMA DigestMaps ==
  Inv /\ (RecordFingerprint \/ HashCurrentSource) => [Content!Next]_Content!contentVars
<1> SUFFICES ASSUME Inv, RecordFingerprint \/ HashCurrentSource
             PROVE  [Content!Next]_Content!contentVars
  OBVIOUS
<1>1. fingerprint' \in Content!Contents
  <2>1. Inv'
    BY RecordFingerprintInv, HashCurrentSourceInv
  <2>2. fingerprint' # None
    <3>1. CASE RecordFingerprint
      <4>1. stream[attempt] \in Seq(Bytes) /\ InOrder(stream[attempt])
            /\ Len(stream[attempt]) = Total
        BY <3>1 DEF Inv, UploadTypeOK, Streams, Requests, RecordFingerprint, Open
      <4> QED
        BY <3>1, <4>1, WholeIsContents, ContentsAreSomething DEF RecordFingerprint
    <3>2. CASE HashCurrentSource
      <4>1. edits \in 0..MaxEdits /\ Total \in Nat /\ 0 \in Nat /\ 0 + Total <= Total
        BY UploadAssumption DEF Inv, UploadTypeOK
      <4>2. /\ Chunk(0, Total) \in Seq(Bytes) /\ Len(Chunk(0, Total)) = Total
            /\ \A k \in 1..Total : Chunk(0, Total)[k] = <<0 + k, edits>>
        BY <4>1, ChunkFacts
      <4>3. InOrder(Chunk(0, Total))
        BY <4>1, <4>2 DEF InOrder
      <4> QED
        BY <3>2, <4>2, <4>3, WholeIsContents, ContentsAreSomething DEF HashCurrentSource
    <3> QED
      BY <3>1, <3>2
  <2> QED
    BY <2>1, <2>2 DEF Inv, UploadTypeOK
<1>2. UNCHANGED <<object, verdict>>
  BY DEF RecordFingerprint, HashCurrentSource, client, provider
<1>3. fingerprint = None \/ fingerprint' = fingerprint
  BY DEF RecordFingerprint, HashCurrentSource
<1> QED
  BY <1>1, <1>2, <1>3, QuietContent DEF Content!Next, Content!Decide

LEMMA StepMaps == Inv /\ [Next]_vars => [Content!Next]_Content!contentVars
<1> SUFFICES ASSUME Inv, [Next]_vars PROVE [Content!Next]_Content!contentVars
  OBVIOUS
<1> USE DEF client, provider
<1>1. CASE \/ Edit \/ Prepare \/ Put \/ LoseAnswer \/ Probe \/ Acknowledge
           \/ (\E a \in Attempts : Expire(a)) \/ UNCHANGED vars
  BY <1>1, QuietContent DEF Edit, Prepare, Filled, Put, LoseAnswer, Probe, Acknowledge,
     Expire, vars
<1>2. CASE RecordFingerprint \/ HashCurrentSource
  BY <1>2, DigestMaps
<1>3. CASE Conclude
  BY <1>3, ConcludeMaps
<1>4. CASE Stop
  BY <1>4 DEF Stop, Content!Next, Content!Fail
<1>5. CASE InspectId
  <2>1. object # None /\ object = fingerprint
    BY <1>5 DEF Inv, OneObject, InspectId
  <2> QED
    BY <1>5, <2>1 DEF InspectId, Content!Next, Content!Report
<1>6. CASE RestartSubmission
  BY <1>6 DEF RestartSubmission, Content!Next, Content!Retry
<1>7. CASE \E r \in sent, upto \in 0..Total : Land(r, upto)
  BY <1>7, LandMaps
<1> QED
  BY <1>1, <1>2, <1>3, <1>4, <1>5, <1>6, <1>7 DEF Next

(* The buffer, the submission loop, the recovery and a resumable session   *)
(* that accepts what it likes implement UploadContent.                     *)
THEOREM UploadKeepsContent == Spec => KeepsContent
<1>1. Init => Content!Init
  BY DEF Init, Content!Init
<1>2. Inv /\ [Next]_vars => [Content!Next]_Content!contentVars
  BY StepMaps
<1> QED
  BY <1>1, <1>2, AlwaysInv, PTL DEF Spec, KeepsContent, Content!Spec

(* What a session holds is always a prefix of what its attempt read, and   *)
(* what is buffered is exactly what it read beyond the confirmed offset    *)
(* (validate_buffer_invariant), so that a request never repeats, skips or  *)
(* moves a byte of the file.                                               *)
THEOREM OffsetsAreExact == Spec => [](Buffered /\ Sessions)
BY AlwaysInv, PTL DEF Inv
=============================================================================
