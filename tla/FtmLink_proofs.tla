---------------------------- MODULE FtmLink_proofs ----------------------------
(* Proofs about FtmLink, for any reports, any frames, any distance of paired *)
(* times and any capacity of the channel.                                    *)
EXTENDS FtmLink, SequenceTheorems, FiniteSetTheorems, NaturalsInduction,
        WellFoundedInduction, TLAPS

-----------------------------------------------------------------------------
(* Sequences, least and greatest elements. *)
LEMMA HeadAndTail ==
  ASSUME NEW S, NEW s \in Seq(S), s # <<>>
  PROVE  /\ Len(s) \in Nat \ {0} /\ Head(s) \in S /\ Head(s) = s[1]
         /\ Tail(s) \in Seq(S) /\ Len(Tail(s)) = Len(s) - 1
         /\ \A i \in 1 .. Len(s) - 1 : Tail(s)[i] = s[i + 1]
BY HeadTailProperties, EmptySeq

LEMMA Appended ==
  ASSUME NEW S, NEW s \in Seq(S), NEW e \in S
  PROVE  /\ Append(s, e) \in Seq(S) /\ Len(Append(s, e)) = Len(s) + 1
         /\ \A i \in 1 .. Len(s) : Append(s, e)[i] = s[i]
         /\ Append(s, e)[Len(s) + 1] = e
BY AppendProperties

LEMMA Mapped ==
  ASSUME NEW S, NEW n \in Nat, NEW f \in [1 .. n -> S]
  PROVE  f \in Seq(S) /\ Len(f) = n
OBVIOUS

LEMMA OneElement ==
  ASSUME NEW S, NEW e \in S
  PROVE  <<e>> \in Seq(S) /\ Len(<<e>>) = 1 /\ <<e>>[1] = e
OBVIOUS

LEMMA Extensional ==
  ASSUME NEW S, NEW s \in Seq(S), NEW t \in Seq(S), Len(s) = Len(t),
         \A i \in 1 .. Len(s) : s[i] = t[i]
  PROVE  s = t
<1>1. s \in [1 .. Len(s) -> S] /\ t \in [1 .. Len(s) -> S]
  BY LenProperties
<1> QED
  BY <1>1

LEMMA Joined ==
  ASSUME NEW S, NEW s \in Seq(S), NEW t \in Seq(S)
  PROVE  /\ s \o t \in Seq(S) /\ Len(s \o t) = Len(s) + Len(t)
         /\ \A i \in 1 .. Len(s) : (s \o t)[i] = s[i]
         /\ \A i \in 1 .. Len(t) : (s \o t)[Len(s) + i] = t[i]
<1>1. Len(s) \in Nat /\ Len(t) \in Nat
  BY LenProperties
<1>2. /\ s \o t \in Seq(S) /\ Len(s \o t) = Len(s) + Len(t)
      /\ \A i \in 1 .. Len(s) + Len(t) :
           (s \o t)[i] = IF i <= Len(s) THEN s[i] ELSE t[i - Len(s)]
  BY ConcatProperties
<1>3. \A i \in 1 .. Len(t) : Len(s) + i \in 1 .. Len(s) + Len(t) /\ ~(Len(s) + i <= Len(s))
                            /\ Len(s) + i - Len(s) = i
  BY <1>1
<1> QED
  BY <1>1, <1>2, <1>3

(* A set of integers bounded from below has a least one, and one bounded     *)
(* from above a greatest.                                                    *)
LEMMA LeastOfBounded ==
  ASSUME NEW S \in SUBSET Int, NEW e \in S, NEW low \in Int, \A x \in S : low <= x
  PROVE  Min(S) \in S /\ \A x \in S : Min(S) <= x
<1> DEFINE T == {n \in Nat : n + low \in S}
<1>1. e - low \in T
  <2>1. e - low \in Nat /\ (e - low) + low = e
    OBVIOUS
  <2> QED
    BY <2>1
<1>2. PICK m \in T : \A n \in T : ~(<<n, m>> \in OpToRel(<, Nat))
  <2>1. T \subseteq Nat /\ T # {}
    BY <1>1
  <2> HIDE DEF T
  <2> QED
    BY <2>1, NatLessThanWellFounded, WFMin
<1>3. \A n \in T : m <= n
  <2>1. SUFFICES ASSUME NEW n \in T, n < m PROVE FALSE
    OBVIOUS
  <2>2. <<n, m>> \in OpToRel(<, Nat)
    BY <2>1 DEF OpToRel
  <2> QED
    BY <1>2, <2>2
<1>4. m + low \in S /\ \A x \in S : m + low <= x
  <2>1. SUFFICES ASSUME NEW x \in S PROVE m + low <= x
    OBVIOUS
  <2>2. x - low \in Nat /\ (x - low) + low = x
    OBVIOUS
  <2>3. m <= x - low
    BY <1>3, <2>2
  <2> QED
    BY <2>2, <2>3
<1> QED
  BY <1>4 DEF Min

LEMMA GreatestOfBounded ==
  ASSUME NEW S \in SUBSET Int, NEW e \in S, NEW high \in Int, \A x \in S : x <= high
  PROVE  Max(S) \in S /\ \A x \in S : x <= Max(S)
<1> DEFINE T == {n \in Nat : high - n \in S}
<1>1. high - e \in T
  <2>1. high - e \in Nat /\ high - (high - e) = e
    OBVIOUS
  <2> QED
    BY <2>1
<1>2. PICK m \in T : \A n \in T : ~(<<n, m>> \in OpToRel(<, Nat))
  <2>1. T \subseteq Nat /\ T # {}
    BY <1>1
  <2> HIDE DEF T
  <2> QED
    BY <2>1, NatLessThanWellFounded, WFMin
<1>3. \A n \in T : m <= n
  <2>1. SUFFICES ASSUME NEW n \in T, n < m PROVE FALSE
    OBVIOUS
  <2>2. <<n, m>> \in OpToRel(<, Nat)
    BY <2>1 DEF OpToRel
  <2> QED
    BY <1>2, <2>2
<1>4. high - m \in S /\ \A x \in S : x <= high - m
  <2>1. SUFFICES ASSUME NEW x \in S PROVE x <= high - m
    OBVIOUS
  <2>2. high - x \in Nat /\ high - (high - x) = x
    OBVIOUS
  <2>3. m <= high - x
    BY <1>3, <2>2
  <2> QED
    BY <2>2, <2>3
<1> QED
  BY <1>4 DEF Max

LEMMA LeastIs ==
  ASSUME NEW S \in SUBSET Int, NEW e \in S, \A x \in S : e <= x
  PROVE  Min(S) = e
<1>1. Min(S) \in S /\ \A x \in S : Min(S) <= x
  BY LeastOfBounded
<1>2. Min(S) \in Int /\ Min(S) <= e /\ e <= Min(S)
  BY <1>1
<1> QED
  BY <1>2

-----------------------------------------------------------------------------
(* What the board prints for a report. *)
LEMMA Reported ==
  ASSUME NEW r \in Reports
  PROVE  /\ r.entries \in Seq(Int) /\ r.frames \in Seq(Frames) /\ r.ranged \in BOOLEAN
         /\ Len(r.entries) \in Nat /\ DOMAIN r.entries = 1 .. Len(r.entries)
         /\ Len(r.frames) \in Nat /\ DOMAIN r.frames = 1 .. Len(r.frames)
         /\ \A i \in DOMAIN r.entries : r.entries[i] \in Int
         /\ \A j \in DOMAIN r.frames :
              /\ r.frames[j].ts \in Int /\ r.frames[j].payload \in Nat
              /\ r.frames[j].ht40 \in BOOLEAN
              /\ r.frames[j].ht40 => r.frames[j].payload # Empty
<1>1. r.entries \in Seq(Int) /\ r.frames \in Seq(Frames) /\ r.ranged \in BOOLEAN
  BY ReportsAreTimed
<1>2. \A i \in 1 .. Len(r.entries) : r.entries[i] \in Int
  BY <1>1, ElementOfSeq
<1>3. \A j \in 1 .. Len(r.frames) : r.frames[j] \in Frames
  BY <1>1, ElementOfSeq
<1>4. /\ Len(r.entries) \in Nat /\ DOMAIN r.entries = 1 .. Len(r.entries)
      /\ Len(r.frames) \in Nat /\ DOMAIN r.frames = 1 .. Len(r.frames)
  BY <1>1, LenProperties
<1> QED
  BY <1>1, <1>2, <1>3, <1>4 DEF Frames

LEMMA TokenTyped ==
  ASSUME NEW kind \in {"FTM", "CSI", "entry", "frame", "log", "MAC", "RANGE", "stray", "end"},
         NEW id \in Nat, NEW t \in Int, NEW payload \in Nat
  PROVE  /\ Token(kind, id, t, payload) \in Tokens
         /\ Token(kind, id, t, payload).kind = kind /\ Token(kind, id, t, payload).id = id
         /\ Token(kind, id, t, payload).t = t /\ Token(kind, id, t, payload).payload = payload
BY DEF Token, Tokens

(* The places of the tokens of a record of m entries and q frames. *)
RecordIs(rec, id, r, m, q) ==
  /\ m \in Nat /\ q \in Nat
  /\ rec \in Seq(Tokens) /\ Len(rec) = m + q + 3
  /\ rec[1] = Token("FTM", id, 0, Empty)
  /\ \A i \in 1 .. m : rec[i + 1] = Token("entry", 0, r.entries[i], Empty)
  /\ rec[m + 2] = (IF q = 0 THEN Plain("log") ELSE Plain("CSI"))
  /\ \A j \in 1 .. q :
       rec[m + 2 + j] = Token("frame", 0, r.frames[j].ts, r.frames[j].payload)
  /\ rec[m + q + 3] = Plain("end")

KindsAre(rec, m, q) ==
  /\ m \in Nat /\ q \in Nat
  /\ rec \in Seq(Tokens) /\ Len(rec) = m + q + 3
  /\ rec[1].kind = "FTM"
  /\ \A i \in 1 .. m : rec[i + 1].kind = "entry"
  /\ rec[m + 2].kind = (IF q = 0 THEN "log" ELSE "CSI")
  /\ \A j \in 1 .. q : rec[m + 2 + j].kind = "frame"
  /\ rec[m + q + 3].kind = "end"

LEMMA DumpShape ==
  ASSUME NEW r \in Reports
  PROVE  /\ DumpTokens(r.frames) \in Seq(Tokens)
         /\ Len(DumpTokens(r.frames)) = Len(r.frames) + 1
         /\ DumpTokens(r.frames)[1] = (IF Len(r.frames) = 0 THEN Plain("log") ELSE Plain("CSI"))
         /\ \A j \in 1 .. Len(r.frames) : DumpTokens(r.frames)[j + 1] =
              Token("frame", 0, r.frames[j].ts, r.frames[j].payload)
<1> DEFINE q == Len(r.frames)
           A == <<Plain("CSI")>>
           B == [j \in DOMAIN r.frames |-> Token("frame", 0, r.frames[j].ts, r.frames[j].payload)]
<1>1. q \in Nat /\ DOMAIN r.frames = 1 .. q /\ (q = 0 <=> r.frames = <<>>)
  BY Reported, EmptySeq
<1>2. Plain("log") \in Tokens /\ Plain("CSI") \in Tokens
  BY DEF Plain, Token, Tokens, Empty
<1>3. CASE r.frames = <<>>
  <2>1. DumpTokens(r.frames) = <<Plain("log")>>
    BY <1>3 DEF DumpTokens
  <2>2. /\ <<Plain("log")>> \in Seq(Tokens) /\ Len(<<Plain("log")>>) = 1
        /\ <<Plain("log")>>[1] = Plain("log")
    BY <1>2, OneElement
  <2>3. q = 0
    BY <1>1, <1>3
  <2> QED
    BY <2>1, <2>2, <2>3
<1>4. CASE r.frames # <<>>
  <2>1. B \in [1 .. q -> Tokens]
    <3>1. \A j \in 1 .. q : r.frames[j].ts \in Int /\ r.frames[j].payload \in Nat
      BY <1>1, Reported
    <3>2. \A t \in Int, p \in Nat : Token("frame", 0, t, p) \in Tokens
      BY DEF Token, Tokens
    <3>3. \A j \in 1 .. q :
            Token("frame", 0, r.frames[j].ts, r.frames[j].payload) \in Tokens
      BY <3>1, <3>2
    <3> QED
      BY <1>1, <3>3
  <2>2. /\ B \in Seq(Tokens) /\ Len(B) = q
        /\ \A j \in 1 .. q : B[j] = Token("frame", 0, r.frames[j].ts, r.frames[j].payload)
    BY <1>1, <2>1, Mapped
  <2>3. A \in Seq(Tokens) /\ Len(A) = 1 /\ A[1] = Plain("CSI")
    BY <1>2, OneElement
  <2>4. DumpTokens(r.frames) = A \o B
    BY <1>4 DEF DumpTokens
  <2> HIDE DEF A, B, q
  <2> A \in Seq(Tokens) /\ B \in Seq(Tokens)
    BY <2>2, <2>3
  <2>0. /\ A \o B \in Seq(Tokens) /\ Len(A \o B) = Len(A) + Len(B)
        /\ \A i \in 1 .. Len(A) : (A \o B)[i] = A[i]
        /\ \A i \in 1 .. Len(B) : (A \o B)[Len(A) + i] = B[i]
    BY Joined
  <2>5. /\ A \o B \in Seq(Tokens) /\ Len(A \o B) = 1 + q
        /\ (A \o B)[1] = A[1] /\ \A j \in 1 .. q : (A \o B)[1 + j] = B[j]
    BY <2>0, <2>2, <2>3
  <2>6. (A \o B)[1] = Plain("CSI") /\ \A j \in 1 .. q : (A \o B)[j + 1] = B[j]
    BY <1>1, <2>3, <2>5
  <2> QED
    BY <1>1, <1>4, <2>2, <2>4, <2>5, <2>6 DEF q
<1> QED
  BY <1>3, <1>4

LEMMA RecordShape ==
  ASSUME NEW r \in Reports, NEW id \in Nat
  PROVE  RecordIs(RecordTokens(id, r), id, r, Len(r.entries), Len(r.frames))
<1> DEFINE m == Len(r.entries)
           q == Len(r.frames)
           A == <<Token("FTM", id, 0, Empty)>>
           B == [i \in DOMAIN r.entries |-> Token("entry", 0, r.entries[i], Empty)]
           C == DumpTokens(r.frames)
           D == <<Plain("end")>>
<1>1. m \in Nat /\ DOMAIN r.entries = 1 .. m /\ q \in Nat
  BY Reported
<1>2. Token("FTM", id, 0, Empty) \in Tokens /\ Plain("end") \in Tokens
  BY DEF Plain, Token, Tokens, Empty
<1>3. B \in [1 .. m -> Tokens]
  <2>1. \A i \in 1 .. m : r.entries[i] \in Int
    BY <1>1, Reported
  <2>2. \A t \in Int : Token("entry", 0, t, Empty) \in Tokens
    BY DEF Token, Tokens, Empty
  <2>3. \A i \in 1 .. m : Token("entry", 0, r.entries[i], Empty) \in Tokens
    BY <2>1, <2>2
  <2> QED
    BY <1>1, <2>3
<1>4. /\ B \in Seq(Tokens) /\ Len(B) = m
      /\ \A i \in 1 .. m : B[i] = Token("entry", 0, r.entries[i], Empty)
  BY <1>1, <1>3, Mapped
<1>5. /\ A \in Seq(Tokens) /\ Len(A) = 1 /\ A[1] = Token("FTM", id, 0, Empty)
      /\ D \in Seq(Tokens) /\ Len(D) = 1 /\ D[1] = Plain("end")
  BY <1>2, OneElement
<1>6. /\ C \in Seq(Tokens) /\ Len(C) = q + 1
      /\ C[1] = (IF q = 0 THEN Plain("log") ELSE Plain("CSI"))
      /\ \A j \in 1 .. q : C[j + 1] = Token("frame", 0, r.frames[j].ts, r.frames[j].payload)
  BY DumpShape
<1>7. RecordTokens(id, r) = ((A \o B) \o C) \o D
  BY DEF RecordTokens
<1> HIDE DEF A, B, C, D, m, q
<1> DEFINE AB == A \o B
           ABC == AB \o C
           rec == ABC \o D
<1>8. /\ AB \in Seq(Tokens) /\ Len(AB) = m + 1
      /\ AB[1] = Token("FTM", id, 0, Empty) /\ \A i \in 1 .. m : AB[i + 1] = B[i]
  <2> A \in Seq(Tokens) /\ B \in Seq(Tokens)
    BY <1>4, <1>5
  <2>0. /\ A \o B \in Seq(Tokens) /\ Len(A \o B) = Len(A) + Len(B)
        /\ \A i \in 1 .. Len(A) : (A \o B)[i] = A[i]
        /\ \A i \in 1 .. Len(B) : (A \o B)[Len(A) + i] = B[i]
    BY Joined
  <2>1. /\ AB \in Seq(Tokens) /\ Len(AB) = 1 + m
        /\ AB[1] = A[1] /\ \A i \in 1 .. m : AB[1 + i] = B[i]
    BY <2>0, <1>4, <1>5
  <2> HIDE DEF AB
  <2> QED
    BY <1>1, <1>5, <2>1
<1> HIDE DEF AB
<1>9. /\ ABC \in Seq(Tokens) /\ Len(ABC) = m + q + 2
      /\ \A i \in 1 .. m + 1 : ABC[i] = AB[i]
      /\ \A i \in 1 .. q + 1 : ABC[m + 1 + i] = C[i]
  <2> AB \in Seq(Tokens) /\ C \in Seq(Tokens)
    BY <1>6, <1>8
  <2>0. /\ AB \o C \in Seq(Tokens) /\ Len(AB \o C) = Len(AB) + Len(C)
        /\ \A i \in 1 .. Len(AB) : (AB \o C)[i] = AB[i]
        /\ \A i \in 1 .. Len(C) : (AB \o C)[Len(AB) + i] = C[i]
    BY Joined
  <2>1. /\ ABC \in Seq(Tokens) /\ Len(ABC) = (m + 1) + (q + 1)
        /\ \A i \in 1 .. m + 1 : ABC[i] = AB[i]
        /\ \A i \in 1 .. q + 1 : ABC[m + 1 + i] = C[i]
    BY <2>0, <1>6, <1>8
  <2> HIDE DEF ABC
  <2>2. (m + 1) + (q + 1) = m + q + 2
    BY <1>1
  <2> QED
    BY <2>1, <2>2
<1> HIDE DEF ABC
<1>10. /\ rec \in Seq(Tokens) /\ Len(rec) = m + q + 3
       /\ \A i \in 1 .. m + q + 2 : rec[i] = ABC[i]
       /\ rec[m + q + 3] = Plain("end")
  <2> ABC \in Seq(Tokens) /\ D \in Seq(Tokens)
    BY <1>5, <1>9
  <2>0. /\ ABC \o D \in Seq(Tokens) /\ Len(ABC \o D) = Len(ABC) + Len(D)
        /\ \A i \in 1 .. Len(ABC) : (ABC \o D)[i] = ABC[i]
        /\ \A i \in 1 .. Len(D) : (ABC \o D)[Len(ABC) + i] = D[i]
    BY Joined
  <2>1. /\ rec \in Seq(Tokens) /\ Len(rec) = (m + q + 2) + 1
        /\ \A i \in 1 .. m + q + 2 : rec[i] = ABC[i]
        /\ rec[m + q + 2 + 1] = D[1]
    BY <2>0, <1>5, <1>9
  <2> HIDE DEF rec
  <2> QED
    BY <1>1, <1>5, <2>1
<1>11. rec = RecordTokens(id, r)
  BY <1>7 DEF AB, ABC
<1> HIDE DEF rec
<1>12. rec[1] = Token("FTM", id, 0, Empty)
  BY <1>1, <1>8, <1>9, <1>10
<1>13. \A i \in 1 .. m : rec[i + 1] = Token("entry", 0, r.entries[i], Empty)
  BY <1>1, <1>4, <1>8, <1>9, <1>10
<1>14. rec[m + 2] = C[1]
  BY <1>1, <1>9, <1>10
<1>15. \A j \in 1 .. q : rec[m + 2 + j] = C[j + 1]
  BY <1>1, <1>9, <1>10
<1>16. \A j \in 1 .. q : rec[m + 2 + j] = Token("frame", 0, r.frames[j].ts, r.frames[j].payload)
  BY <1>6, <1>15
<1> QED
  BY <1>1, <1>6, <1>10, <1>11, <1>12, <1>13, <1>14, <1>16 DEF RecordIs, m, q

LEMMA RecordKinds ==
  ASSUME NEW r, NEW id, NEW rec, NEW m, NEW q, RecordIs(rec, id, r, m, q)
  PROVE  KindsAre(rec, m, q) /\ rec[1].id = id
<1>1. \A kind, n, t, p : Token(kind, n, t, p).kind = kind /\ Token(kind, n, t, p).id = n
  BY DEF Token
<1>2. \A kind : Plain(kind).kind = kind
  BY <1>1 DEF Plain
<1>3. rec[1].kind = "FTM" /\ rec[1].id = id
  BY <1>1 DEF RecordIs
<1>4. ASSUME NEW i \in 1 .. m PROVE rec[i + 1].kind = "entry"
  <2>1. rec[i + 1] = Token("entry", 0, r.entries[i], Empty)
    BY DEF RecordIs
  <2>2. Token("entry", 0, r.entries[i], Empty).kind = "entry"
    BY DEF Token
  <2> QED
    BY <2>1, <2>2
<1>5. ASSUME NEW j \in 1 .. q PROVE rec[m + 2 + j].kind = "frame"
  <2>1. rec[m + 2 + j] = Token("frame", 0, r.frames[j].ts, r.frames[j].payload)
    BY DEF RecordIs
  <2>2. Token("frame", 0, r.frames[j].ts, r.frames[j].payload).kind = "frame"
    BY DEF Token
  <2> QED
    BY <2>1, <2>2
<1>6. /\ rec[m + 2].kind = (IF q = 0 THEN "log" ELSE "CSI")
      /\ rec[m + q + 3].kind = "end"
  BY <1>2 DEF RecordIs
<1> QED
  BY <1>3, <1>4, <1>5, <1>6 DEF RecordIs, KindsAre

(* The tokens between the first and the last. *)
LEMMA RecordInside ==
  ASSUME NEW rec, NEW m, NEW q, KindsAre(rec, m, q)
  PROVE  /\ DOMAIN rec = 1 .. m + q + 3
         /\ \A n \in 2 .. m + q + 2 : rec[n].kind \in {"entry", "CSI", "frame", "log"}
         /\ \A n \in 2 .. m + 1 : rec[n].kind = "entry"
         /\ \A n \in m + 3 .. m + q + 2 : rec[n].kind = "frame"
<1>1. m \in Nat /\ q \in Nat /\ DOMAIN rec = 1 .. m + q + 3
  BY LenProperties DEF KindsAre
<1>2. \A n \in 2 .. m + 1 : rec[n].kind = "entry"
  <2>1. \A i \in 1 .. m : rec[i + 1].kind = "entry"
    BY DEF KindsAre
  <2>2. \A n \in 2 .. m + 1 : n - 1 \in 1 .. m /\ (n - 1) + 1 = n
    BY <1>1
  <2> QED
    BY <2>1, <2>2
<1>3. \A n \in m + 3 .. m + q + 2 : rec[n].kind = "frame"
  <2>1. \A j \in 1 .. q : rec[m + 2 + j].kind = "frame"
    BY DEF KindsAre
  <2>2. \A n \in m + 3 .. m + q + 2 : n - m - 2 \in 1 .. q /\ m + 2 + (n - m - 2) = n
    BY <1>1
  <2> QED
    BY <2>1, <2>2
<1>4. \A n \in 2 .. m + q + 2 : n \in 2 .. m + 1 \/ n = m + 2 \/ n \in m + 3 .. m + q + 2
  BY <1>1
<1>5. rec[m + 2].kind \in {"log", "CSI"}
  BY DEF KindsAre
<1>6. \A n \in 2 .. m + q + 2 : rec[n].kind \in {"entry", "CSI", "frame", "log"}
  BY <1>2, <1>3, <1>4, <1>5
<1> QED
  BY <1>1, <1>2, <1>3, <1>6

-----------------------------------------------------------------------------
(* What the host makes of a line. *)
LEMMA NothingCloses ==
  ASSUME NEW text, \A i \in DOMAIN text : ~Single(text[i]) /\ text[i].kind # "end"
  PROVE  ~HasMessage(text)
BY DEF HasMessage, Closes

LEMMA NothingOpens ==
  ASSUME NEW text, \A i \in DOMAIN text : ~Single(text[i]) /\ text[i].kind # "FTM"
  PROVE  ~HasMessage(text)
BY DEF HasMessage, Opens

LEMMA SingleLine ==
  ASSUME NEW w \in Tokens, Single(w)
  PROVE  HasMessage(<<w>>) /\ Fields(<<w>>) = <<w>>
<1> DEFINE text == <<w>>
<1>1. text \in Seq(Tokens) /\ Len(text) = 1 /\ text[1] = w /\ DOMAIN text = {1}
  OBVIOUS
<1> HIDE DEF text
<1>2. Opens(text) = {1}
  BY <1>1 DEF Opens
<1>3. Min(Opens(text)) = 1
  BY <1>2, LeastIs
<1>4. Closes(text, 1) = {1}
  BY <1>1 DEF Closes
<1>5. Min(Closes(text, 1)) = 1
  BY <1>4, LeastIs
<1>6. Fields(text) = SubSeq(text, 1, 1)
  BY <1>1, <1>3, <1>5 DEF Fields
<1>7. SubSeq(text, 1, Len(text)) = text
  BY <1>1, SubSeqFull
<1> QED
  BY <1>1, <1>2, <1>3, <1>4, <1>6, <1>7 DEF HasMessage, text

LEMMA RecordLine ==
  ASSUME NEW rec, NEW m, NEW q, KindsAre(rec, m, q), q # 0
  PROVE  /\ HasMessage(rec)
         /\ Fields(rec) \in Seq(Tokens) /\ Len(Fields(rec)) = m + q + 2
         /\ \A n \in 1 .. m + q + 2 : Fields(rec)[n] = rec[n]
<1> DEFINE last == m + q + 3
<1>1. /\ rec \in Seq(Tokens) /\ Len(rec) = last /\ last \in Nat /\ last > 1
      /\ rec[1].kind = "FTM" /\ rec[last].kind = "end"
  BY DEF KindsAre
<1>2. /\ DOMAIN rec = 1 .. last
      /\ \A n \in 2 .. last - 1 : rec[n].kind \in {"entry", "CSI", "frame", "log"}
  <2>1. last - 1 = m + q + 2
    BY DEF KindsAre
  <2> QED
    BY <2>1, RecordInside
<1>3. m + q + 2 = last - 1
  BY DEF KindsAre
<1> HIDE DEF last
<1>4. \A n \in DOMAIN rec : n = 1 \/ n = last \/ rec[n].kind \in {"entry", "CSI", "frame", "log"}
  BY <1>1, <1>2
<1>5. Opens(rec) = {1}
  BY <1>1, <1>2, <1>4 DEF Opens, Single
<1>6. Closes(rec, 1) = {last}
  BY <1>1, <1>2, <1>4 DEF Closes, Single
<1>7. Min(Opens(rec)) = 1 /\ Min(Closes(rec, 1)) = last
  <2>1. /\ {1} \in SUBSET Int /\ 1 \in {1} /\ \A x \in {1} : 1 <= x
        /\ {last} \in SUBSET Int /\ last \in {last} /\ \A x \in {last} : last <= x
    BY <1>1
  <2> QED
    BY <1>5, <1>6, <2>1, LeastIs
<1>8. ~Single(rec[last])
  BY <1>1 DEF Single
<1>9. Fields(rec) = SubSeq(rec, 1, last - 1)
  BY <1>7, <1>8 DEF Fields
<1>10. \A i \in 1 .. last - 1 : rec[i] \in Tokens
  BY <1>1, ElementOfSeq
<1>11. /\ SubSeq(rec, 1, last - 1) \in Seq(Tokens)
       /\ Len(SubSeq(rec, 1, last - 1)) = last - 1
       /\ \A i \in 1 .. last - 1 : SubSeq(rec, 1, last - 1)[i] = rec[i]
  <2>1. last - 1 \in Int /\ 1 <= last - 1 /\ last - 1 - 1 + 1 = last - 1
        /\ \A i \in Int : 1 + i - 1 = i
    BY <1>1
  <2> QED
    BY <1>10, <2>1, SubSeqProperties
<1> QED
  BY <1>3, <1>5, <1>6, <1>7, <1>9, <1>11 DEF HasMessage

LEMMA NearTyped ==
  ASSUME NEW t \in Int, NEW ts \in Int
  PROVE  Near(t, ts) \in BOOLEAN
BY DEF Near

(* The fields of a record with entries: the entries but the first, then the  *)
(* frames.                                                                   *)
FieldsOf(fields, rec, m, q) ==
  /\ fields \in Seq(Tokens) /\ KindsAre(rec, m, q)
  /\ q # 0 /\ m # 0 /\ Len(fields) = m + q + 2
  /\ \A n \in 1 .. m + q + 2 : fields[n] = rec[n]

LEMMA RecordFields ==
  ASSUME NEW fields, NEW rec, NEW m, NEW q, FieldsOf(fields, rec, m, q)
  PROVE  /\ EntryFields(fields) \in Seq(Tokens) /\ Len(EntryFields(fields)) = m - 1
         /\ \A i \in 1 .. m - 1 : EntryFields(fields)[i] = rec[i + 2]
         /\ FrameFields(fields) \in Seq(Tokens) /\ Len(FrameFields(fields)) = q
         /\ \A j \in 1 .. q : FrameFields(fields)[j] = rec[m + 2 + j]
<1> USE DEF FieldsOf
<1>1. m \in Nat /\ q \in Nat /\ DOMAIN fields = 1 .. m + q + 2
  BY LenProperties DEF KindsAre
<1>2. /\ \A n \in 2 .. m + 1 : fields[n].kind = "entry"
      /\ \A n \in m + 3 .. m + q + 2 : fields[n].kind = "frame"
      /\ fields[m + 2].kind = "CSI"
  <2>1. /\ \A n \in 2 .. m + 1 : n \in 1 .. m + q + 2
        /\ \A n \in m + 3 .. m + q + 2 : n \in 1 .. m + q + 2
        /\ m + 2 \in 1 .. m + q + 2
    BY <1>1
  <2>2. rec[m + 2].kind = "CSI"
    BY DEF KindsAre
  <2> QED
    BY <2>1, <2>2, RecordInside
<1>3. CsiMark(fields) = m + 2
  <2> DEFINE S == {Len(fields) + 1} \cup {i \in Positions(fields, "CSI") : i >= FirstEntry}
  <2>1. S \subseteq Int /\ m + 2 \in S
    BY <1>1, <1>2 DEF Positions, FirstEntry
  <2>2. \A x \in S : m + 2 <= x
    <3>1. SUFFICES ASSUME NEW x \in S, x < m + 2 PROVE FALSE
      BY <1>1, <2>1
    <3>2. x \in DOMAIN fields /\ fields[x].kind = "CSI" /\ x >= 3
      BY <1>1, <3>1 DEF Positions, FirstEntry
    <3>3. x \in 2 .. m + 1
      BY <1>1, <3>1, <3>2
    <3> QED
      BY <1>2, <3>2, <3>3
  <2> HIDE DEF S
  <2>3. Min(S) = m + 2
    BY <2>1, <2>2, LeastIs
  <2> QED
    BY <2>3 DEF CsiMark, S
<1>4. \A i \in 1 .. m + q + 2 : fields[i] \in Tokens
  BY ElementOfSeq
<1>5. /\ EntryFields(fields) \in Seq(Tokens) /\ Len(EntryFields(fields)) = m - 1
      /\ \A i \in 1 .. m - 1 : EntryFields(fields)[i] = fields[i + 2]
  <2>1. EntryFields(fields) = SubSeq(fields, 3, m + 1)
    <3>1. EntryFields(fields) = SubSeq(fields, 3, m + 2 - 1) /\ m + 2 - 1 = m + 1
      BY <1>1, <1>3 DEF EntryFields, FirstEntry
    <3> QED
      BY <3>1
  <2>2. /\ SubSeq(fields, 3, m + 1) \in Seq(Tokens)
        /\ Len(SubSeq(fields, 3, m + 1)) = IF 3 <= m + 1 THEN (m + 1) - 3 + 1 ELSE 0
        /\ \A i \in 1 .. (m + 1) - 3 + 1 : SubSeq(fields, 3, m + 1)[i] = fields[3 + i - 1]
    <3>1. m + 1 \in Int /\ \A i \in 3 .. m + 1 : fields[i] \in Tokens
      BY <1>1, <1>4
    <3> QED
      BY <3>1, SubSeqProperties
  <2>3. /\ (IF 3 <= m + 1 THEN (m + 1) - 3 + 1 ELSE 0) = m - 1
        /\ (m + 1) - 3 + 1 = m - 1 /\ \A i \in Int : 3 + i - 1 = i + 2
    BY <1>1
  <2> QED
    BY <2>1, <2>2, <2>3
<1>6. /\ FrameFields(fields) \in Seq(Tokens) /\ Len(FrameFields(fields)) = q
      /\ \A j \in 1 .. q : FrameFields(fields)[j] = fields[m + 2 + j]
  <2>1. FrameFields(fields) = SubSeq(fields, m + 3, m + q + 2)
    <3>1. FrameFields(fields) = SubSeq(fields, m + 2 + 1, m + q + 2) /\ m + 2 + 1 = m + 3
      BY <1>1, <1>3 DEF FrameFields
    <3> QED
      BY <3>1
  <2>2. /\ SubSeq(fields, m + 3, m + q + 2) \in Seq(Tokens)
        /\ Len(SubSeq(fields, m + 3, m + q + 2)) =
             IF m + 3 <= m + q + 2 THEN (m + q + 2) - (m + 3) + 1 ELSE 0
        /\ \A j \in 1 .. (m + q + 2) - (m + 3) + 1 :
             SubSeq(fields, m + 3, m + q + 2)[j] = fields[m + 3 + j - 1]
    <3>1. m + 3 \in Int /\ m + q + 2 \in Int /\ \A i \in m + 3 .. m + q + 2 : fields[i] \in Tokens
      BY <1>1, <1>4
    <3> QED
      BY <3>1, SubSeqProperties
  <2>3. /\ (IF m + 3 <= m + q + 2 THEN (m + q + 2) - (m + 3) + 1 ELSE 0) = q
        /\ (m + q + 2) - (m + 3) + 1 = q /\ \A j \in Int : m + 3 + j - 1 = m + 2 + j
    BY <1>1
  <2>4. Len(SubSeq(fields, m + 3, m + q + 2)) = q
    BY <2>2, <2>3
  <2>5. \A j \in 1 .. q : SubSeq(fields, m + 3, m + q + 2)[j] = fields[m + 3 + j - 1]
    BY <2>2, <2>3
  <2>6. \A j \in 1 .. q : SubSeq(fields, m + 3, m + q + 2)[j] = fields[m + 2 + j]
    <3>1. SUFFICES ASSUME NEW j \in 1 .. q
                   PROVE  SubSeq(fields, m + 3, m + q + 2)[j] = fields[m + 2 + j]
      OBVIOUS
    <3>2. m + 3 + j - 1 = m + 2 + j
      BY <1>1
    <3> QED
      BY <2>5, <3>2
  <2> QED
    BY <2>1, <2>2, <2>4, <2>6
<1>7. /\ \A i \in 1 .. m - 1 : i + 2 \in 1 .. m + q + 2
      /\ \A j \in 1 .. q : m + 2 + j \in 1 .. m + q + 2
  BY <1>1
<1> QED
  BY <1>5, <1>6, <1>7

(* The fields of a record without entries do not decode.                     *)
LEMMA EmptyRecordRefused ==
  ASSUME NEW fields \in Seq(Tokens), NEW rec, NEW m, NEW q, KindsAre(rec, m, q),
         q # 0, m = 0, Len(fields) = m + q + 2,
         \A n \in 1 .. m + q + 2 : fields[n] = rec[n]
  PROVE  ~FtmDecodes(fields)
<1>1. m = 0 /\ q \in Nat \ {0} /\ DOMAIN fields = 1 .. q + 2 /\ Len(fields) = q + 2
  BY LenProperties DEF KindsAre
<1>2. /\ \A n \in 3 .. q + 2 : fields[n].kind = "frame"
  <2>1. \A n \in 3 .. q + 2 : n \in m + 3 .. m + q + 2 /\ n \in 1 .. m + q + 2
    BY <1>1
  <2> QED
    BY <2>1, RecordInside
<1>3. CsiMark(fields) = q + 3
  <2> DEFINE S == {Len(fields) + 1} \cup {i \in Positions(fields, "CSI") : i >= FirstEntry}
  <2>1. \A i \in Positions(fields, "CSI") : ~(i >= FirstEntry)
    <3>1. SUFFICES ASSUME NEW i \in DOMAIN fields, fields[i].kind = "CSI", i >= 3 PROVE FALSE
      BY DEF Positions, FirstEntry
    <3>2. i \in 3 .. q + 2
      BY <1>1, <3>1
    <3> QED
      BY <1>2, <3>1, <3>2
  <2>2. S = {q + 3}
    BY <1>1, <2>1
  <2>3. {q + 3} \in SUBSET Int /\ q + 3 \in {q + 3} /\ \A x \in {q + 3} : q + 3 <= x
    BY <1>1
  <2>4. Min({q + 3}) = q + 3
    BY <2>3, LeastIs
  <2> QED
    BY <2>2, <2>4 DEF CsiMark
<1>4. \A i \in 1 .. q + 2 : fields[i] \in Tokens
  BY <1>1, ElementOfSeq
<1>5. EntryFields(fields) = SubSeq(fields, 3, q + 2)
  <2>1. EntryFields(fields) = SubSeq(fields, 3, q + 3 - 1) /\ q + 3 - 1 = q + 2
    BY <1>1, <1>3 DEF EntryFields, FirstEntry
  <2> QED
    BY <2>1
<1>6. /\ SubSeq(fields, 3, q + 2) \in Seq(Tokens)
      /\ Len(SubSeq(fields, 3, q + 2)) = IF 3 <= q + 2 THEN (q + 2) - 3 + 1 ELSE 0
      /\ \A i \in 1 .. (q + 2) - 3 + 1 : SubSeq(fields, 3, q + 2)[i] = fields[3 + i - 1]
  <2>1. q + 2 \in Int /\ \A i \in 3 .. q + 2 : fields[i] \in Tokens
    BY <1>1, <1>4
  <2> QED
    BY <2>1, SubSeqProperties
<1>7. Len(SubSeq(fields, 3, q + 2)) = q /\ SubSeq(fields, 3, q + 2)[1] = fields[3]
  <2>1. 1 \in 1 .. (q + 2) - 3 + 1 /\ 3 + 1 - 1 = 3
        /\ (IF 3 <= q + 2 THEN (q + 2) - 3 + 1 ELSE 0) = q
    BY <1>1
  <2> QED
    BY <1>6, <2>1
<1>8. 1 \in DOMAIN EntryFields(fields) /\ EntryFields(fields)[1].kind = "frame"
  BY <1>1, <1>2, <1>5, <1>6, <1>7, LenProperties
<1> QED
  BY <1>8 DEF FtmDecodes, ToSet

(* The parsed entries and frames of report r, which has m entries and q      *)
(* frames.                                                                   *)
FieldsAre(entries, frames, r, m, q) ==
  /\ m \in Nat \ {0} /\ q \in Nat
  /\ DOMAIN entries = 1 .. m - 1 /\ Len(entries) = m - 1
  /\ DOMAIN frames = 1 .. q
  /\ \A i \in 1 .. m - 1 : entries[i].t = r.entries[i + 1]
  /\ \A j \in 1 .. q : frames[j].t = r.frames[j].ts /\ frames[j].payload = r.frames[j].payload

LEMMA ReceiverIs ==
  ASSUME NEW r \in Reports, NEW entries, NEW frames, NEW m, NEW q,
         FieldsAre(entries, frames, r, m, q),
         NEW i \in 1 .. m - 1, NEW j \in 1 .. q
  PROVE  Receiver(entries, frames[j]) = i
           <=> /\ Near(r.entries[i + 1], r.frames[j].ts)
               /\ \A k \in 2 .. i : ~Near(r.entries[k], r.frames[j].ts)
<1> DEFINE S == {Len(entries) + 1} \cup {n \in DOMAIN entries : Near(entries[n].t, frames[j].t)}
           Hit(n) == Near(r.entries[n], r.frames[j].ts)
<1>1. m \in Nat \ {0} /\ i \in Nat /\ i >= 1 /\ i < m
  BY DEF FieldsAre
<1>2. S = {m} \cup {n \in 1 .. m - 1 : Hit(n + 1)}
  <2>1. Len(entries) + 1 = m /\ DOMAIN entries = 1 .. m - 1
    BY <1>1 DEF FieldsAre
  <2>2. \A n \in 1 .. m - 1 : Near(entries[n].t, frames[j].t) = Hit(n + 1)
    BY DEF FieldsAre
  <2> QED
    BY <2>1, <2>2
<1>3. Receiver(entries, frames[j]) = Min(S)
  BY DEF Receiver
<1> HIDE DEF S, Hit
<1>4. Min(S) \in S /\ \A x \in S : Min(S) <= x
  <2>1. S \in SUBSET Int /\ m \in S /\ 1 \in Int /\ \A x \in S : 1 <= x
    BY <1>1, <1>2
  <2> QED
    BY <2>1, LeastOfBounded
<1>5. ASSUME Min(S) = i PROVE Hit(i + 1) /\ \A k \in 2 .. i : ~Hit(k)
  <2>1. Hit(i + 1)
    BY <1>1, <1>2, <1>4, <1>5
  <2>2. ASSUME NEW k \in 2 .. i, Hit(k) PROVE FALSE
    <3>1. k - 1 \in 1 .. m - 1 /\ (k - 1) + 1 = k /\ ~(i <= k - 1)
      BY <1>1
    <3>2. k - 1 \in S
      BY <1>2, <2>2, <3>1
    <3> QED
      BY <1>4, <1>5, <3>1, <3>2
  <2> QED
    BY <2>1, <2>2
<1>6. ASSUME Hit(i + 1), \A k \in 2 .. i : ~Hit(k) PROVE Min(S) = i
  <2>1. i \in S /\ S \in SUBSET Int
    BY <1>1, <1>2, <1>6
  <2>2. \A x \in S : i <= x
    <3>1. SUFFICES ASSUME NEW x \in S, x < i PROVE FALSE
      BY <1>1, <2>1
    <3>2. x \in 1 .. m - 1 /\ Hit(x + 1)
      BY <1>1, <1>2, <3>1
    <3>3. x + 1 \in 2 .. i
      BY <1>1, <3>1, <3>2
    <3> QED
      BY <1>6, <3>2, <3>3
  <2> QED
    BY <2>1, <2>2, LeastIs
<1> QED
  BY <1>3, <1>5, <1>6 DEF Hit

LEMMA PayloadTyped ==
  ASSUME NEW r \in Reports, NEW i \in Int
  PROVE  /\ PayloadOf(r, i) \in Nat
         /\ Claims(r, i) # {} => Max(Claims(r, i)) \in Claims(r, i)
                                 /\ \A j \in Claims(r, i) : j <= Max(Claims(r, i))
<1>1. Claims(r, i) \subseteq DOMAIN r.frames
  BY DEF Claims
<1>2. Len(r.frames) \in Nat /\ DOMAIN r.frames = 1 .. Len(r.frames)
  BY Reported
<1>3. ASSUME NEW j \in Claims(r, i)
      PROVE  Max(Claims(r, i)) \in Claims(r, i) /\ \A k \in Claims(r, i) : k <= Max(Claims(r, i))
  <2> DEFINE S == Claims(r, i)
  <2>1. S \in SUBSET Int /\ j \in S /\ Len(r.frames) \in Int /\ \A k \in S : k <= Len(r.frames)
    BY <1>1, <1>2, <1>3
  <2> HIDE DEF S
  <2>2. Max(S) \in S /\ \A k \in S : k <= Max(S)
    BY <2>1, GreatestOfBounded
  <2> QED
    BY <2>2 DEF S
<1>4. PayloadOf(r, i) \in Nat
  <2>1. CASE Claims(r, i) = {}
    BY <2>1 DEF PayloadOf, Empty
  <2>2. CASE Claims(r, i) # {}
    <3>1. Max(Claims(r, i)) \in DOMAIN r.frames
      BY <1>1, <1>3, <2>2
    <3> QED
      BY <2>2, <3>1, Reported DEF PayloadOf
  <2> QED
    BY <2>1, <2>2
<1> QED
  BY <1>3, <1>4

LEMMA CsiIs ==
  ASSUME NEW r \in Reports, NEW entries, NEW frames, NEW m, NEW q,
         FieldsAre(entries, frames, r, m, q), DOMAIN r.frames = 1 .. q,
         NEW i \in 1 .. m - 1
  PROVE  CsiOf(entries, frames, i) = PayloadOf(r, i + 1)
<1>1. i + 1 \in Int /\ (i + 1) - 1 = i
  BY DEF FieldsAre
<1>2. Received(entries, frames, i) = Claims(r, i + 1)
  <2>1. Received(entries, frames, i) = {j \in 1 .. q : Receiver(entries, frames[j]) = i}
    BY DEF Received, FieldsAre
  <2>2. Claims(r, i + 1) =
          {j \in 1 .. q : /\ Near(r.entries[i + 1], r.frames[j].ts)
                          /\ \A k \in 2 .. i : ~Near(r.entries[k], r.frames[j].ts)}
    BY <1>1 DEF Claims
  <2> QED
    BY <2>1, <2>2, ReceiverIs
<1>3. \A j \in Claims(r, i + 1) : frames[j].payload = r.frames[j].payload
  BY DEF Claims, FieldsAre
<1> QED
  BY <1>1, <1>2, <1>3, PayloadTyped DEF CsiOf, PayloadOf

(* A record is parsed to what Faithful demands. *)
LEMMA RecordParsed ==
  ASSUME NEW r \in Reports, NEW id \in Nat, r.entries # <<>>, r.frames # <<>>
  PROVE  LET fields == Fields(RecordTokens(id, r))
         IN  /\ FtmDecodes(fields) /\ fields[1] = Token("FTM", id, 0, Empty)
             /\ ParseFtm(fields).kind = "FTM" /\ ParseFtm(fields).id = id
             /\ Faithful(ParseFtm(fields), r)
<1> DEFINE m == Len(r.entries)
           q == Len(r.frames)
           rec == RecordTokens(id, r)
           fields == Fields(rec)
           entries == EntryFields(fields)
           frames == FrameFields(fields)
<1>1. m \in Nat \ {0} /\ q \in Nat \ {0} /\ DOMAIN r.frames = 1 .. q
  BY Reported, EmptySeq
<1>2. RecordIs(rec, id, r, m, q)
  BY RecordShape
<1> HIDE DEF m, q, rec
<1>3. KindsAre(rec, m, q)
  BY <1>2, RecordKinds
<1>4. /\ fields \in Seq(Tokens) /\ Len(fields) = m + q + 2
      /\ \A n \in 1 .. m + q + 2 : fields[n] = rec[n]
  BY <1>1, <1>3, RecordLine
<1> HIDE DEF fields
<1>5. /\ entries \in Seq(Tokens) /\ Len(entries) = m - 1
      /\ \A i \in 1 .. m - 1 : entries[i] = rec[i + 2]
      /\ frames \in Seq(Tokens) /\ Len(frames) = q
      /\ \A j \in 1 .. q : frames[j] = rec[m + 2 + j]
  <2>1. m # 0 /\ q # 0
    BY <1>1
  <2>2. FieldsOf(fields, rec, m, q)
    BY <1>3, <1>4, <2>1 DEF FieldsOf
  <2> QED
    BY <2>2, RecordFields
<1> HIDE DEF entries, frames
<1>6. \A i \in 1 .. m - 1 : entries[i] = Token("entry", 0, r.entries[i + 1], Empty)
  <2>1. SUFFICES ASSUME NEW i \in 1 .. m - 1
                 PROVE  entries[i] = Token("entry", 0, r.entries[i + 1], Empty)
    OBVIOUS
  <2>2. i + 1 \in 1 .. m /\ (i + 1) + 1 = i + 2
    BY <1>1
  <2>3. rec[(i + 1) + 1] = Token("entry", 0, r.entries[i + 1], Empty)
    BY <1>2, <2>2 DEF RecordIs
  <2> QED
    BY <1>5, <2>2, <2>3
<1>7. \A j \in 1 .. q : frames[j] = Token("frame", 0, r.frames[j].ts, r.frames[j].payload)
  BY <1>2, <1>5 DEF RecordIs
<1>8. FieldsAre(entries, frames, r, m, q)
  <2>1. DOMAIN entries = 1 .. m - 1 /\ DOMAIN frames = 1 .. q
    BY <1>5, LenProperties
  <2>2. \A i \in 1 .. m - 1 : entries[i].t = r.entries[i + 1]
    <3>1. SUFFICES ASSUME NEW i \in 1 .. m - 1 PROVE entries[i].t = r.entries[i + 1]
      OBVIOUS
    <3>2. entries[i] = Token("entry", 0, r.entries[i + 1], Empty)
      BY <1>6
    <3>3. Token("entry", 0, r.entries[i + 1], Empty).t = r.entries[i + 1]
      BY DEF Token
    <3> QED
      BY <3>2, <3>3
  <2>3. \A j \in 1 .. q : frames[j].t = r.frames[j].ts /\ frames[j].payload = r.frames[j].payload
    <3>1. SUFFICES ASSUME NEW j \in 1 .. q
                   PROVE  frames[j].t = r.frames[j].ts /\ frames[j].payload = r.frames[j].payload
      OBVIOUS
    <3> DEFINE token == Token("frame", 0, r.frames[j].ts, r.frames[j].payload)
    <3>2. token.t = r.frames[j].ts /\ token.payload = r.frames[j].payload
      BY DEF Token
    <3>3. frames[j] = token
      BY <1>7
    <3> QED
      BY <3>2, <3>3
  <2> QED
    BY <1>1, <1>5, <2>1, <2>2, <2>3 DEF FieldsAre
<1>9. FtmDecodes(fields)
  <2>1. \A f \in ToSet(entries) : f.kind = "entry"
    <3>1. SUFFICES ASSUME NEW i \in 1 .. m - 1 PROVE entries[i].kind = "entry"
      BY <1>5, LenProperties DEF ToSet
    <3>2. entries[i] = Token("entry", 0, r.entries[i + 1], Empty)
      BY <1>6
    <3>3. Token("entry", 0, r.entries[i + 1], Empty).kind = "entry"
      BY DEF Token
    <3> QED
      BY <3>2, <3>3
  <2> QED
    BY <2>1 DEF FtmDecodes, entries
<1>10. fields[1] = Token("FTM", id, 0, Empty)
  <2>1. 1 \in 1 .. m + q + 2
    BY <1>1
  <2> QED
    BY <1>2, <1>4, <2>1 DEF RecordIs
<1>11. Faithful(ParseFtm(fields), r)
  <2> DEFINE timed == {i \in 1 .. m - 1 : PayloadOf(r, i + 1) # Empty}
  <2>1. DOMAIN entries = 1 .. m - 1
    BY <1>8 DEF FieldsAre
  <2>2. \A i \in 1 .. m - 1 : CsiOf(entries, frames, i) = PayloadOf(r, i + 1)
    BY <1>1, <1>8, CsiIs
  <2>3. {i \in DOMAIN entries : CsiOf(entries, frames, i) # Empty} = timed
    BY <2>1, <2>2
  <2>4. \A i \in timed : entries[i].t = r.entries[i + 1]
    BY <1>8 DEF FieldsAre
  <2>5. ParseFtm(fields).reports =
          [i \in timed |-> [t2 |-> entries[i].t, payload |-> CsiOf(entries, frames, i)]]
    BY <2>3 DEF ParseFtm, entries, frames
  <2>6. ParseFtm(fields).reports =
          [i \in timed |-> [t2 |-> r.entries[i + 1], payload |-> PayloadOf(r, i + 1)]]
    BY <2>2, <2>4, <2>5
  <2> QED
    BY <2>6 DEF Faithful, m
<1>12. ParseFtm(fields).kind = "FTM" /\ ParseFtm(fields).id = id
  BY <1>10 DEF ParseFtm, Token
<1> QED
  BY <1>9, <1>10, <1>11, <1>12 DEF fields, rec

-----------------------------------------------------------------------------
(* What is printed for a report: its ranges, then its record.                *)
RangeOf(r, id, token) ==
  \E i \in Ranged(r) : token = Token("RANGE", id, r.entries[i], Match(r, i).payload)

LEMMA MatchIs ==
  ASSUME NEW r \in Reports, NEW i \in Ranged(r)
  PROVE  /\ i \in DOMAIN r.entries /\ r.ranged
         /\ \E j \in DOMAIN r.frames :
              /\ Match(r, i) = r.frames[j] /\ r.frames[j].ht40
              /\ Near(r.entries[i], r.frames[j].ts)
<1> DEFINE S == MatchesOnBoard(r.entries[i], r.frames)
<1>1. i \in DOMAIN r.entries /\ r.ranged /\ S # {} /\ Match(r, i).ht40
  BY DEF Ranged
<1>2. S \subseteq DOMAIN r.frames
  BY DEF MatchesOnBoard
<1>3. PICK e \in S : TRUE
  BY <1>1
<1>4. S \in SUBSET Int /\ 1 \in Int /\ \A x \in S : 1 <= x
  BY <1>2, Reported
<1> HIDE DEF S
<1>5. Min(S) \in S
  BY <1>3, <1>4, LeastOfBounded
<1>6. Match(r, i) = r.frames[Min(S)]
  BY DEF Match, S
<1>7. Near(r.entries[i], r.frames[Min(S)].ts)
  BY <1>5 DEF S, MatchesOnBoard
<1> QED
  BY <1>1, <1>2, <1>5, <1>6, <1>7

LEMMA RangeTyped ==
  ASSUME NEW r \in Reports, NEW id \in Nat, NEW token, RangeOf(r, id, token)
  PROVE  token \in Tokens /\ token.kind = "RANGE" /\ token.id = id
<1>1. PICK i \in Ranged(r) : token = Token("RANGE", id, r.entries[i], Match(r, i).payload)
  BY DEF RangeOf
<1>2. r.entries[i] \in Int /\ Match(r, i).payload \in Nat
  BY MatchIs, Reported
<1>3. \A t \in Int, p \in Nat :
        LET x == Token("RANGE", id, t, p)
        IN  x \in Tokens /\ x.kind = "RANGE" /\ x.id = id
  BY DEF Token, Tokens
<1> QED
  BY <1>1, <1>2, <1>3

(* The first c tokens are ranges, the record stands behind them.             *)
FullIs(full, c, id, r) ==
  /\ full \in Seq(Tokens) /\ c \in Nat
  /\ Len(full) = c + Len(RecordTokens(id, r))
  /\ \A n \in 1 .. c : RangeOf(r, id, full[n])
  /\ \A n \in 1 .. Len(RecordTokens(id, r)) : full[c + n] = RecordTokens(id, r)[n]

LEMMA RangesAndRecord ==
  ASSUME NEW r \in Reports, NEW id \in Nat, NEW turn \in InTurn(Ranged(r))
  PROVE  \E c \in Nat : FullIs(RangeTokens(id, r, turn) \o RecordTokens(id, r), c, id, r)
<1> DEFINE c == Cardinality(Ranged(r))
           A == RangeTokens(id, r, turn)
           B == RecordTokens(id, r)
<1>1. c \in Nat
  <2>1. Ranged(r) \in SUBSET (1 .. Len(r.entries)) /\ Len(r.entries) \in Int
    BY Reported DEF Ranged
  <2>2. IsFiniteSet(1 .. Len(r.entries))
    BY <2>1, FS_Interval
  <2>3. IsFiniteSet(Ranged(r))
    BY <2>1, <2>2, FS_Subset
  <2> QED
    BY <2>3, FS_CardinalityType
<1>2. turn \in [1 .. c -> Ranged(r)]
  BY DEF InTurn
<1> HIDE DEF c
<1>3. /\ A = [n \in 1 .. c |-> Token("RANGE", id, r.entries[turn[n]], Match(r, turn[n]).payload)]
      /\ \A n \in 1 .. c : RangeOf(r, id, A[n])
  BY <1>2 DEF RangeTokens, RangeOf
<1>4. A \in [1 .. c -> Tokens]
  BY <1>3, RangeTyped
<1>5. A \in Seq(Tokens) /\ Len(A) = c
  BY <1>1, <1>4, Mapped
<1>6. B \in Seq(Tokens)
  BY RecordShape DEF RecordIs
<1> HIDE DEF A, B
<1>7. /\ A \o B \in Seq(Tokens) /\ Len(A \o B) = Len(A) + Len(B)
      /\ \A i \in 1 .. Len(A) : (A \o B)[i] = A[i]
      /\ \A i \in 1 .. Len(B) : (A \o B)[Len(A) + i] = B[i]
  <2> A \in Seq(Tokens) /\ B \in Seq(Tokens)
    BY <1>5, <1>6
  <2> QED
    BY Joined
<1>8. FullIs(A \o B, c, id, r)
  BY <1>1, <1>3, <1>5, <1>7 DEF FullIs, B
<1> QED
  BY <1>1, <1>8 DEF A, B

-----------------------------------------------------------------------------
(* The invariant of the board's side.  What was sent is a parameter, so that *)
(* it can grow.                                                              *)
Sends == [kind : {"FTM"}, of : Reports] \cup [kind : {"stray"}, of : Strays]

SingleOK(of, token) ==
  \/ token = Plain("MAC")
  \/ /\ token.id \in DOMAIN of /\ of[token.id].kind = "stray"
     /\ token = Token("stray", token.id, of[token.id].of.ts, of[token.id].of.payload)
  \/ /\ token.id \in DOMAIN of /\ of[token.id].kind = "FTM"
     /\ RangeOf(of[token.id].of, token.id, token)

(* A line holds no message, or one of one print, or a record of a report     *)
(* with frames.                                                              *)
LineOK(of, text, w) ==
  \/ ~HasMessage(text) /\ w = Plain("log")
  \/ text = <<w>> /\ SingleOK(of, w)
  \/ /\ w.id \in DOMAIN of /\ of[w.id].kind = "FTM" /\ of[w.id].of.frames # <<>>
     /\ w = Token("FTM", w.id, 0, Empty)
     /\ text = RecordTokens(w.id, of[w.id].of)

ShapeOK ==
  /\ sent \in Seq(Sends) /\ toPrint \in Seq(Tokens) /\ line \in Seq(Tokens)
  /\ wire \in Seq(Seq(Tokens)) /\ whole \in Seq(Tokens)
  /\ idAsked \in BOOLEAN /\ reader \in {"up", "ended"} /\ macKnown \in BOOLEAN
  /\ Len(wire) <= Len(whole)

(* A tokens of full are printed; the open line holds the last of them.       *)
Printing(full, a) ==
  /\ a \in Nat /\ a + Len(toPrint) = Len(full) /\ Len(line) <= a
  /\ \A i \in 1 .. Len(line) : line[i] = full[a - Len(line) + i]
  /\ \A i \in 1 .. Len(toPrint) : toPrint[i] = full[a + i]

PrintInv ==
  /\ \A i \in DOMAIN line : ~EndsLine(line[i])
  /\ toPrint = <<>> => line = <<>>
  /\ toPrint # <<>> =>
       /\ sent # <<>> /\ sent[Len(sent)].kind = "FTM"
       /\ \E full \in Seq(Tokens), c \in Nat, a \in Nat :
            FullIs(full, c, Len(sent), sent[Len(sent)].of) /\ Printing(full, a)

Noted(token) == IF InOnePiece(token) THEN Append(line, token)[1] ELSE Plain("log")

(* The line that token ends. *)
LEMMA QuietLine ==
  ASSUME ShapeOK, PrintInv, NEW token \in Tokens
  PROVE  /\ Append(line, token) \in Seq(Tokens)
         /\ DOMAIN Append(line, token) = 1 .. Len(line) + 1
         /\ \A i \in 1 .. Len(line) :
              /\ Append(line, token)[i] = line[i] /\ ~Single(line[i])
              /\ line[i].kind # "end" /\ line[i].kind # "log"
         /\ Append(line, token)[Len(line) + 1] = token
         /\ Len(line) \in Nat
<1>1. line \in Seq(Tokens) /\ Len(line) \in Nat /\ DOMAIN line = 1 .. Len(line)
  BY LenProperties DEF ShapeOK
<1>2. /\ Append(line, token) \in Seq(Tokens) /\ Len(Append(line, token)) = Len(line) + 1
      /\ \A i \in 1 .. Len(line) : Append(line, token)[i] = line[i]
      /\ Append(line, token)[Len(line) + 1] = token
  BY <1>1, Appended
<1>3. DOMAIN Append(line, token) = 1 .. Len(line) + 1
  BY <1>2, LenProperties
<1>4. \A i \in 1 .. Len(line) :
        ~Single(line[i]) /\ line[i].kind # "end" /\ line[i].kind # "log"
  BY <1>1 DEF PrintInv, EndsLine
<1> QED
  BY <1>1, <1>2, <1>3, <1>4

(* A log ends a line that holds no message. *)
LEMMA LogLine ==
  ASSUME ShapeOK, PrintInv, NEW token \in Tokens, token.kind = "log"
  PROVE  ~HasMessage(Append(line, token)) /\ ~InOnePiece(token)
<1> DEFINE text == Append(line, token)
<1>1. ~Single(token) /\ token.kind # "end"
  BY DEF Single
<1>2. \A i \in DOMAIN text : ~Single(text[i]) /\ text[i].kind # "end"
  <2>1. \A i \in 1 .. Len(line) + 1 : i \in 1 .. Len(line) \/ i = Len(line) + 1
    BY QuietLine
  <2> QED
    BY <1>1, <2>1, QuietLine
<1>3. ~HasMessage(text)
  BY <1>2, NothingCloses
<1>4. ~InOnePiece(token)
  BY <1>1 DEF InOnePiece
<1> QED
  BY <1>3, <1>4

LEMMA LineEnds ==
  ASSUME ShapeOK, PrintInv, toPrint # <<>>, EndsLine(Head(toPrint))
  PROVE  LineOK(sent, Append(line, Head(toPrint)), Noted(Head(toPrint)))
<1> DEFINE id == Len(sent)
           r == sent[id].of
           rec == RecordTokens(id, r)
           token == Head(toPrint)
           text == Append(line, token)
           m == Len(r.entries)
           q == Len(r.frames)
           N == m + q + 3
           L == Len(line)
<1>1. /\ id \in Nat /\ id \in DOMAIN sent /\ sent[id].kind = "FTM" /\ r \in Reports
  <2>1. sent \in Seq(Sends) /\ sent # <<>> /\ sent[id].kind = "FTM"
    BY DEF ShapeOK, PrintInv
  <2>2. id \in Nat /\ id \in DOMAIN sent
    BY <2>1, LenProperties, EmptySeq
  <2>3. sent[id] \in Sends
    BY <2>1, <2>2, LenProperties, ElementOfSeq
  <2> QED
    BY <2>1, <2>2, <2>3 DEF Sends
<1>2. PICK full \in Seq(Tokens), c \in Nat, a \in Nat : FullIs(full, c, id, r) /\ Printing(full, a)
  BY DEF PrintInv
<1>3. token \in Tokens /\ token = full[a + 1] /\ a + 1 <= Len(full)
  <2>1. toPrint \in Seq(Tokens)
    BY DEF ShapeOK
  <2>2. token \in Tokens /\ token = toPrint[1] /\ Len(toPrint) \in Nat \ {0}
    BY <2>1, HeadAndTail
  <2>3. 1 \in 1 .. Len(toPrint) /\ a + 1 <= a + Len(toPrint)
    BY <2>2
  <2> QED
    BY <1>2, <2>2, <2>3 DEF Printing
<1>4. /\ L \in Nat /\ DOMAIN text = 1 .. L + 1 /\ text \in Seq(Tokens)
      /\ \A i \in 1 .. L : /\ text[i] = line[i] /\ ~Single(line[i])
                            /\ line[i].kind # "end" /\ line[i].kind # "log"
      /\ text[L + 1] = token
  BY <1>3, QuietLine
<1>5. L <= a /\ \A i \in 1 .. L : line[i] = full[a - L + i]
  BY <1>2 DEF Printing
<1>6. RecordIs(rec, id, r, m, q)
  BY <1>1, RecordShape
<1>7. KindsAre(rec, m, q) /\ rec[1].id = id
  BY <1>6, RecordKinds
<1>8. /\ Len(full) = c + Len(rec) /\ \A n \in 1 .. Len(rec) : full[c + n] = rec[n]
      /\ \A n \in 1 .. c : RangeOf(r, id, full[n])
  BY <1>2 DEF FullIs
<1>9. m \in Nat /\ q \in Nat /\ Len(rec) = N /\ rec \in Seq(Tokens) /\ DOMAIN rec = 1 .. N
  <2>1. m \in Nat /\ q \in Nat /\ Len(rec) = N /\ rec \in Seq(Tokens)
    BY <1>7 DEF KindsAre
  <2>2. DOMAIN rec = 1 .. N
    BY <2>1, LenProperties
  <2> QED
    BY <2>1, <2>2
<1>10. q # 0 => r.frames # <<>>
  BY EmptySeq
<1> HIDE DEF r, rec, token, text, m, q, L
<1>11. \A n \in 1 .. c : Single(full[n]) /\ full[n].id = id /\ full[n] \in Tokens
  BY <1>1, <1>8, RangeTyped DEF Single
<1>12. CASE a + 1 <= c
  <2>1. L = 0
    <3>1. SUFFICES ASSUME L # 0 PROVE FALSE
      OBVIOUS
    <3>2. L \in 1 .. L /\ a - L + L = a /\ a \in 1 .. c
      BY <1>4, <1>5, <1>12, <3>1
    <3> QED
      BY <1>4, <1>5, <1>11, <3>2
  <2>2. text = <<token>>
    <3>1. Len(text) = 1 /\ text[1] = token
      BY <1>4, <2>1, LenProperties
    <3>2. <<token>> \in Seq(Tokens) /\ Len(<<token>>) = 1 /\ <<token>>[1] = token
      BY <1>3, OneElement
    <3>3. \A i \in 1 .. Len(text) : text[i] = <<token>>[i]
      BY <3>1, <3>2
    <3> QED
      BY <1>4, <3>1, <3>2, <3>3, Extensional
  <2>3. a + 1 \in 1 .. c
    BY <1>12
  <2>4. RangeOf(r, id, token) /\ Single(token) /\ token.id = id
    BY <1>3, <1>8, <1>11, <2>3
  <2>5. Noted(token) = token
    BY <2>2, <2>4 DEF Noted, InOnePiece, text
  <2>6. SingleOK(sent, token)
    BY <1>1, <2>4 DEF SingleOK, r
  <2> QED
    BY <2>2, <2>5, <2>6 DEF LineOK, text, token
<1>13. CASE c <= a
  <2> DEFINE k == a + 1 - c
  <2>1. k \in 1 .. N /\ token = rec[k] /\ c + k = a + 1
    <3>1. k \in 1 .. N /\ c + k = a + 1
      BY <1>3, <1>8, <1>9, <1>13
    <3> QED
      BY <1>3, <1>8, <1>9, <3>1
  <2> HIDE DEF N
  <2>2. N \in Nat /\ N >= 3 /\ \A n \in 2 .. N - 1 : rec[n].kind \in {"entry", "CSI", "frame", "log"}
    <3>1. N \in Nat /\ N >= 3 /\ N - 1 = m + q + 2
      BY <1>9 DEF N
    <3> QED
      BY <1>7, <3>1, RecordInside
  <2>3. rec[1].kind = "FTM" /\ rec[N].kind = "end"
    BY <1>7 DEF KindsAre, N
  <2>4. CASE token.kind = "log"
    BY <1>3, <2>4, LogLine DEF LineOK, Noted, text, token
  <2>5. CASE token.kind # "log"
    <3>1. k = N /\ token.kind = "end" /\ ~Single(token)
      <4>1. k = 1 \/ k \in 2 .. N - 1 \/ k = N
        BY <2>1, <2>2
      <4>2. EndsLine(token)
        BY DEF token
      <4> QED
        BY <2>1, <2>2, <2>3, <2>5, <4>1, <4>2 DEF EndsLine, Single
    <3>2. a - c = N - 1
      BY <2>1, <2>2, <3>1
    <3>3. L <= N - 1
      <4>1. SUFFICES ASSUME L > N - 1 PROVE FALSE
        BY <1>4, <2>2
      <4>2. L - (N - 1) \in 1 .. L /\ a - L + (L - (N - 1)) = c /\ c \in 1 .. c
        BY <1>4, <1>5, <2>2, <3>2, <4>1
      <4> QED
        BY <1>4, <1>5, <1>11, <4>2
    <3>4. \A i \in 1 .. L : line[i] = rec[N - 1 - L + i]
      <4>1. SUFFICES ASSUME NEW i \in 1 .. L PROVE line[i] = rec[N - 1 - L + i]
        OBVIOUS
      <4>2. N - 1 - L + i \in 1 .. N /\ c + (N - 1 - L + i) = a - L + i
        <5>1. L \in Nat /\ N \in Nat /\ a = c + N - 1 /\ L <= N - 1
          BY <1>4, <2>2, <3>2, <3>3
        <5>2. N - 1 - L + i \in 1 .. N
          BY <5>1
        <5>3. c + (N - 1 - L + i) = a - L + i
          BY <5>1
        <5> QED
          BY <5>2, <5>3
      <4> QED
        BY <1>5, <1>8, <1>9, <4>2
    <3>5. CASE L = N - 1
      <4>1. \A i \in 1 .. L : line[i] = rec[i]
        <5>1. \A i \in 1 .. L : N - 1 - L + i = i
          BY <1>4, <2>2, <3>5
        <5> QED
          BY <3>4, <5>1
      <4>2. text = rec
        <5>1. Len(text) = N /\ L + 1 = N
          BY <1>4, <2>2, <3>5, LenProperties
        <5>2. \A i \in 1 .. N : i \in 1 .. L \/ i = N
          BY <2>2, <3>5
        <5>3. \A i \in 1 .. N : text[i] = rec[i]
          BY <1>4, <2>1, <3>1, <4>1, <5>1, <5>2
        <5> QED
          BY <1>4, <1>9, <5>1, <5>3, Extensional
      <4>3. q # 0
        <5>1. SUFFICES ASSUME q = 0 PROVE FALSE
          OBVIOUS
        <5>2. rec[m + 2].kind = "log"
          BY <1>7, <5>1 DEF KindsAre
        <5>3. m + 2 \in 1 .. L
          BY <1>9, <3>5, <5>1 DEF N
        <5> QED
          BY <1>4, <4>1, <5>2, <5>3
      <4>4. line # <<>> /\ line[1] = rec[1]
        <5>1. 1 \in 1 .. L /\ L # 0
          BY <2>2, <3>5
        <5> QED
          BY <4>1, <5>1, EmptySeq DEF L
      <4>5. InOnePiece(token)
        BY <1>7, <2>3, <3>1, <4>2, <4>4 DEF InOnePiece, text, rec, r
      <4>6. Noted(token) = rec[1]
        BY <4>2, <4>5 DEF Noted, text
      <4>7. rec[1] = Token("FTM", id, 0, Empty)
        BY <1>6 DEF RecordIs
      <4>8. /\ rec[1].id = id /\ sent[rec[1].id].of = r /\ r.frames # <<>>
            /\ rec[1].id \in DOMAIN sent /\ sent[rec[1].id].kind = "FTM"
        BY <1>1, <1>7, <1>10, <4>3 DEF r
      <4>9. LineOK(sent, text, rec[1])
        BY <4>2, <4>7, <4>8 DEF LineOK, rec
      <4> QED
        BY <4>6, <4>9 DEF text, token
    <3>6. CASE L < N - 1
      <4>1. \A i \in 1 .. L : line[i].kind # "FTM"
        <5>1. \A i \in 1 .. L : N - 1 - L + i \in 2 .. N - 1
          BY <1>4, <2>2, <3>6
        <5> QED
          BY <2>2, <3>4, <5>1
      <4>2. \A i \in DOMAIN text : ~Single(text[i]) /\ text[i].kind # "FTM"
        <5>1. \A i \in DOMAIN text : i \in 1 .. L \/ i = L + 1
          BY <1>4
        <5> QED
          BY <1>4, <3>1, <4>1, <5>1
      <4>3. ~InOnePiece(token)
        <5>1. line # <<>> => 1 \in 1 .. L
          <6>1. line \in Seq(Tokens)
            BY DEF ShapeOK
          <6> QED
            BY <1>4, <6>1, EmptySeq DEF L
        <5> QED
          BY <3>1, <4>1, <5>1 DEF InOnePiece
      <4>4. Noted(token) = Plain("log") /\ ~HasMessage(text)
        BY <4>2, <4>3, NothingOpens DEF Noted
      <4> QED
        BY <4>4 DEF LineOK, text, token
    <3> QED
      BY <1>4, <2>2, <3>3, <3>5, <3>6
  <2> QED
    BY <2>4, <2>5
<1> QED
  BY <1>2, <1>12, <1>13

-----------------------------------------------------------------------------
(* The board's steps: a line put on the wire has what its note says.         *)
Grown(of, more) == more = of \/ \E s \in Sends : more = Append(of, s)

LinePut ==
  \E text \in Seq(Tokens), w \in Tokens :
    /\ wire' = Append(wire, text) /\ whole' = Append(whole, w)
    /\ LineOK(sent', text, w)

BoardMoves ==
  /\ sent' \in Seq(Sends) /\ toPrint' \in Seq(Tokens) /\ line' \in Seq(Tokens)
  /\ Grown(sent, sent') /\ idAsked' \in BOOLEAN
  /\ UNCHANGED <<wire, whole>> \/ LinePut

BoardNext ==
  \/ \E r \in Reports : ReportBegins(r)
  \/ \E f \in Strays : PrintStray(f)
  \/ PrintNext \/ AnswerId \/ ThreadLogs \/ Restart

LEMMA Written ==
  ASSUME ShapeOK, PrintInv, NEW token \in Tokens, Write(token), Notes(token)
  PROVE  /\ EndsLine(token) =>
              /\ line' = <<>> /\ wire' = Append(wire, Append(line, token))
              /\ whole' = Append(whole, Noted(token))
              /\ Append(line, token) \in Seq(Tokens) /\ Noted(token) \in Tokens
         /\ ~EndsLine(token) =>
              line' = Append(line, token) /\ line' \in Seq(Tokens) /\ UNCHANGED <<wire, whole>>
<1>1. /\ Append(line, token) \in Seq(Tokens) /\ 1 \in 1 .. Len(line) + 1
      /\ Len(Append(line, token)) = Len(line) + 1
  BY Appended, LenProperties DEF ShapeOK
<1>2. Append(line, token)[1] \in Tokens /\ Plain("log") \in Tokens
  <2>1. Append(line, token)[1] \in Tokens
    BY <1>1, ElementOfSeq
  <2> QED
    BY <2>1 DEF Plain, Token, Tokens, Empty
<1>3. Noted(token) \in Tokens
  BY <1>2 DEF Noted
<1> QED
  BY <1>1, <1>3 DEF Write, Notes, Noted

(* A message printed on a line of its own, or a log. *)
LEMMA OwnLine ==
  ASSUME NEW token \in Tokens, Single(token), line = <<>>
  PROVE  Append(line, token) = <<token>> /\ Noted(token) = token
<1>1. Append(line, token) = <<token>>
  OBVIOUS
<1> QED
  BY <1>1 DEF Noted, InOnePiece

LEMMA ReportStep ==
  ASSUME ShapeOK, PrintInv, NEW r \in Reports, ReportBegins(r)
  PROVE  BoardMoves /\ PrintInv'
<1> DEFINE s == [kind |-> "FTM", of |-> r]
           id == Len(sent')
<1>1. /\ sent' = Append(sent, s) /\ toPrint = <<>> /\ line' = line
      /\ UNCHANGED <<wire, whole, idAsked>>
  BY DEF ReportBegins
<1>2. s \in Sends /\ sent \in Seq(Sends) /\ line = <<>>
  BY <1>1 DEF Sends, ShapeOK, PrintInv
<1>3. sent' \in Seq(Sends) /\ id \in Nat /\ sent'[id] = s /\ sent' # <<>>
  BY <1>1, <1>2, Appended, LenProperties, EmptySeq
<1>4. PICK turn \in InTurn(Ranged(r)) :
        toPrint' = RangeTokens(id, r, turn) \o RecordTokens(id, r)
  BY DEF ReportBegins
<1>5. PICK c \in Nat : FullIs(toPrint', c, id, r)
  BY <1>3, <1>4, RangesAndRecord
<1>6. PICK full \in Seq(Tokens) : toPrint' = full
  BY <1>5 DEF FullIs
<1>7. Printing(full, 0)'
  <2>1. line' = <<>> /\ Len(line') = 0 /\ Len(full) \in Nat
    BY <1>1, <1>2, <1>6, LenProperties
  <2>2. \A i \in 1 .. Len(line') : line'[i] = full[0 - Len(line') + i]
    BY <2>1
  <2>3. \A i \in 1 .. Len(toPrint') : toPrint'[i] = full[0 + i]
    BY <1>6
  <2>4. 0 + Len(toPrint') = Len(full) /\ Len(line') <= 0
    BY <1>6, <2>1
  <2> QED
    BY <2>2, <2>3, <2>4 DEF Printing
<1>8. FullIs(full, c, Len(sent'), sent'[Len(sent')].of) /\ sent'[Len(sent')].kind = "FTM"
  BY <1>3, <1>5, <1>6
<1>9. PrintInv'
  <2>1. line' = <<>> /\ \A i \in DOMAIN line' : ~EndsLine(line'[i])
    BY <1>1, <1>2
  <2>2. \E g \in Seq(Tokens), d \in Nat, a \in Nat :
          FullIs(g, d, Len(sent'), sent'[Len(sent')].of) /\ Printing(g, a)'
    BY <1>6, <1>7, <1>8
  <2> QED
    BY <1>3, <1>8, <2>1, <2>2 DEF PrintInv
<1> QED
  BY <1>1, <1>2, <1>3, <1>6, <1>9 DEF BoardMoves, Grown, ShapeOK

LEMMA StrayStep ==
  ASSUME ShapeOK, PrintInv, NEW f \in Strays, PrintStray(f)
  PROVE  BoardMoves /\ PrintInv'
<1> DEFINE s == [kind |-> "stray", of |-> f]
           id == Len(sent')
           token == Token("stray", id, f.ts, f.payload)
<1>1. /\ sent' = Append(sent, s) /\ toPrint = <<>> /\ toPrint' = toPrint
      /\ UNCHANGED idAsked /\ Write(token) /\ Notes(token)
  BY DEF PrintStray
<1>2. s \in Sends /\ sent \in Seq(Sends) /\ line = <<>>
  BY <1>1 DEF Sends, ShapeOK, PrintInv
<1>3. /\ sent' \in Seq(Sends) /\ id \in Nat /\ sent'[id] = s /\ id \in DOMAIN sent'
  BY <1>1, <1>2, Appended, LenProperties
<1>4. f.ts \in Int /\ f.payload \in Nat
  BY ReportsAreTimed DEF Frames
<1>5. token \in Tokens /\ token.kind = "stray" /\ token.id = id
  BY <1>3, <1>4, TokenTyped
<1>6. token = Token("stray", token.id, sent'[token.id].of.ts, sent'[token.id].of.payload)
  BY <1>3, <1>5
<1> HIDE DEF token
<1>7. Single(token) /\ EndsLine(token)
  BY <1>5 DEF Single, EndsLine
<1>8. Append(line, token) = <<token>> /\ Noted(token) = token
  BY <1>2, <1>5, <1>7, OwnLine
<1>9. line' = <<>> /\ wire' = Append(wire, <<token>>) /\ whole' = Append(whole, token)
      /\ <<token>> \in Seq(Tokens)
  BY <1>1, <1>5, <1>7, <1>8, Written
<1>10. SingleOK(sent', token)
  BY <1>3, <1>5, <1>6 DEF SingleOK
<1>11. LinePut
  BY <1>5, <1>9, <1>10 DEF LinePut, LineOK
<1>12. PrintInv'
  BY <1>1, <1>9 DEF PrintInv
<1> QED
  BY <1>1, <1>2, <1>3, <1>9, <1>11, <1>12 DEF BoardMoves, Grown, ShapeOK

LEMMA AnswerStep ==
  ASSUME ShapeOK, PrintInv, AnswerId
  PROVE  BoardMoves /\ PrintInv'
<1> DEFINE token == Plain("MAC")
<1>1. /\ sent' = sent /\ toPrint = <<>> /\ toPrint' = toPrint
      /\ idAsked' = FALSE /\ Write(token) /\ Notes(token) /\ line = <<>>
  BY DEF AnswerId, PrintInv
<1>2. token \in Tokens /\ Single(token) /\ EndsLine(token)
  BY DEF Plain, Token, Tokens, Empty, Single, EndsLine
<1>3. SingleOK(sent', token)
  BY DEF SingleOK
<1> HIDE DEF token
<1>4. Append(line, token) = <<token>> /\ Noted(token) = token
  BY <1>1, <1>2, OwnLine
<1>5. line' = <<>> /\ wire' = Append(wire, <<token>>) /\ whole' = Append(whole, token)
      /\ <<token>> \in Seq(Tokens)
  BY <1>1, <1>2, <1>4, Written
<1>6. LinePut
  BY <1>2, <1>3, <1>5 DEF LinePut, LineOK
<1>7. PrintInv'
  BY <1>1, <1>5 DEF PrintInv
<1> QED
  BY <1>1, <1>5, <1>6, <1>7 DEF BoardMoves, Grown, ShapeOK

LEMMA LogStep ==
  ASSUME ShapeOK, PrintInv, ThreadLogs \/ Restart
  PROVE  BoardMoves /\ PrintInv'
<1> DEFINE token == Plain("log")
<1>1. /\ sent' = sent /\ toPrint' \in {toPrint, <<>>} /\ idAsked' \in {idAsked, FALSE}
      /\ Write(token) /\ Notes(token)
  BY DEF ThreadLogs, Restart
<1>2. token \in Tokens /\ token.kind = "log" /\ EndsLine(token)
  BY DEF Plain, Token, Tokens, Empty, EndsLine
<1>3. ~HasMessage(Append(line, token)) /\ Noted(token) = Plain("log")
  BY <1>2, LogLine DEF Noted
<1> HIDE DEF token
<1>4. /\ line' = <<>> /\ wire' = Append(wire, Append(line, token))
      /\ whole' = Append(whole, Plain("log")) /\ Append(line, token) \in Seq(Tokens)
  BY <1>1, <1>2, <1>3, Written
<1>5. LinePut
  BY <1>2, <1>3, <1>4 DEF LinePut, LineOK, token
<1>6. PrintInv'
  <2>1. CASE toPrint' = <<>>
    BY <1>4, <2>1 DEF PrintInv
  <2>2. CASE toPrint' = toPrint /\ toPrint # <<>>
    <3>1. PICK full \in Seq(Tokens), c \in Nat, a \in Nat :
            FullIs(full, c, Len(sent), sent[Len(sent)].of) /\ Printing(full, a)
      BY <2>2 DEF PrintInv
    <3>2. Len(line') = 0
      BY <1>4
    <3>3. Printing(full, a)'
      BY <2>2, <3>1, <3>2 DEF Printing
    <3>4. \E g \in Seq(Tokens), d \in Nat, b \in Nat :
            FullIs(g, d, Len(sent'), sent'[Len(sent')].of) /\ Printing(g, b)'
      BY <1>1, <3>1, <3>3
    <3>5. sent' # <<>> /\ sent'[Len(sent')].kind = "FTM"
      BY <1>1, <2>2 DEF PrintInv
    <3> QED
      BY <1>4, <2>2, <3>4, <3>5 DEF PrintInv
  <2> QED
    BY <1>1, <2>1, <2>2
<1>7. /\ sent' \in Seq(Sends) /\ toPrint' \in Seq(Tokens) /\ idAsked' \in BOOLEAN
      /\ line' \in Seq(Tokens)
  BY <1>1, <1>4, EmptySeq DEF ShapeOK
<1> QED
  BY <1>1, <1>5, <1>6, <1>7 DEF BoardMoves, Grown

LEMMA NextStep ==
  ASSUME ShapeOK, PrintInv, PrintNext
  PROVE  BoardMoves /\ PrintInv'
<1> DEFINE token == Head(toPrint)
<1>1. /\ sent' = sent /\ toPrint # <<>> /\ toPrint' = Tail(toPrint) /\ UNCHANGED idAsked
      /\ Write(token) /\ Notes(token)
  BY DEF PrintNext
<1>2. /\ toPrint \in Seq(Tokens) /\ token \in Tokens /\ token = toPrint[1]
      /\ toPrint' \in Seq(Tokens) /\ Len(toPrint) \in Nat \ {0}
      /\ Len(toPrint') = Len(toPrint) - 1
      /\ \A i \in 1 .. Len(toPrint) - 1 : toPrint'[i] = toPrint[i + 1]
  BY <1>1, HeadAndTail DEF ShapeOK
<1>3. EndsLine(token) => LineOK(sent, Append(line, token), Noted(token))
  BY <1>1, LineEnds
<1>4. PICK full \in Seq(Tokens), c \in Nat, a \in Nat :
        FullIs(full, c, Len(sent), sent[Len(sent)].of) /\ Printing(full, a)
  BY <1>1 DEF PrintInv
<1> HIDE DEF token
<1>5. /\ EndsLine(token) =>
           /\ line' = <<>> /\ wire' = Append(wire, Append(line, token))
           /\ whole' = Append(whole, Noted(token))
           /\ Append(line, token) \in Seq(Tokens) /\ Noted(token) \in Tokens
      /\ ~EndsLine(token) =>
           line' = Append(line, token) /\ line' \in Seq(Tokens) /\ UNCHANGED <<wire, whole>>
  BY <1>1, <1>2, Written
<1>6. UNCHANGED <<wire, whole>> \/ LinePut
  BY <1>1, <1>3, <1>5 DEF LinePut
<1>7. \A i \in DOMAIN line' : ~EndsLine(line'[i])
  <2>1. CASE EndsLine(token)
    BY <1>5, <2>1
  <2>2. CASE ~EndsLine(token)
    <3>1. /\ DOMAIN Append(line, token) = 1 .. Len(line) + 1 /\ Len(line) \in Nat
          /\ \A i \in 1 .. Len(line) : Append(line, token)[i] = line[i]
          /\ Append(line, token)[Len(line) + 1] = token
      BY <1>2, QuietLine
    <3>2. DOMAIN line = 1 .. Len(line)
      BY LenProperties DEF ShapeOK
    <3>3. \A i \in 1 .. Len(line) + 1 : i \in 1 .. Len(line) \/ i = Len(line) + 1
      BY <3>1
    <3> QED
      BY <1>5, <2>2, <3>1, <3>2, <3>3 DEF PrintInv
  <2> QED
    BY <2>1, <2>2
<1>8. token = full[a + 1] /\ a + 1 \in 1 .. Len(full) /\ Len(full) \in Nat
  <2>1. a + Len(toPrint) = Len(full) /\ toPrint[1] = full[a + 1]
    BY <1>2, <1>4 DEF Printing
  <2> QED
    BY <1>2, <2>1
<1>9. Printing(full, a + 1)'
  <2> DEFINE L == Len(line)
             T == Len(toPrint)
  <2>1. L \in Nat /\ T \in Nat \ {0} /\ Len(toPrint') = T - 1
    BY <1>2, LenProperties DEF ShapeOK
  <2>2. /\ a + T = Len(full) /\ L <= a
        /\ \A i \in 1 .. L : line[i] = full[a - L + i]
        /\ \A i \in 1 .. T : toPrint[i] = full[a + i]
    BY <1>4 DEF Printing
  <2>3. \A i \in 1 .. T - 1 : toPrint'[i] = toPrint[i + 1]
    BY <1>2
  <2>4. /\ \A i \in 1 .. L : Append(line, token)[i] = line[i]
        /\ Append(line, token)[L + 1] = token /\ Len(Append(line, token)) = L + 1
    BY <1>2, Appended DEF ShapeOK
  <2> HIDE DEF L, T
  <2>5. a + 1 \in Nat /\ (a + 1) + (T - 1) = Len(full)
    BY <2>1, <2>2
  <2>6. \A i \in 1 .. T - 1 : toPrint'[i] = full[(a + 1) + i]
    <3>1. SUFFICES ASSUME NEW i \in 1 .. T - 1 PROVE toPrint'[i] = full[(a + 1) + i]
      OBVIOUS
    <3>2. i + 1 \in 1 .. T /\ a + (i + 1) = (a + 1) + i
      BY <2>1
    <3> QED
      BY <2>2, <2>3, <3>2
  <2>7. /\ Len(line') <= a + 1
        /\ \A i \in 1 .. Len(line') : line'[i] = full[(a + 1) - Len(line') + i]
    <3>1. CASE EndsLine(token)
      <4>1. Len(line') = 0
        BY <1>5, <3>1
      <4> QED
        BY <4>1
    <3>2. CASE ~EndsLine(token)
      <4>1. line' = Append(line, token) /\ Len(line') = L + 1
        BY <1>5, <2>4, <3>2
      <4>2. \A i \in 1 .. L + 1 : Append(line, token)[i] = full[(a + 1) - (L + 1) + i]
        <5>1. SUFFICES ASSUME NEW i \in 1 .. L + 1
                       PROVE  Append(line, token)[i] = full[(a + 1) - (L + 1) + i]
          OBVIOUS
        <5>2. CASE i = L + 1
          <6>1. (a + 1) - (L + 1) + i = a + 1
            BY <2>1, <5>2
          <6> QED
            BY <1>8, <2>4, <5>2, <6>1
        <5>3. CASE i \in 1 .. L
          <6>1. (a + 1) - (L + 1) + i = a - L + i
            BY <2>1, <5>3
          <6> QED
            BY <2>2, <2>4, <5>3, <6>1
        <5>4. i \in 1 .. L \/ i = L + 1
          BY <2>1
        <5> QED
          BY <5>2, <5>3, <5>4
      <4> QED
        BY <2>1, <2>2, <4>1, <4>2
    <3> QED
      BY <3>1, <3>2
  <2> QED
    BY <2>1, <2>5, <2>6, <2>7 DEF Printing
<1>10. toPrint' = <<>> => line' = <<>>
  <2>1. SUFFICES ASSUME toPrint' = <<>> PROVE EndsLine(token)
    BY <1>5
  <2> DEFINE id == Len(sent)
             r == sent[id].of
             rec == RecordTokens(id, r)
  <2>2. id \in Nat /\ r \in Reports
    <3>1. sent \in Seq(Sends) /\ sent # <<>> /\ sent[id].kind = "FTM"
      BY <1>1 DEF ShapeOK, PrintInv
    <3>2. id \in Nat \ {0}
      BY <3>1, EmptySeq, LenProperties
    <3>3. sent[id] \in Sends
      BY <3>1, <3>2, ElementOfSeq
    <3> QED
      BY <3>1, <3>2, <3>3 DEF Sends
  <2>3. PICK m, q : KindsAre(rec, m, q)
    BY <2>2, RecordShape, RecordKinds, SMTT(60)
  <2> HIDE DEF rec
  <2>4. Len(rec) \in Nat \ {0} /\ rec[Len(rec)].kind = "end"
    BY <2>3 DEF KindsAre
  <2>5. Len(full) = c + Len(rec) /\ full[c + Len(rec)] = rec[Len(rec)]
    BY <1>4, <2>4 DEF FullIs, rec
  <2>6. a + 1 = Len(full)
    <3>1. Len(toPrint') = 0
      BY <2>1
    <3>2. a + Len(toPrint) = Len(full)
      BY <1>4 DEF Printing
    <3>3. Len(toPrint) = 1
      BY <1>2, <3>1
    <3> QED
      BY <3>2, <3>3
  <2> QED
    BY <1>8, <2>4, <2>5, <2>6 DEF EndsLine
<1>11. PrintInv'
  <2>1. toPrint' # <<>> => /\ sent' # <<>> /\ sent'[Len(sent')].kind = "FTM"
                           /\ \E g \in Seq(Tokens), d \in Nat, b \in Nat :
                                /\ FullIs(g, d, Len(sent'), sent'[Len(sent')].of)
                                /\ Printing(g, b)'
    <3>1. sent' # <<>> /\ sent'[Len(sent')].kind = "FTM"
      BY <1>1 DEF PrintInv
    <3>2. FullIs(full, c, Len(sent'), sent'[Len(sent')].of) /\ a + 1 \in Nat
      BY <1>1, <1>4
    <3> QED
      BY <1>9, <3>1, <3>2
  <2> QED
    BY <1>7, <1>10, <2>1 DEF PrintInv
<1> QED
  BY <1>1, <1>2, <1>5, <1>6, <1>11, EmptySeq DEF BoardMoves, Grown, ShapeOK

LEMMA BoardStep ==
  ASSUME ShapeOK, PrintInv, BoardNext
  PROVE  BoardMoves /\ PrintInv' /\ UNCHANGED hostVars
<1>1. UNCHANGED hostVars
  BY Zenon DEF BoardNext, ReportBegins, PrintStray, PrintNext, AnswerId, ThreadLogs, Restart
<1> QED
  BY <1>1, ReportStep, StrayStep, NextStep, AnswerStep, LogStep DEF BoardNext

-----------------------------------------------------------------------------
(* What the host finds on a line. *)
Made(of, w, e) ==
  /\ e.kind = w.kind /\ e.id = w.id
  /\ \/ /\ w.kind = "FTM" /\ w.id \in DOMAIN of /\ of[w.id].kind = "FTM"
        /\ Faithful(e, of[w.id].of)
     \/ /\ w.kind \in {"RANGE", "stray"} /\ SingleOK(of, w)
        /\ e.reports = <<[t2 |-> w.t, payload |-> w.payload]>>

Filed == [t2 : Int, payload : Nat]
EventSet == [kind : {"FTM", "RANGE", "stray"}, id : Nat,
             reports : UNION {[S -> Filed] : S \in SUBSET Nat}]

LEMMA SentIs ==
  ASSUME NEW of \in Seq(Sends), NEW id \in DOMAIN of
  PROVE  /\ id \in Nat \ {0} /\ of[id].kind \in {"FTM", "stray"}
         /\ of[id].kind = "FTM" => of[id].of \in Reports
         /\ of[id].kind = "stray" => of[id].of \in Strays
<1>1. id \in 1 .. Len(of) /\ Len(of) \in Nat
  BY LenProperties
<1>2. of[id] \in Sends
  BY <1>1, ElementOfSeq
<1> QED
  BY <1>1, <1>2 DEF Sends

LEMMA SinglesAre ==
  ASSUME NEW of \in Seq(Sends), NEW w, SingleOK(of, w)
  PROVE  w \in Tokens /\ Single(w) /\ w.kind \in {"MAC", "stray", "RANGE"}
<1>1. CASE w = Plain("MAC")
  BY <1>1 DEF Plain, Token, Tokens, Empty, Single
<1>2. CASE /\ w.id \in DOMAIN of /\ of[w.id].kind = "stray"
           /\ w = Token("stray", w.id, of[w.id].of.ts, of[w.id].of.payload)
  <2>1. w.id \in Nat /\ of[w.id].of \in Strays
    BY <1>2, SentIs
  <2>2. of[w.id].of.ts \in Int /\ of[w.id].of.payload \in Nat
    BY <2>1, ReportsAreTimed DEF Frames
  <2>3. \A i \in Nat, t \in Int, p \in Nat :
          Token("stray", i, t, p) \in Tokens /\ Token("stray", i, t, p).kind = "stray"
    BY DEF Token, Tokens
  <2>4. w \in Tokens /\ w.kind = "stray"
    BY <1>2, <2>1, <2>2, <2>3
  <2> QED
    BY <2>4 DEF Single
<1>3. CASE /\ w.id \in DOMAIN of /\ of[w.id].kind = "FTM"
           /\ RangeOf(of[w.id].of, w.id, w)
  <2>1. w.id \in Nat /\ of[w.id].of \in Reports
    BY <1>3, SentIs
  <2>2. w \in Tokens /\ w.kind = "RANGE"
    BY <1>3, <2>1, RangeTyped
  <2> QED
    BY <2>2 DEF Single
<1> QED
  BY <1>1, <1>2, <1>3 DEF SingleOK

(* What a line with note w is to the reader. *)
Reads(of, text, w) ==
  /\ HasMessage(text) <=> w.kind # "log"
  /\ HasMessage(text) => Fields(text)[1] = w
  /\ w.kind \in {"log", "MAC", "stray", "RANGE", "FTM"}
  /\ w.kind \in {"MAC", "stray", "RANGE"} => SingleOK(of, w)
  /\ w.kind = "FTM" => /\ w.id \in DOMAIN of /\ of[w.id].kind = "FTM"
                       /\ FtmDecodes(Fields(text)) <=> of[w.id].of.entries # <<>>
  /\ w.kind = "FTM" /\ of[w.id].of.entries # <<>> =>
       /\ ParseFtm(Fields(text)).kind = "FTM" /\ ParseFtm(Fields(text)).id = w.id
       /\ Faithful(ParseFtm(Fields(text)), of[w.id].of)

LEMMA RecordRead ==
  ASSUME NEW of \in Seq(Sends), NEW text, NEW w \in Tokens,
         w.id \in DOMAIN of, of[w.id].kind = "FTM", of[w.id].of.frames # <<>>,
         w = Token("FTM", w.id, 0, Empty), text = RecordTokens(w.id, of[w.id].of)
  PROVE  Reads(of, text, w)
<1> DEFINE r == of[w.id].of
           m == Len(r.entries)
           q == Len(r.frames)
<1>1. w.id \in Nat /\ r \in Reports /\ r.frames # <<>>
  BY SentIs
<1>2. /\ q # 0 /\ m \in Nat /\ q \in Nat /\ (m = 0 <=> r.entries = <<>>)
  BY <1>1, Reported, EmptySeq
<1>3. RecordIs(text, w.id, r, m, q)
  BY <1>1, RecordShape
<1>4. text = RecordTokens(w.id, r)
  OBVIOUS
<1>5. w.kind = "FTM"
  <2>1. Token("FTM", w.id, 0, Empty).kind = "FTM"
    BY DEF Token
  <2> QED
    BY <2>1
<1> HIDE DEF m, q
<1>6. KindsAre(text, m, q)
  BY <1>3, RecordKinds
<1>7. /\ HasMessage(text) /\ Fields(text) \in Seq(Tokens) /\ Len(Fields(text)) = m + q + 2
      /\ \A n \in 1 .. m + q + 2 : Fields(text)[n] = text[n]
  BY <1>2, <1>6, RecordLine
<1>8. Fields(text)[1] = w
  <2>1. 1 \in 1 .. m + q + 2
    BY <1>2
  <2>2. text[1] = Token("FTM", w.id, 0, Empty)
    BY <1>3 DEF RecordIs
  <2> QED
    BY <1>7, <2>1, <2>2
<1>9. r.entries = <<>> => ~FtmDecodes(Fields(text))
  BY <1>2, <1>6, <1>7, EmptyRecordRefused
<1>10. r.entries # <<>> =>
         /\ FtmDecodes(Fields(text))
         /\ ParseFtm(Fields(text)).kind = "FTM" /\ ParseFtm(Fields(text)).id = w.id
         /\ Faithful(ParseFtm(Fields(text)), r)
  <2>1. SUFFICES ASSUME r.entries # <<>>
                 PROVE  /\ FtmDecodes(Fields(text))
                        /\ ParseFtm(Fields(text)).kind = "FTM"
                        /\ ParseFtm(Fields(text)).id = w.id
                        /\ Faithful(ParseFtm(Fields(text)), r)
    OBVIOUS
  <2>2. LET fields == Fields(RecordTokens(w.id, r))
        IN  /\ FtmDecodes(fields) /\ fields[1] = Token("FTM", w.id, 0, Empty)
            /\ ParseFtm(fields).kind = "FTM" /\ ParseFtm(fields).id = w.id
            /\ Faithful(ParseFtm(fields), r)
    BY <1>1, <2>1, RecordParsed
  <2> QED
    BY <1>4, <2>2, Zenon
<1> QED
  BY <1>5, <1>7, <1>8, <1>9, <1>10, Zenon DEF Reads, r

LEMMA LineRead ==
  ASSUME NEW of \in Seq(Sends), NEW text, NEW w \in Tokens, LineOK(of, text, w)
  PROVE  Reads(of, text, w)
<1>1. CASE ~HasMessage(text) /\ w = Plain("log")
  <2>1. w.kind = "log"
    BY <1>1 DEF Plain, Token
  <2> QED
    BY <1>1, <2>1 DEF Reads
<1>2. CASE text = <<w>> /\ SingleOK(of, w)
  <2>1. Single(w) /\ w.kind \in {"MAC", "stray", "RANGE"}
    BY <1>2, SinglesAre
  <2>2. HasMessage(text) /\ Fields(text) = <<w>>
    BY <1>2, <2>1, SingleLine
  <2>3. Fields(text)[1] = w
    BY <2>2
  <2> QED
    BY <1>2, <2>1, <2>2, <2>3 DEF Reads
<1> QED
  BY <1>1, <1>2, RecordRead DEF LineOK

LEMMA FaithfulTyped ==
  ASSUME NEW r \in Reports, NEW e, Faithful(e, r)
  PROVE  e.reports \in UNION {[S -> Filed] : S \in SUBSET Nat}
<1> DEFINE S == {i \in 1 .. Len(r.entries) - 1 : PayloadOf(r, i + 1) # Empty}
<1>1. e.reports = [i \in S |-> [t2 |-> r.entries[i + 1], payload |-> PayloadOf(r, i + 1)]]
  BY DEF Faithful
<1>2. S \in SUBSET Nat
  OBVIOUS
<1>3. \A i \in S : r.entries[i + 1] \in Int /\ PayloadOf(r, i + 1) \in Nat
  <2>1. SUFFICES ASSUME NEW i \in S PROVE r.entries[i + 1] \in Int /\ PayloadOf(r, i + 1) \in Nat
    OBVIOUS
  <2>2. Len(r.entries) \in Nat /\ DOMAIN r.entries = 1 .. Len(r.entries)
    BY Reported
  <2>3. i + 1 \in DOMAIN r.entries /\ i + 1 \in Int
    BY <2>2
  <2> QED
    BY <2>3, Reported, PayloadTyped
<1> HIDE DEF S
<1>4. e.reports \in [S -> Filed]
  BY <1>1, <1>3 DEF Filed
<1> QED
  BY <1>2, <1>4

(* The event made of a line. *)
LEMMA LineEvent ==
  ASSUME NEW of \in Seq(Sends), NEW text, NEW w \in Tokens, Reads(of, text, w),
         w.kind \in {"FTM", "RANGE", "stray"},
         w.kind = "FTM" => of[w.id].of.entries # <<>>
  PROVE  EventIn(text) \in EventSet /\ Made(of, w, EventIn(text))
<1>1. Fields(text)[1] = w
  BY DEF Reads
<1>2. w.id \in Nat /\ w.t \in Int /\ w.payload \in Nat
  BY DEF Tokens
<1>3. CASE w.kind = "FTM"
  <2> DEFINE e == ParseFtm(Fields(text))
  <2>1. EventIn(text) = e
    BY <1>1, <1>3 DEF EventIn
  <2>2. /\ e.kind = "FTM" /\ e.id = w.id /\ Faithful(e, of[w.id].of)
        /\ w.id \in DOMAIN of /\ of[w.id].kind = "FTM"
    BY <1>3 DEF Reads
  <2>3. of[w.id].of \in Reports
    BY <2>2, SentIs
  <2>4. e.reports \in UNION {[S -> Filed] : S \in SUBSET Nat}
    BY <2>2, <2>3, FaithfulTyped
  <2>5. e = [kind |-> e.kind, id |-> e.id, reports |-> e.reports]
    BY DEF ParseFtm
  <2> HIDE DEF e
  <2>6. e \in EventSet
    BY <1>2, <2>2, <2>4, <2>5 DEF EventSet
  <2> QED
    BY <1>3, <2>1, <2>2, <2>6 DEF Made
<1>4. CASE w.kind \in {"RANGE", "stray"}
  <2> DEFINE f == [t2 |-> w.t, payload |-> w.payload]
  <2>1. EventIn(text) = [kind |-> w.kind, id |-> w.id, reports |-> <<f>>]
    BY <1>1, <1>4 DEF EventIn, ParseSingle
  <2>2. f \in Filed
    BY <1>2 DEF Filed
  <2>3. <<f>> \in [1 .. 1 -> Filed] /\ 1 .. 1 \in SUBSET Nat
    BY <2>2
  <2>4. SingleOK(of, w)
    BY <1>4 DEF Reads
  <2> HIDE DEF f
  <2>5. EventIn(text) \in EventSet
    <3>1. PICK reports : reports = <<f>>
      OBVIOUS
    <3>2. reports \in UNION {[S -> Filed] : S \in SUBSET Nat}
      BY <2>3, <3>1
    <3>3. [kind |-> w.kind, id |-> w.id, reports |-> reports] \in EventSet
      BY <1>2, <1>4, <3>2 DEF EventSet
    <3> QED
      BY <2>1, <3>1, <3>3
  <2>6. Made(of, w, EventIn(text))
    BY <1>4, <2>1, <2>4 DEF Made, f
  <2> QED
    BY <2>5, <2>6
<1> QED
  BY <1>3, <1>4

-----------------------------------------------------------------------------
(* What has been sent only grows, and what was said of it stays true.        *)
LEMMA GrownIs ==
  ASSUME NEW of \in Seq(Sends), NEW more, Grown(of, more)
  PROVE  /\ more \in Seq(Sends)
         /\ \A id \in DOMAIN of : id \in DOMAIN more /\ more[id] = of[id]
<1>1. CASE more = of
  BY <1>1
<1>2. ASSUME NEW s \in Sends, more = Append(of, s)
      PROVE  /\ more \in Seq(Sends)
             /\ \A id \in DOMAIN of : id \in DOMAIN more /\ more[id] = of[id]
  <2>1. /\ more \in Seq(Sends) /\ Len(more) = Len(of) + 1
        /\ \A i \in 1 .. Len(of) : more[i] = of[i]
    BY <1>2, Appended
  <2>2. DOMAIN of = 1 .. Len(of) /\ Len(of) \in Nat /\ DOMAIN more = 1 .. Len(of) + 1
    BY <2>1, LenProperties
  <2> QED
    BY <2>1, <2>2
<1> QED
  BY <1>1, <1>2 DEF Grown

LEMMA SingleGrows ==
  ASSUME NEW of \in Seq(Sends), NEW more, Grown(of, more), NEW w, SingleOK(of, w)
  PROVE  SingleOK(more, w)
<1>1. \A id \in DOMAIN of : id \in DOMAIN more /\ more[id] = of[id]
  BY GrownIs
<1> QED
  BY <1>1 DEF SingleOK

LEMMA LineGrows ==
  ASSUME NEW of \in Seq(Sends), NEW more, Grown(of, more), NEW text, NEW w,
         LineOK(of, text, w)
  PROVE  LineOK(more, text, w)
<1>1. \A id \in DOMAIN of : id \in DOMAIN more /\ more[id] = of[id]
  BY GrownIs
<1> QED
  BY <1>1, SingleGrows DEF LineOK

LEMMA MadeGrows ==
  ASSUME NEW of \in Seq(Sends), NEW more, Grown(of, more), NEW w, NEW e, Made(of, w, e)
  PROVE  Made(more, w, e)
<1>1. \A id \in DOMAIN of : id \in DOMAIN more /\ more[id] = of[id]
  BY GrownIs
<1> QED
  BY <1>1, SingleGrows DEF Made

-----------------------------------------------------------------------------
(* The lines on the wire and the notes of all lines.                         *)
WireInv == \A n \in 1 .. Len(wire) : LineOK(sent, wire[n], whole[LinesTaken + n])

WholeInv == \A n \in 1 .. Len(whole) : whole[n].kind = "FTM" => whole[n].id \in DOMAIN sent

GateInv == macKnown <=> \E k \in 1 .. LinesTaken : whole[k].kind = "MAC"

Took == wire # <<>> /\ wire' = Tail(wire) /\ whole' = whole /\ sent' = sent

LineMoves == Grown(sent, sent') /\ (UNCHANGED <<wire, whole>> \/ LinePut \/ Took)

LEMMA WireLengths ==
  ASSUME ShapeOK
  PROVE  /\ Len(wire) \in Nat /\ Len(whole) \in Nat /\ Len(wire) <= Len(whole)
         /\ LinesTaken \in Nat /\ LinesTaken + Len(wire) = Len(whole)
<1>1. Len(wire) \in Nat /\ Len(whole) \in Nat /\ Len(wire) <= Len(whole)
  BY LenProperties DEF ShapeOK
<1> QED
  BY <1>1 DEF LinesTaken

LEMMA PutLengths ==
  ASSUME ShapeOK, NEW text \in Seq(Tokens), NEW w \in Tokens,
         wire' = Append(wire, text), whole' = Append(whole, w)
  PROVE  /\ wire' \in Seq(Seq(Tokens)) /\ Len(wire') = Len(wire) + 1
         /\ \A n \in 1 .. Len(wire) : wire'[n] = wire[n]
         /\ wire'[Len(wire) + 1] = text
         /\ whole' \in Seq(Tokens) /\ Len(whole') = Len(whole) + 1
         /\ \A n \in 1 .. Len(whole) : whole'[n] = whole[n]
         /\ whole'[Len(whole) + 1] = w
         /\ LinesTaken' = LinesTaken
<1>1. /\ wire' \in Seq(Seq(Tokens)) /\ Len(wire') = Len(wire) + 1
      /\ \A n \in 1 .. Len(wire) : wire'[n] = wire[n]
      /\ wire'[Len(wire) + 1] = text
  BY Appended DEF ShapeOK
<1>2. /\ whole' \in Seq(Tokens) /\ Len(whole') = Len(whole) + 1
      /\ \A n \in 1 .. Len(whole) : whole'[n] = whole[n]
      /\ whole'[Len(whole) + 1] = w
  BY Appended DEF ShapeOK
<1>3. Len(wire) \in Nat /\ Len(whole) \in Nat
  BY WireLengths
<1>4. LinesTaken' = LinesTaken
  BY <1>1, <1>2, <1>3 DEF LinesTaken
<1> QED
  BY <1>1, <1>2, <1>4

LEMMA TookLengths ==
  ASSUME ShapeOK, Took
  PROVE  /\ wire' \in Seq(Seq(Tokens)) /\ Len(wire') = Len(wire) - 1
         /\ \A n \in 1 .. Len(wire) - 1 : wire'[n] = wire[n + 1]
         /\ Head(wire) = wire[1] /\ Len(wire) \in Nat \ {0}
         /\ LinesTaken' = LinesTaken + 1 /\ LinesTaken + 1 \in 1 .. Len(whole)
<1>1. /\ wire' \in Seq(Seq(Tokens)) /\ Len(wire') = Len(wire) - 1
      /\ \A n \in 1 .. Len(wire) - 1 : wire'[n] = wire[n + 1]
      /\ Head(wire) = wire[1] /\ Len(wire) \in Nat \ {0}
  BY HeadAndTail DEF ShapeOK, Took
<1>2. Len(whole) \in Nat /\ Len(wire) <= Len(whole) /\ whole' = whole
  BY WireLengths DEF Took
<1>3. LinesTaken' = LinesTaken + 1 /\ LinesTaken + 1 \in 1 .. Len(whole)
  BY <1>1, <1>2 DEF LinesTaken
<1> QED
  BY <1>1, <1>3

LEMMA WireStep ==
  ASSUME ShapeOK, WireInv, LineMoves
  PROVE  WireInv'
<1>1. sent \in Seq(Sends) /\ Grown(sent, sent')
  BY DEF ShapeOK, LineMoves
<1>2. Len(wire) \in Nat /\ Len(whole) \in Nat /\ LinesTaken \in Nat
      /\ LinesTaken + Len(wire) = Len(whole)
  BY WireLengths
<1>3. \A n \in 1 .. Len(wire) : LineOK(sent', wire[n], whole[LinesTaken + n])
  BY <1>1, LineGrows DEF WireInv
<1>4. CASE UNCHANGED <<wire, whole>>
  BY <1>3, <1>4 DEF WireInv, LinesTaken
<1>5. ASSUME NEW text \in Seq(Tokens), NEW w \in Tokens,
             wire' = Append(wire, text), whole' = Append(whole, w),
             LineOK(sent', text, w)
      PROVE  WireInv'
  <2>1. /\ Len(wire') = Len(wire) + 1 /\ LinesTaken' = LinesTaken
        /\ \A n \in 1 .. Len(wire) : wire'[n] = wire[n]
        /\ wire'[Len(wire) + 1] = text
        /\ \A n \in 1 .. Len(whole) : whole'[n] = whole[n]
        /\ whole'[Len(whole) + 1] = w
    BY <1>5, PutLengths
  <2>2. SUFFICES ASSUME NEW n \in 1 .. Len(wire) + 1
                 PROVE  LineOK(sent', wire'[n], whole'[LinesTaken + n])
    BY <2>1 DEF WireInv
  <2>3. CASE n \in 1 .. Len(wire)
    <3>1. LinesTaken + n \in 1 .. Len(whole)
      BY <1>2, <2>3
    <3> QED
      BY <1>3, <2>1, <2>3, <3>1
  <2>4. CASE n = Len(wire) + 1
    <3>1. LinesTaken + n = Len(whole) + 1
      BY <1>2, <2>4
    <3> QED
      BY <1>5, <2>1, <2>4, <3>1
  <2>5. n \in 1 .. Len(wire) \/ n = Len(wire) + 1
    BY <1>2
  <2> QED
    BY <2>3, <2>4, <2>5
<1>6. CASE Took
  <2>1. /\ Len(wire') = Len(wire) - 1 /\ LinesTaken' = LinesTaken + 1
        /\ \A n \in 1 .. Len(wire) - 1 : wire'[n] = wire[n + 1]
    BY <1>6, TookLengths
  <2>2. whole' = whole
    BY <1>6 DEF Took
  <2>3. SUFFICES ASSUME NEW n \in 1 .. Len(wire) - 1
                 PROVE  LineOK(sent', wire[n + 1], whole[LinesTaken + 1 + n])
    BY <2>1, <2>2 DEF WireInv
  <2>4. n + 1 \in 1 .. Len(wire) /\ LinesTaken + (n + 1) = LinesTaken + 1 + n
    BY <1>2
  <2>5. LineOK(sent', wire[n + 1], whole[LinesTaken + (n + 1)])
    BY <1>3, <2>4
  <2> QED
    BY <2>4, <2>5
<1> QED
  BY <1>4, <1>5, <1>6 DEF LineMoves, LinePut

LEMMA WholeStep ==
  ASSUME ShapeOK, WholeInv, LineMoves
  PROVE  WholeInv'
<1>1. sent \in Seq(Sends) /\ Grown(sent, sent')
  BY DEF ShapeOK, LineMoves
<1>2. \A n \in 1 .. Len(whole) : whole[n].kind = "FTM" => whole[n].id \in DOMAIN sent'
  BY <1>1, GrownIs DEF WholeInv
<1>3. CASE UNCHANGED whole
  BY <1>2, <1>3 DEF WholeInv
<1>4. ASSUME NEW text \in Seq(Tokens), NEW w \in Tokens,
             wire' = Append(wire, text), whole' = Append(whole, w),
             LineOK(sent', text, w)
      PROVE  WholeInv'
  <2>1. /\ Len(whole') = Len(whole) + 1 /\ \A n \in 1 .. Len(whole) : whole'[n] = whole[n]
        /\ whole'[Len(whole) + 1] = w /\ Len(whole) \in Nat
    BY <1>4, PutLengths, WireLengths
  <2>2. w.kind = "FTM" => w.id \in DOMAIN sent'
    BY <1>1, <1>4, GrownIs, LineRead DEF Reads
  <2>3. \A n \in 1 .. Len(whole) + 1 : n \in 1 .. Len(whole) \/ n = Len(whole) + 1
    BY <2>1
  <2> QED
    BY <1>2, <2>1, <2>2, <2>3 DEF WholeInv
<1> QED
  BY <1>3, <1>4 DEF LineMoves, LinePut, Took

-----------------------------------------------------------------------------
(* What is due, with what was sent and the notes as parameters.              *)
Due(of, notes, n) ==
  /\ notes[n].kind \in {"FTM", "RANGE", "stray"}
  /\ \E k \in 1 .. n - 1 : notes[k].kind = "MAC"
  /\ notes[n].kind = "FTM" => of[notes[n].id].of.entries # <<>>

DueSet(of, notes, n) == {k \in 1 .. n : Due(of, notes, k)}

LEMMA DueIs ==
  /\ \A n : IsDue(n) <=> Due(sent, whole, n)
  /\ \A n : DueUpTo(n) = Cardinality(DueSet(sent, whole, n))
<1>1. \A n : IsDue(n) <=> Due(sent, whole, n)
  BY DEF IsDue, Due
<1> QED
  BY <1>1 DEF DueUpTo, DueSet

LEMMA DueCounted ==
  ASSUME NEW of, NEW notes, NEW n \in Nat
  PROVE  /\ IsFiniteSet(DueSet(of, notes, n)) /\ Cardinality(DueSet(of, notes, n)) \in Nat
         /\ Cardinality(DueSet(of, notes, 0)) = 0
         /\ Cardinality(DueSet(of, notes, n + 1)) =
              IF Due(of, notes, n + 1) THEN Cardinality(DueSet(of, notes, n)) + 1
                                       ELSE Cardinality(DueSet(of, notes, n))
<1> DEFINE S == DueSet(of, notes, n)
           T == DueSet(of, notes, n + 1)
<1>1. S \in SUBSET (1 .. n) /\ n + 1 \notin S
  BY DEF DueSet
<1>2. IsFiniteSet(1 .. n)
  BY FS_Interval
<1>3. IsFiniteSet(S)
  BY <1>1, <1>2, FS_Subset
<1>4. Cardinality(S) \in Nat
  BY <1>3, FS_CardinalityType
<1>5. DueSet(of, notes, 0) = {}
  BY DEF DueSet
<1>6. Cardinality(DueSet(of, notes, 0)) = 0
  BY <1>5, FS_EmptySet
<1>7. 1 .. n + 1 = (1 .. n) \cup {n + 1}
  OBVIOUS
<1>8. CASE Due(of, notes, n + 1)
  <2>1. T = S \cup {n + 1}
    BY <1>7, <1>8 DEF DueSet
  <2> HIDE DEF S, T
  <2>2. Cardinality(T) = Cardinality(S) + 1
    BY <1>1, <1>3, <2>1, FS_AddElement
  <2> QED
    BY <1>3, <1>4, <1>6, <1>8, <2>2 DEF S, T
<1>9. CASE ~Due(of, notes, n + 1)
  <2>1. T = S
    BY <1>7, <1>9 DEF DueSet
  <2> QED
    BY <1>3, <1>4, <1>6, <1>9, <2>1
<1> QED
  BY <1>8, <1>9

(* A due line has a rank, and an earlier one no greater than a later.        *)
LEMMA DueRank ==
  ASSUME NEW of, NEW notes, NEW n \in Nat, NEW k \in 1 .. n, Due(of, notes, k)
  PROVE  Cardinality(DueSet(of, notes, k)) \in 1 .. Cardinality(DueSet(of, notes, n))
<1> DEFINE S == DueSet(of, notes, k)
           T == DueSet(of, notes, n)
<1>1. IsFiniteSet(T) /\ Cardinality(T) \in Nat /\ IsFiniteSet(S) /\ Cardinality(S) \in Nat
  <2>1. k \in Nat
    OBVIOUS
  <2> QED
    BY <2>1, DueCounted
<1>2. S \in SUBSET T /\ k \in S
  BY DEF DueSet
<1> HIDE DEF S, T
<1>3. Cardinality(S) <= Cardinality(T)
  BY <1>1, <1>2, FS_Subset
<1>4. Cardinality(S) # 0
  BY <1>1, <1>2, FS_EmptySet
<1> QED
  BY <1>1, <1>3, <1>4 DEF S, T

(* What is due stays due when more is sent and more lines are put.           *)
LEMMA DueKept ==
  ASSUME ShapeOK, WholeInv, LineMoves, NEW n \in 1 .. Len(whole)
  PROVE  Due(sent', whole', n) <=> Due(sent, whole, n)
<1>1. \A k \in 1 .. Len(whole) : whole'[k] = whole[k]
  BY PutLengths DEF LineMoves, LinePut, Took
<1>2. whole[n].kind = "FTM" =>
        whole[n].id \in DOMAIN sent /\ sent'[whole[n].id] = sent[whole[n].id]
  BY GrownIs DEF WholeInv, ShapeOK, LineMoves
<1>3. \A k \in 1 .. n - 1 : k \in 1 .. Len(whole)
  BY WireLengths
<1> QED
  BY <1>1, <1>2, <1>3 DEF Due

LEMMA DueSetKept ==
  ASSUME ShapeOK, WholeInv, LineMoves, NEW n \in 0 .. Len(whole)
  PROVE  DueSet(sent', whole', n) = DueSet(sent, whole, n)
<1>1. \A k \in 1 .. n : k \in 1 .. Len(whole)
  BY WireLengths
<1> QED
  BY <1>1, DueKept DEF DueSet

(* The line the reader is at. *)
LEMMA HeadRead ==
  ASSUME ShapeOK, WireInv, wire # <<>>
  PROVE  /\ Reads(sent, Head(wire), whole[LinesTaken + 1])
         /\ whole[LinesTaken + 1] \in Tokens
         /\ IsMac(Head(wire)) <=> whole[LinesTaken + 1].kind = "MAC"
<1> DEFINE w == whole[LinesTaken + 1]
<1>1. Head(wire) = wire[1] /\ Len(wire) \in Nat \ {0}
  BY HeadAndTail DEF ShapeOK
<1>2. w \in Tokens
  <2>1. LinesTaken + 1 \in 1 .. Len(whole)
    BY <1>1, WireLengths
  <2> QED
    BY <2>1, ElementOfSeq DEF ShapeOK
<1>3. 1 \in 1 .. Len(wire)
  BY <1>1
<1>4. LineOK(sent, Head(wire), w)
  BY <1>1, <1>3 DEF WireInv
<1> HIDE DEF w
<1>5. Reads(sent, Head(wire), w)
  BY <1>2, <1>4, LineRead DEF ShapeOK
<1>6. IsMac(Head(wire)) <=> w.kind = "MAC"
  BY <1>5 DEF IsMac, Reads
<1> QED
  BY <1>2, <1>5, <1>6 DEF w

(* The reader has an event for the controller exactly at a line that is due. *)
LEMMA HeadEvent ==
  ASSUME ShapeOK, WireInv, GateInv, wire # <<>>
  PROVE  /\ HasEvent(Head(wire)) <=> Due(sent, whole, LinesTaken + 1)
         /\ HasEvent(Head(wire)) =>
              /\ EventIn(Head(wire)) \in EventSet
              /\ Made(sent, whole[LinesTaken + 1], EventIn(Head(wire)))
<1> DEFINE w == whole[LinesTaken + 1]
           text == Head(wire)
<1>1. Reads(sent, text, w) /\ w \in Tokens /\ (IsMac(text) <=> w.kind = "MAC")
  BY HeadRead
<1>2. macKnown <=> \E k \in 1 .. (LinesTaken + 1) - 1 : whole[k].kind = "MAC"
  <2>1. (LinesTaken + 1) - 1 = LinesTaken
    BY WireLengths
  <2> QED
    BY <2>1 DEF GateInv
<1> HIDE DEF w, text
<1>3. HasEvent(text) <=> /\ macKnown /\ w.kind \in {"FTM", "RANGE", "stray"}
                         /\ w.kind = "FTM" => sent[w.id].of.entries # <<>>
  <2>1. HasMessage(text) <=> w.kind # "log"
    BY <1>1 DEF Reads
  <2>2. w.kind # "log" => Fields(text)[1] = w
    BY <1>1 DEF Reads
  <2>3. w.kind = "FTM" => (FtmDecodes(Fields(text)) <=> sent[w.id].of.entries # <<>>)
    BY <1>1 DEF Reads
  <2>4. w.kind \in {"log", "MAC", "stray", "RANGE", "FTM"}
    BY <1>1 DEF Reads
  <2> QED
    BY <1>1, <2>1, <2>2, <2>3, <2>4 DEF HasEvent
<1>4. HasEvent(text) <=> Due(sent, whole, LinesTaken + 1)
  BY <1>2, <1>3 DEF Due, w
<1>5. HasEvent(text) => EventIn(text) \in EventSet /\ Made(sent, w, EventIn(text))
  BY <1>1, <1>3, LineEvent DEF ShapeOK
<1> QED
  BY <1>4, <1>5 DEF w, text

-----------------------------------------------------------------------------
(* The events, taken and on their way. *)
LEMMA AddedBehind ==
  ASSUME NEW S, NEW s \in Seq(S), NEW t \in Seq(S), NEW e \in S
  PROVE  s \o Append(t, e) = Append(s \o t, e)
<1>1. /\ Append(t, e) \in Seq(S) /\ Len(Append(t, e)) = Len(t) + 1
      /\ \A i \in 1 .. Len(t) : Append(t, e)[i] = t[i]
      /\ Append(t, e)[Len(t) + 1] = e
  BY Appended
<1>2. Append(t, e) = t \o <<e>> /\ <<e>> \in Seq(S)
  BY AppendIsConcat
<1>3. s \o t \in Seq(S) /\ Append(s \o t, e) = (s \o t) \o <<e>>
  BY AppendIsConcat, ConcatProperties
<1>4. (s \o t) \o <<e>> = s \o (t \o <<e>>)
  BY <1>2, ConcatAssociative
<1> QED
  BY <1>2, <1>3, <1>4

LEMMA MovedAlong ==
  ASSUME NEW S, NEW s \in Seq(S), NEW t \in Seq(S), t # <<>>
  PROVE  Append(s, Head(t)) \o Tail(t) = s \o t
<1>1. Head(t) \in S /\ Tail(t) \in Seq(S) /\ <<Head(t)>> \in Seq(S)
  BY HeadAndTail
<1>2. Append(s, Head(t)) = s \o <<Head(t)>>
  BY <1>1, AppendIsConcat
<1>3. (s \o <<Head(t)>>) \o Tail(t) = s \o (<<Head(t)>> \o Tail(t))
  BY <1>1, ConcatAssociative
<1>4. <<Head(t)>> \o Tail(t) = t
  BY HeadTailProperties
<1> QED
  BY <1>2, <1>3, <1>4

EventsInv ==
  /\ received \in Seq(EventSet) /\ chan \in Seq(EventSet) /\ Len(chan) <= ChanCap
  /\ \A i \in 1 .. Len(Events) : \E w \in Tokens : Made(sent, w, Events[i])

CountInv ==
  /\ Len(Events) = Cardinality(DueSet(sent, whole, LinesTaken))
  /\ \A n \in 1 .. LinesTaken : Due(sent, whole, n) =>
       Made(sent, whole[n], Events[Cardinality(DueSet(sent, whole, n))])

HostSame == UNCHANGED <<macKnown, received, chan>>

(* The kinds of steps. *)
HostMoves ==
  \/ HostSame /\ (UNCHANGED <<wire, whole>> \/ LinePut)
  \/ Took /\ ReadLine
  \/ Took /\ ReadEvent
  \/ ControllerTakes /\ UNCHANGED <<wire, whole>>

LEMMA StepMoves ==
  ASSUME ShapeOK, PrintInv, [Next]_vars
  PROVE  ShapeOK' /\ PrintInv' /\ LineMoves /\ HostMoves
<1>1. CASE BoardNext
  <2>1. BoardMoves /\ PrintInv' /\ UNCHANGED hostVars
    BY <1>1, BoardStep
  <2>2. HostSame /\ reader' \in {"up", "ended"} /\ macKnown' \in BOOLEAN
    BY <2>1 DEF hostVars, HostSame, ShapeOK
  <2>3. wire' \in Seq(Seq(Tokens)) /\ whole' \in Seq(Tokens) /\ Len(wire') <= Len(whole')
    <3>1. CASE UNCHANGED <<wire, whole>>
      BY <3>1 DEF ShapeOK
    <3>2. CASE LinePut
      BY <3>2, PutLengths, WireLengths DEF LinePut
    <3> QED
      BY <2>1, <3>1, <3>2 DEF BoardMoves
  <2> QED
    BY <2>1, <2>2, <2>3 DEF BoardMoves, ShapeOK, LineMoves, HostMoves
<1>2. CASE ReadLine \/ ReadEvent
  <2>1. /\ Took /\ UNCHANGED <<boardVars, idAsked, reader>>
    BY <1>2 DEF ReadLine, ReadEvent, NextWire, Took, boardVars
  <2>2. wire' \in Seq(Seq(Tokens)) /\ Len(wire') <= Len(whole')
    BY <2>1, TookLengths, WireLengths DEF Took
  <2>3. macKnown' \in BOOLEAN
    BY <1>2 DEF ReadLine, ReadEvent, IsMac, HasMessage, ShapeOK
  <2>4. ShapeOK' /\ PrintInv'
    BY <2>1, <2>2, <2>3 DEF ShapeOK, PrintInv, Printing, boardVars
  <2> QED
    BY <1>2, <2>1, <2>4 DEF LineMoves, HostMoves, Grown, boardVars
<1>3. CASE ReaderEnds \/ ControllerTakes \/ UNCHANGED vars
  <2>1. UNCHANGED <<boardVars, wire, idAsked, macKnown>> /\ reader' \in {"up", "ended"}
    BY <1>3 DEF ReaderEnds, ControllerTakes, vars, hostVars, ShapeOK
  <2>2. ShapeOK' /\ PrintInv'
    BY <2>1 DEF ShapeOK, PrintInv, Printing, boardVars
  <2>3. HostSame \/ ControllerTakes
    BY <1>3 DEF ReaderEnds, vars, hostVars, HostSame
  <2> QED
    BY <2>1, <2>2, <2>3 DEF LineMoves, HostMoves, Grown, boardVars
<1> QED
  BY <1>1, <1>2, <1>3, Zenon DEF Next, BoardNext

LEMMA GateStep ==
  ASSUME ShapeOK, WireInv, GateInv, LineMoves, HostMoves
  PROVE  GateInv'
<1>1. LinesTaken \in Nat /\ LinesTaken <= Len(whole) /\ Len(whole) \in Nat
  BY WireLengths
<1>2. CASE macKnown' = macKnown /\ (UNCHANGED <<wire, whole>> \/ LinePut)
  <2>1. LinesTaken' = LinesTaken
    BY <1>2, PutLengths DEF LinePut, LinesTaken
  <2>2. \A k \in 1 .. Len(whole) : whole'[k] = whole[k]
    BY <1>2, PutLengths DEF LinePut
  <2>3. \A k \in 1 .. LinesTaken : k \in 1 .. Len(whole)
    BY <1>1
  <2> QED
    BY <1>2, <2>1, <2>2, <2>3 DEF GateInv
<1>3. CASE Took /\ (ReadLine \/ ReadEvent)
  <2>1. /\ LinesTaken' = LinesTaken + 1 /\ whole' = whole /\ wire # <<>>
    BY <1>3, TookLengths DEF Took
  <2>2. IsMac(Head(wire)) <=> whole[LinesTaken + 1].kind = "MAC"
    BY <2>1, HeadRead
  <2>3. macKnown' <=> (macKnown \/ IsMac(Head(wire)))
    <3>1. CASE ReadLine
      <4>1. macKnown' = (macKnown \/ IsMac(Head(wire)))
        BY <3>1 DEF ReadLine
      <4> QED
        BY <4>1, Zenon
    <3>2. CASE ReadEvent
      <4>1. macKnown' = macKnown /\ ~IsMac(Head(wire))
        BY <3>2 DEF ReadEvent, HasEvent
      <4> QED
        BY <4>1, Zenon
    <3> QED
      BY <1>3, <3>1, <3>2
  <2>4. \A k \in 1 .. LinesTaken + 1 : k \in 1 .. LinesTaken \/ k = LinesTaken + 1
    BY <1>1
  <2>5. \A k \in 1 .. LinesTaken : k \in 1 .. LinesTaken + 1
    BY <1>1
  <2>6. LinesTaken + 1 \in 1 .. LinesTaken + 1
    BY <1>1
  <2> QED
    BY <2>1, <2>2, <2>3, <2>4, <2>5, <2>6 DEF GateInv
<1> QED
  BY <1>2, <1>3 DEF HostMoves, HostSame, ControllerTakes

LEMMA EventsMove ==
  ASSUME ShapeOK, WireInv, GateInv, EventsInv, HostMoves
  PROVE  /\ received' \in Seq(EventSet) /\ chan' \in Seq(EventSet) /\ Len(chan') <= ChanCap
         /\ \/ Events' = Events /\ (UNCHANGED <<wire, whole>> \/ LinePut)
            \/ Took /\ Events' = Events /\ ~Due(sent, whole, LinesTaken + 1)
            \/ /\ Took /\ Due(sent, whole, LinesTaken + 1)
               /\ \E e \in EventSet : /\ Events' = Append(Events, e)
                                      /\ Made(sent, whole[LinesTaken + 1], e)
<1>1. received \in Seq(EventSet) /\ chan \in Seq(EventSet) /\ Len(chan) <= ChanCap
  BY DEF EventsInv
<1>2. CASE HostSame /\ (UNCHANGED <<wire, whole>> \/ LinePut)
  BY <1>1, <1>2 DEF HostSame, Events
<1>3. CASE Took /\ ReadLine
  <2>1. ~HasEvent(Head(wire)) /\ wire # <<>> /\ received' = received /\ chan' = chan
    BY <1>3 DEF ReadLine
  <2>2. ~Due(sent, whole, LinesTaken + 1)
    BY <2>1, HeadEvent
  <2> QED
    BY <1>1, <1>3, <2>1, <2>2 DEF Events
<1>4. CASE Took /\ ReadEvent
  <2> DEFINE e == EventIn(Head(wire))
  <2>1. /\ HasEvent(Head(wire)) /\ wire # <<>> /\ received' = received
        /\ chan' = Append(chan, e) /\ Len(chan) < ChanCap
    BY <1>4 DEF ReadEvent, Offer
  <2>2. /\ Due(sent, whole, LinesTaken + 1) /\ e \in EventSet
        /\ Made(sent, whole[LinesTaken + 1], e)
    BY <2>1, HeadEvent
  <2> HIDE DEF e
  <2>3. /\ chan' \in Seq(EventSet) /\ Len(chan') = Len(chan) + 1
    BY <1>1, <2>1, <2>2, Appended
  <2>4. Len(chan') <= ChanCap
    <3>1. ChanCap \in Nat /\ Len(chan) \in Nat
      BY <1>1, ReportsAreTimed, LenProperties
    <3> QED
      BY <2>1, <2>3, <3>1
  <2>5. Events' = Append(Events, e)
    BY <1>1, <2>1, <2>2, AddedBehind DEF Events
  <2> QED
    BY <1>1, <1>4, <2>1, <2>2, <2>3, <2>4, <2>5
<1>5. CASE ControllerTakes /\ UNCHANGED <<wire, whole>>
  <2>1. chan # <<>> /\ received' = Append(received, Head(chan)) /\ chan' = Tail(chan)
    BY <1>5 DEF ControllerTakes
  <2>2. /\ Head(chan) \in EventSet /\ chan' \in Seq(EventSet) /\ Len(chan') = Len(chan) - 1
        /\ Len(chan) \in Nat \ {0}
    BY <1>1, <2>1, HeadAndTail
  <2>3. received' \in Seq(EventSet)
    BY <1>1, <2>1, <2>2, Appended
  <2>4. Len(chan') <= ChanCap
    <3>1. ChanCap \in Nat
      BY ReportsAreTimed
    <3> QED
      BY <1>1, <2>2, <3>1
  <2>5. Events' = Events
    BY <1>1, <2>1, MovedAlong DEF Events
  <2> QED
    BY <1>5, <2>2, <2>3, <2>4, <2>5
<1> QED
  BY <1>2, <1>3, <1>4, <1>5 DEF HostMoves

LEMMA EventsTyped ==
  ASSUME EventsInv
  PROVE  Events \in Seq(EventSet) /\ Len(Events) \in Nat /\ DOMAIN Events = 1 .. Len(Events)
<1>1. Events \in Seq(EventSet)
  BY ConcatProperties DEF EventsInv, Events
<1> QED
  BY <1>1, LenProperties

LEMMA EventsStep ==
  ASSUME ShapeOK, WireInv, GateInv, EventsInv, LineMoves, HostMoves
  PROVE  EventsInv'
<1>1. /\ received' \in Seq(EventSet) /\ chan' \in Seq(EventSet) /\ Len(chan') <= ChanCap
      /\ \/ Events' = Events
         \/ /\ Took /\ \E e \in EventSet : /\ Events' = Append(Events, e)
                                           /\ Made(sent, whole[LinesTaken + 1], e)
  BY EventsMove
<1>2. \A i \in 1 .. Len(Events) : \E w \in Tokens : Made(sent', w, Events[i])
  BY MadeGrows DEF EventsInv, ShapeOK, LineMoves
<1>3. CASE Events' = Events
  BY <1>1, <1>2, <1>3 DEF EventsInv
<1>4. ASSUME NEW e \in EventSet, Took, Events' = Append(Events, e),
             Made(sent, whole[LinesTaken + 1], e)
      PROVE  EventsInv'
  <2>1. Events \in Seq(EventSet) /\ Len(Events) \in Nat
    BY EventsTyped
  <2>2. /\ Len(Events') = Len(Events) + 1
        /\ \A i \in 1 .. Len(Events) : Events'[i] = Events[i]
        /\ Events'[Len(Events) + 1] = e
    BY <1>4, <2>1, Appended
  <2>3. whole[LinesTaken + 1] \in Tokens
    <3>1. LinesTaken + 1 \in 1 .. Len(whole)
      BY <1>4, TookLengths
    <3> QED
      BY <3>1, ElementOfSeq DEF ShapeOK
  <2>4. Made(sent', whole[LinesTaken + 1], e)
    BY <1>4 DEF Took
  <2>5. \A i \in 1 .. Len(Events) + 1 : i \in 1 .. Len(Events) \/ i = Len(Events) + 1
    BY <2>1
  <2>6. \A i \in 1 .. Len(Events') : \E w \in Tokens : Made(sent', w, Events'[i])
    BY <1>2, <2>2, <2>3, <2>4, <2>5
  <2> QED
    BY <1>1, <2>6 DEF EventsInv
<1> QED
  BY <1>1, <1>3, <1>4

LEMMA CountStep ==
  ASSUME ShapeOK, WireInv, WholeInv, GateInv, EventsInv, CountInv, LineMoves, HostMoves
  PROVE  CountInv'
<1> DEFINE T == LinesTaken
           Rank(n) == Cardinality(DueSet(sent, whole, n))
           RankN(n) == Cardinality(DueSet(sent', whole', n))
<1>1. T \in Nat /\ T <= Len(whole) /\ Len(whole) \in Nat
  BY WireLengths
<1>2. \A n \in 0 .. Len(whole) : RankN(n) = Rank(n)
  BY DueSetKept
<1>3. \A n \in 1 .. Len(whole) :
        /\ Due(sent', whole', n) <=> Due(sent, whole, n)
        /\ whole'[n] = whole[n]
  BY DueKept, PutLengths DEF LineMoves, LinePut, Took
<1>4. /\ Len(Events) = Rank(T) /\ Len(Events) \in Nat /\ Events \in Seq(EventSet)
      /\ \A n \in 1 .. T : Due(sent, whole, n) => Made(sent, whole[n], Events[Rank(n)])
  BY EventsTyped DEF CountInv
<1>5. \A n \in 1 .. T : Due(sent, whole, n) => Rank(n) \in 1 .. Len(Events)
  <2>1. \A n \in 1 .. T : Due(sent, whole, n) => Rank(n) \in 1 .. Rank(T)
    BY <1>1, DueRank
  <2> QED
    BY <1>4, <2>1
<1>6. \A w, e : Made(sent, w, e) => Made(sent', w, e)
  BY MadeGrows DEF ShapeOK, LineMoves
<1>7. Rank(T + 1) = IF Due(sent, whole, T + 1) THEN Rank(T) + 1 ELSE Rank(T)
  BY <1>1, DueCounted
<1>8. /\ \A n \in 1 .. T : n \in 1 .. Len(whole) /\ n \in 0 .. Len(whole)
      /\ T \in 0 .. Len(whole)
  BY <1>1
<1> HIDE DEF T, Rank, RankN
(* The lines taken before are due as before, and have the same events.       *)
<1>9. ASSUME \A i \in 1 .. Len(Events) : Events'[i] = Events[i], NEW n \in 1 .. T,
             Due(sent', whole', n)
      PROVE  Made(sent', whole'[n], Events'[RankN(n)])
  <2>1. Due(sent, whole, n) /\ whole'[n] = whole[n] /\ RankN(n) = Rank(n)
    BY <1>2, <1>3, <1>8, <1>9
  <2>2. Made(sent, whole[n], Events[Rank(n)]) /\ Rank(n) \in 1 .. Len(Events)
    BY <1>4, <1>5, <2>1
  <2>3. Events'[Rank(n)] = Events[Rank(n)]
    BY <1>9, <2>2
  <2> QED
    BY <1>6, <2>1, <2>2, <2>3
<1>10. CASE Events' = Events /\ (UNCHANGED <<wire, whole>> \/ LinePut)
  <2>1. LinesTaken' = T
    BY <1>10, PutLengths DEF LinePut, LinesTaken, T
  <2>2. Len(Events') = RankN(T)
    BY <1>2, <1>4, <1>8, <1>10
  <2>3. \A n \in 1 .. T : Due(sent', whole', n) => Made(sent', whole'[n], Events'[RankN(n)])
    BY <1>9, <1>10
  <2> QED
    BY <2>1, <2>2, <2>3 DEF CountInv, RankN
<1>11. CASE Took
  <2>1. LinesTaken' = T + 1 /\ T + 1 \in 1 .. Len(whole)
    BY <1>11, TookLengths DEF T
  <2>2. RankN(T + 1) = Rank(T + 1) /\ (Due(sent', whole', T + 1) <=> Due(sent, whole, T + 1))
        /\ whole'[T + 1] = whole[T + 1]
    <3>1. T + 1 \in 0 .. Len(whole)
      BY <1>1, <2>1
    <3> QED
      BY <1>2, <1>3, <2>1, <3>1
  <2>3. \A n \in 1 .. T + 1 : n \in 1 .. T \/ n = T + 1
    BY <1>1
  <2>4. CASE Events' = Events /\ ~Due(sent, whole, T + 1)
    <3>1. Len(Events') = RankN(T + 1)
      BY <1>4, <1>7, <2>2, <2>4
    <3>2. \A n \in 1 .. T + 1 :
            Due(sent', whole', n) => Made(sent', whole'[n], Events'[RankN(n)])
      BY <1>9, <2>2, <2>3, <2>4
    <3> QED
      BY <2>1, <3>1, <3>2 DEF CountInv, RankN
  <2>5. ASSUME NEW e \in EventSet, Due(sent, whole, T + 1), Events' = Append(Events, e),
               Made(sent, whole[T + 1], e)
        PROVE  CountInv'
    <3>1. /\ Len(Events') = Len(Events) + 1
          /\ \A i \in 1 .. Len(Events) : Events'[i] = Events[i]
          /\ Events'[Len(Events) + 1] = e
      BY <1>4, <2>5, Appended
    <3>2. Rank(T + 1) = Len(Events) + 1
      BY <1>4, <1>7, <2>5
    <3>3. Len(Events') = RankN(T + 1)
      BY <2>2, <3>1, <3>2
    <3>4. Made(sent', whole'[T + 1], Events'[RankN(T + 1)])
      BY <1>6, <2>2, <2>5, <3>1, <3>2
    <3>5. \A n \in 1 .. T + 1 :
            Due(sent', whole', n) => Made(sent', whole'[n], Events'[RankN(n)])
      BY <1>9, <2>3, <3>1, <3>4
    <3> QED
      BY <2>1, <3>3, <3>5 DEF CountInv, RankN
  <2>6. \/ Events' = Events /\ ~Due(sent, whole, T + 1)
        \/ /\ Due(sent, whole, T + 1)
           /\ \E e \in EventSet : Events' = Append(Events, e) /\ Made(sent, whole[T + 1], e)
        \/ Events' = Events /\ (UNCHANGED <<wire, whole>> \/ LinePut)
    BY EventsMove DEF T
  <2> QED
    BY <1>10, <2>4, <2>5, <2>6
<1> QED
  BY <1>10, <1>11, EventsMove

-----------------------------------------------------------------------------
(* The inductive invariant. *)
LinkInv ==
  /\ ShapeOK /\ PrintInv /\ WireInv /\ WholeInv /\ GateInv /\ EventsInv /\ CountInv

LEMMA InitInv == Init => LinkInv
<1> SUFFICES ASSUME Init PROVE LinkInv
  OBVIOUS
<1> USE DEF Init
<1>1. Len(wire) = 0 /\ Len(whole) = 0 /\ Len(Events) = 0 /\ LinesTaken = 0
  BY DEF Events, LinesTaken
<1>2. ShapeOK
  <2>1. /\ sent \in Seq(Sends) /\ toPrint \in Seq(Tokens) /\ line \in Seq(Tokens)
        /\ wire \in Seq(Seq(Tokens)) /\ whole \in Seq(Tokens)
    BY EmptySeq
  <2>2. idAsked \in BOOLEAN /\ reader \in {"up", "ended"} /\ macKnown \in BOOLEAN
    OBVIOUS
  <2>3. Len(wire) <= Len(whole)
    BY <1>1
  <2> HIDE DEF Init
  <2> QED
    BY <2>1, <2>2, <2>3 DEF ShapeOK
<1>3. PrintInv
  BY DEF PrintInv
<1>4. WireInv /\ WholeInv /\ GateInv
  BY <1>1 DEF WireInv, WholeInv, GateInv
<1>5. EventsInv
  <2>1. received \in Seq(EventSet) /\ chan \in Seq(EventSet) /\ Len(chan) = 0
    BY EmptySeq
  <2>2. Len(chan) <= ChanCap
    BY <2>1, ReportsAreTimed
  <2> QED
    BY <1>1, <2>1, <2>2 DEF EventsInv
<1>6. CountInv
  <2>1. DueSet(sent, whole, 0) = {}
    BY DEF DueSet
  <2>2. Cardinality(DueSet(sent, whole, 0)) = 0
    BY <2>1, FS_EmptySet
  <2> QED
    BY <1>1, <2>2 DEF CountInv
<1> QED
  BY <1>2, <1>3, <1>4, <1>5, <1>6 DEF LinkInv

LEMMA StepInv == LinkInv /\ [Next]_vars => LinkInv'
<1> SUFFICES ASSUME LinkInv, [Next]_vars PROVE LinkInv'
  OBVIOUS
<1>1. ShapeOK /\ PrintInv /\ WireInv /\ WholeInv /\ GateInv /\ EventsInv /\ CountInv
  BY DEF LinkInv
<1>2. ShapeOK' /\ PrintInv' /\ LineMoves /\ HostMoves
  BY <1>1, StepMoves
<1>3. WireInv' /\ WholeInv' /\ GateInv'
  BY <1>1, <1>2, WireStep, WholeStep, GateStep
<1>4. EventsInv' /\ CountInv'
  BY <1>1, <1>2, EventsStep, CountStep
<1> QED
  BY <1>2, <1>3, <1>4 DEF LinkInv

LEMMA Invariant == Spec => []LinkInv
BY InitInv, StepInv, PTL DEF Spec

(* What the invariant says of an event of the controller's. *)
LEMMA EventMade ==
  ASSUME LinkInv, NEW e \in ToSet(Events)
  PROVE  e \in EventSet /\ \E w \in Tokens : Made(sent, w, e)
<1>1. EventsInv /\ Events \in Seq(EventSet) /\ DOMAIN Events = 1 .. Len(Events)
  BY EventsTyped DEF LinkInv
<1>2. PICK i \in 1 .. Len(Events) : e = Events[i]
  BY <1>1 DEF ToSet
<1>3. e \in EventSet
  BY <1>1, <1>2, ElementOfSeq
<1> QED
  BY <1>1, <1>2, <1>3 DEF EventsInv

-----------------------------------------------------------------------------
(* The state keeps its shape, however the threads' logs, the restarts and    *)
(* the prints fall: an open line belongs to a report being printed.          *)
THEOREM LinkTyped == Spec => []TypeOK
<1>1. LinkInv => TypeOK
  <2> SUFFICES ASSUME LinkInv PROVE TypeOK
    OBVIOUS
  <2>1. ShapeOK /\ PrintInv /\ EventsInv
    BY DEF LinkInv
  <2>2. ASSUME NEW e \in ToSet(Events)
        PROVE  /\ e.kind \in {"FTM", "RANGE", "stray"} /\ e.id \in Nat
               /\ e.reports \in [DOMAIN e.reports -> [t2 : Int, payload : Nat]]
    <3>1. e \in EventSet
      BY EventMade
    <3>2. /\ e.kind \in {"FTM", "RANGE", "stray"} /\ e.id \in Nat
          /\ \E S \in SUBSET Nat : e.reports \in [S -> Filed]
      BY <3>1 DEF EventSet
    <3> QED
      BY <3>2 DEF Filed
  <2> QED
    BY <2>1, <2>2 DEF TypeOK, ShapeOK, PrintInv, EventsInv, Sends
<1> QED
  BY Invariant, <1>1, PTL

(* The range a RANGE event holds. *)
LEMMA RangeMade ==
  ASSUME ShapeOK, NEW w \in Tokens, NEW e, Made(sent, w, e), e.kind = "RANGE"
  PROVE  /\ e.id \in DOMAIN sent /\ sent[e.id].kind = "FTM" /\ sent[e.id].of \in Reports
         /\ \E i \in Ranged(sent[e.id].of) :
              e.reports[1] = [t2 |-> sent[e.id].of.entries[i],
                              payload |-> Match(sent[e.id].of, i).payload]
<1>1. w.kind = "RANGE" /\ w.id = e.id /\ SingleOK(sent, w)
      /\ e.reports = <<[t2 |-> w.t, payload |-> w.payload]>>
  BY DEF Made
<1>2. Plain("MAC").kind = "MAC" /\ \A i, t, p : Token("stray", i, t, p).kind = "stray"
  BY DEF Plain, Token
<1>3. /\ w.id \in DOMAIN sent /\ sent[w.id].kind = "FTM"
      /\ RangeOf(sent[w.id].of, w.id, w)
  BY <1>1, <1>2 DEF SingleOK
<1>4. sent[w.id].of \in Reports
  BY <1>3, SentIs DEF ShapeOK
<1>5. PICK i \in Ranged(sent[w.id].of) :
        w = Token("RANGE", w.id, sent[w.id].of.entries[i], Match(sent[w.id].of, i).payload)
  BY <1>3 DEF RangeOf
<1>6. w.t = sent[w.id].of.entries[i] /\ w.payload = Match(sent[w.id].of, i).payload
  BY <1>5 DEF Token
<1>7. e.reports[1] = [t2 |-> w.t, payload |-> w.payload]
  <2>1. \A x : <<x>>[1] = x
    OBVIOUS
  <2>2. e.reports = <<[t2 |-> w.t, payload |-> w.payload]>>
    BY <1>1, Zenon
  <2> QED
    BY <2>1, <2>2, Zenon
<1> QED
  BY <1>1, <1>3, <1>4, <1>6, <1>7

(* No event mixes two messages: whatever tears the lines, each is a report in*)
(* full, a frame, or a range made of an entry of its report.                 *)
THEOREM EventsUnmixed == Spec => []EventsAreReports
<1>1. LinkInv => EventsAreReports
  <2> SUFFICES ASSUME LinkInv, NEW e \in ToSet(Events)
               PROVE  /\ e.id \in DOMAIN sent
                      /\ LET s == sent[e.id]
                         IN  \/ e.kind = "FTM" /\ s.kind = "FTM" /\ Faithful(e, s.of)
                             \/ /\ e.kind = "RANGE" /\ s.kind = "FTM" /\ s.of.ranged
                                /\ e.reports[1].t2 \in ToSet(s.of.entries)
                                /\ \E j \in DOMAIN s.of.frames :
                                     /\ s.of.frames[j].ht40
                                     /\ Near(e.reports[1].t2, s.of.frames[j].ts)
                                     /\ e.reports[1].payload = s.of.frames[j].payload
                             \/ /\ e.kind = "stray" /\ s.kind = "stray"
                                /\ e.reports = <<[t2 |-> s.of.ts, payload |-> s.of.payload]>>
    BY DEF EventsAreReports
  <2>1. ShapeOK
    BY DEF LinkInv
  <2>2. PICK w \in Tokens : Made(sent, w, e)
    BY EventMade
  <2>3. e.kind \in {"FTM", "RANGE", "stray"} /\ e.kind = w.kind /\ e.id = w.id
    BY <2>2 DEF Made
  <2>4. CASE e.kind = "FTM"
    BY <2>2, <2>4, SMTT(60) DEF Made
  <2>5. CASE e.kind = "RANGE"
    <3> DEFINE r == sent[e.id].of
    <3>1. e.id \in DOMAIN sent /\ sent[e.id].kind = "FTM" /\ r \in Reports
      BY <2>1, <2>2, <2>5, RangeMade
    <3>2. PICK i \in Ranged(r) :
            e.reports[1] = [t2 |-> r.entries[i], payload |-> Match(r, i).payload]
      BY <2>1, <2>2, <2>5, RangeMade
    <3> HIDE DEF r
    <3>3. /\ i \in DOMAIN r.entries /\ r.ranged
          /\ \E j \in DOMAIN r.frames :
               /\ Match(r, i) = r.frames[j] /\ r.frames[j].ht40
               /\ Near(r.entries[i], r.frames[j].ts)
      BY <3>1, MatchIs
    <3>4. e.reports[1].t2 = r.entries[i] /\ e.reports[1].payload = Match(r, i).payload
      BY <3>2
    <3>5. r.entries[i] \in ToSet(r.entries)
      BY <3>3 DEF ToSet
    <3>6. /\ r.ranged /\ e.reports[1].t2 \in ToSet(r.entries)
          /\ \E j \in DOMAIN r.frames :
               /\ r.frames[j].ht40 /\ Near(e.reports[1].t2, r.frames[j].ts)
               /\ e.reports[1].payload = r.frames[j].payload
      BY <3>3, <3>4, <3>5
    <3> QED
      BY <2>5, <3>1, <3>6 DEF r
  <2>6. CASE e.kind = "stray"
    <3>1. SingleOK(sent, w) /\ e.reports = <<[t2 |-> w.t, payload |-> w.payload]>>
      BY <2>2, <2>3, <2>6 DEF Made
    <3>2. w.kind # "MAC" /\ w.kind # "RANGE" /\ Plain("MAC").kind = "MAC"
      BY <2>3, <2>6 DEF Plain, Token
    <3>3. ~RangeOf(sent[w.id].of, w.id, w) \/ w.id \notin DOMAIN sent \/ sent[w.id].kind # "FTM"
      BY <2>1, <3>2, SentIs, RangeTyped DEF ShapeOK
    <3>4. /\ w.id \in DOMAIN sent /\ sent[w.id].kind = "stray"
          /\ w = Token("stray", w.id, sent[w.id].of.ts, sent[w.id].of.payload)
      BY <3>1, <3>2, <3>3 DEF SingleOK
    <3>5. w.t = sent[w.id].of.ts /\ w.payload = sent[w.id].of.payload
      BY <3>4 DEF Token
    <3> QED
      BY <2>3, <2>6, <3>1, <3>4, <3>5
  <2> QED
    BY <2>3, <2>4, <2>5, <2>6, SMTT(60)
<1> QED
  BY Invariant, <1>1, PTL

(* The parsed reports of a record in which a frame j0 is the only one near   *)
(* time t, and near no entry of another time: t is filed with its CSI.       *)
LEMMA OnlyPairFiled ==
  ASSUME NEW r \in Reports, NEW e, Faithful(e, r), NEW i \in DOMAIN r.entries,
         i # 1, NEW t, t = r.entries[i],
         NEW j0 \in DOMAIN r.frames, r.frames[j0].payload # Empty,
         Near(t, r.frames[j0].ts),
         \A j \in DOMAIN r.frames : Near(t, r.frames[j].ts) => j = j0,
         \A k \in DOMAIN r.entries : Near(r.entries[k], r.frames[j0].ts) => r.entries[k] = t
  PROVE  [t2 |-> t, payload |-> r.frames[j0].payload] \in ToSet(e.reports)
<1> DEFINE n == Len(r.entries)
           K == {k \in 2 .. n : Near(r.entries[k], r.frames[j0].ts)}
           least == Min(K)
<1>1. n \in Nat /\ DOMAIN r.entries = 1 .. n /\ DOMAIN r.frames = 1 .. Len(r.frames)
      /\ Len(r.frames) \in Nat
  BY Reported
<1> HIDE DEF n
<1>2. i \in K
  BY <1>1
<1>3. K \in SUBSET Int /\ 2 \in Int /\ \A k \in K : 2 <= k
  BY <1>1
<1> HIDE DEF K
<1>4. least \in K /\ \A k \in K : least <= k
  BY <1>2, <1>3, LeastOfBounded
<1> HIDE DEF least
<1>5. least \in 2 .. n /\ Near(r.entries[least], r.frames[j0].ts)
  BY <1>4 DEF K
<1>6. r.entries[least] = t
  BY <1>1, <1>5
<1>7. Claims(r, least) = {j0}
  <2>1. j0 \in Claims(r, least)
    <3>1. \A k \in 2 .. least - 1 : ~Near(r.entries[k], r.frames[j0].ts)
      <4>1. SUFFICES ASSUME NEW k \in 2 .. least - 1, Near(r.entries[k], r.frames[j0].ts)
                     PROVE  FALSE
        OBVIOUS
      <4>2. k \in 2 .. n /\ ~(least <= k)
        BY <1>1, <1>5
      <4> QED
        BY <1>4, <4>1, <4>2 DEF K
    <3> QED
      BY <1>5, <3>1 DEF Claims
  <2>2. \A j \in Claims(r, least) : j = j0
    BY <1>6 DEF Claims
  <2> QED
    BY <2>1, <2>2
<1>8. Max(Claims(r, least)) = j0
  <2>1. least \in Int /\ Claims(r, least) # {}
    BY <1>5, <1>7
  <2>2. Max(Claims(r, least)) \in Claims(r, least)
    BY <2>1, PayloadTyped
  <2> QED
    BY <1>7, <2>2
<1>9. PayloadOf(r, least) = r.frames[j0].payload
  BY <1>7, <1>8 DEF PayloadOf
<1> DEFINE S == {k \in 1 .. n - 1 : PayloadOf(r, k + 1) # Empty}
<1>10. e.reports = [k \in S |-> [t2 |-> r.entries[k + 1], payload |-> PayloadOf(r, k + 1)]]
  BY DEF Faithful, n
<1>11. least - 1 \in S /\ (least - 1) + 1 = least
  <2>1. least - 1 \in 1 .. n - 1 /\ (least - 1) + 1 = least
    BY <1>1, <1>5
  <2> QED
    BY <1>9, <2>1
<1> HIDE DEF S
<1>12. e.reports[least - 1] = [t2 |-> t, payload |-> r.frames[j0].payload]
  BY <1>6, <1>9, <1>10, <1>11
<1>13. least - 1 \in DOMAIN e.reports
  BY <1>10, <1>11
<1> QED
  BY <1>12, <1>13 DEF ToSet

LEMMA AtMostOne ==
  ASSUME NEW S, IsFiniteSet(S), ~(Cardinality(S) > 1), NEW x \in S
  PROVE  S = {x}
<1>1. SUFFICES ASSUME NEW y \in S, y # x PROVE FALSE
  OBVIOUS
<1>2. IsFiniteSet({x}) /\ Cardinality({x}) = 1
  BY FS_Singleton
<1>3. Cardinality({x} \cup {y}) = 2
  <2>1. y \notin {x}
    BY <1>1
  <2>2. Cardinality({x} \cup {y}) =
          IF y \in {x} THEN Cardinality({x}) ELSE Cardinality({x}) + 1
    BY <1>2, FS_AddElement, Zenon
  <2> QED
    BY <1>2, <2>1, <2>2
<1>4. {x} \cup {y} \in SUBSET S
  BY <1>1
<1>5. Cardinality({x} \cup {y}) <= Cardinality(S) /\ Cardinality(S) \in Nat
  BY <1>4, FS_Subset, FS_CardinalityType, SMTT(60)
<1> QED
  BY <1>3, <1>5

(* Where an entry and a frame have only each other, the range the board made *)
(* of the frame and the CSI the host files with the entry are the same.      *)
THEOREM PairingsAgree == Spec => []RangesAgree
<1>1. LinkInv => RangesAgree
  <2> SUFFICES ASSUME LinkInv, NEW x \in ToSet(Events), NEW e \in ToSet(Events),
                      x.kind = "RANGE", e.kind = "FTM", x.id = e.id
               PROVE  LET r == sent[x.id].of
                          t == x.reports[1].t2
                          near == {j \in DOMAIN r.frames : Near(t, r.frames[j].ts)}
                      IN  \/ r.entries[1] = t
                          \/ Cardinality(near) > 1
                          \/ \E k \in DOMAIN r.entries, j \in near :
                               r.entries[k] # t /\ Near(r.entries[k], r.frames[j].ts)
                          \/ x.reports[1] \in ToSet(e.reports)
    BY DEF RangesAgree
  <2> DEFINE r == sent[x.id].of
             t == x.reports[1].t2
             near == {j \in DOMAIN r.frames : Near(t, r.frames[j].ts)}
  <2>1. ShapeOK
    BY DEF LinkInv
  <2>2. PICK w \in Tokens : Made(sent, w, x)
    BY EventMade
  <2>3. r \in Reports
    BY <2>1, <2>2, RangeMade
  <2>4. PICK i \in Ranged(r) :
          x.reports[1] = [t2 |-> r.entries[i], payload |-> Match(r, i).payload]
    BY <2>1, <2>2, RangeMade
  <2>5. Faithful(e, r)
    <3>1. PICK v \in Tokens : Made(sent, v, e)
      BY EventMade
    <3>2. v.kind = "FTM" /\ v.id = x.id
      BY <3>1 DEF Made
    <3> QED
      BY <3>1, <3>2 DEF Made
  <2> HIDE DEF r
  <2>6. i \in DOMAIN r.entries
    BY <2>3, MatchIs
  <2>7. PICK j0 \in DOMAIN r.frames :
          /\ Match(r, i) = r.frames[j0] /\ r.frames[j0].ht40
          /\ Near(r.entries[i], r.frames[j0].ts)
    BY <2>3, MatchIs
  <2>8. r.frames[j0].payload # Empty
    BY <2>3, <2>7, Reported
  <2>9. t = r.entries[i] /\ x.reports[1] = [t2 |-> t, payload |-> r.frames[j0].payload]
    BY <2>4, <2>7
  <2>10. IsFiniteSet(near)
    <3>1. near \in SUBSET (1 .. Len(r.frames)) /\ Len(r.frames) \in Int
      BY <2>3, Reported
    <3>2. IsFiniteSet(1 .. Len(r.frames))
      BY <3>1, FS_Interval
    <3> QED
      BY <3>1, <3>2, FS_Subset
  <2> HIDE DEF t
  <2>11. ASSUME r.entries[1] # t, ~(Cardinality(near) > 1),
                ~\E k \in DOMAIN r.entries, j \in near :
                   r.entries[k] # t /\ Near(r.entries[k], r.frames[j].ts)
         PROVE  x.reports[1] \in ToSet(e.reports)
    <3>1. j0 \in near
      BY <2>7, <2>9
    <3>2. near = {j0}
      <4> HIDE DEF near
      <4> QED
        BY <2>10, <2>11, <3>1, AtMostOne
    <3>3. i # 1
      BY <2>9, <2>11
    <3>4. \A j \in DOMAIN r.frames : Near(t, r.frames[j].ts) => j = j0
      BY <3>2
    <3>5. \A k \in DOMAIN r.entries : Near(r.entries[k], r.frames[j0].ts) => r.entries[k] = t
      BY <2>11, <3>1
    <3>6. Near(t, r.frames[j0].ts)
      BY <3>1
    <3>7. [t2 |-> t, payload |-> r.frames[j0].payload] \in ToSet(e.reports)
      BY <2>3, <2>5, <2>6, <2>8, <2>9, <3>3, <3>4, <3>5, <3>6, OnlyPairFiled
    <3> QED
      BY <2>9, <3>7
  <2> QED
    BY <2>11, SMTT(60) DEF r, t
<1> QED
  BY Invariant, <1>1, PTL

(* Exactly the first entry is lost: of every other entry that has a frame to *)
(* itself, the controller gets that frame's CSI.                             *)
THEOREM LaterEntriesKept == Spec => []LaterEntriesParsed
<1>1. ASSUME ShapeOK, EventsAreReports PROVE LaterEntriesParsed
  <2>1. SUFFICES ASSUME NEW e \in ToSet(Events), e.kind = "FTM",
                        NEW i \in DOMAIN sent[e.id].of.entries,
                        NEW j \in DOMAIN sent[e.id].of.frames,
                        i >= 2, OnlyPair(sent[e.id].of, i, j)
                 PROVE  [t2 |-> sent[e.id].of.entries[i],
                         payload |-> sent[e.id].of.frames[j].payload] \in ToSet(e.reports)
    BY DEF LaterEntriesParsed, PairsParsedFrom
  <2> DEFINE r == sent[e.id].of
             t == r.entries[i]
  <2>2. e.id \in DOMAIN sent /\ sent[e.id].kind = "FTM" /\ Faithful(e, r)
    BY <1>1, <2>1 DEF EventsAreReports
  <2>3. r \in Reports
    BY <1>1, <2>2, SentIs DEF ShapeOK
  <2> HIDE DEF r
  <2>4. OnlyPair(r, i, j) /\ i \in DOMAIN r.entries /\ j \in DOMAIN r.frames
    BY <2>1 DEF r
  <2>5. /\ r.frames[j].payload # Empty /\ Near(t, r.frames[j].ts)
        /\ \A k \in DOMAIN r.frames : Near(t, r.frames[k].ts) => k = j
        /\ \A k \in DOMAIN r.entries : Near(r.entries[k], r.frames[j].ts) => r.entries[k] = t
    BY <2>4 DEF OnlyPair
  <2>6. [t2 |-> t, payload |-> r.frames[j].payload] \in ToSet(e.reports)
    BY <2>1, <2>2, <2>3, <2>4, <2>5, OnlyPairFiled
  <2> QED
    BY <2>6 DEF r
<1>2. LinkInv => ShapeOK
  BY DEF LinkInv
<1> QED
  BY Invariant, EventsUnmixed, <1>1, <1>2, PTL

(* What was printed in one piece behind the reply to "id" reaches the        *)
(* controller once and in order, however slowly it takes it, and what the    *)
(* reader has not come to is on the wire.                                    *)
THEOREM NothingIsLost == Spec => []NothingLost
<1>1. LinkInv => NothingLost
  <2> SUFFICES ASSUME LinkInv PROVE NothingLost
    OBVIOUS
  <2>1. ShapeOK /\ WireInv /\ CountInv
    BY DEF LinkInv
  <2>2. Len(Events) = DueUpTo(LinesTaken)
    BY <2>1, DueIs DEF CountInv
  <2>3. ASSUME NEW n \in 1 .. LinesTaken, IsDue(n)
        PROVE  LET e == Events[DueUpTo(n)]
                   m == whole[n]
               IN  Key(e.kind, e.id, e.reports[1].t2) = Key(m.kind, m.id, m.t)
    <3> DEFINE e == Events[DueUpTo(n)]
               m == whole[n]
    <3>1. Made(sent, m, e)
      BY <2>1, <2>3, DueIs DEF CountInv
    <3> HIDE DEF e, m
    <3>2. e.kind = m.kind /\ e.id = m.id
      BY <3>1 DEF Made
    <3>3. m.kind = "RANGE" => e.reports[1].t2 = m.t
      <4>1. SUFFICES ASSUME m.kind = "RANGE" PROVE e.reports[1].t2 = m.t
        OBVIOUS
      <4>2. e.reports = <<[t2 |-> m.t, payload |-> m.payload]>>
        BY <3>1, <4>1 DEF Made
      <4> QED
        BY <4>2
    <3>4. Key(e.kind, e.id, e.reports[1].t2) = Key(m.kind, m.id, m.t)
      BY <3>2, <3>3 DEF Key
    <3> QED
      BY <3>4 DEF e, m
  <2>4. ASSUME NEW n \in DOMAIN wire
        PROVE  IF HasMessage(wire[n]) THEN Fields(wire[n])[1] = whole[LinesTaken + n]
                                      ELSE whole[LinesTaken + n].kind = "log"
    <3>1. n \in 1 .. Len(wire)
      BY <2>1, LenProperties DEF ShapeOK
    <3>2. LinesTaken + n \in 1 .. Len(whole)
      BY <2>1, <3>1, WireLengths
    <3>3. whole[LinesTaken + n] \in Tokens
      BY <2>1, <3>2, ElementOfSeq DEF ShapeOK
    <3>4. LineOK(sent, wire[n], whole[LinesTaken + n])
      BY <2>1, <3>1 DEF WireInv
    <3>5. Reads(sent, wire[n], whole[LinesTaken + n])
      BY <2>1, <3>3, <3>4, LineRead DEF ShapeOK
    <3> QED
      BY <3>5 DEF Reads
  <2> QED
    BY <2>2, <2>3, <2>4 DEF NothingLost
<1> QED
  BY Invariant, <1>1, PTL
=============================================================================
